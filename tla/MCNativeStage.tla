---------------------------- MODULE MCNativeStage ----------------------------
(* The native stage and the early hash, with small bounds for TLC. *)
EXTENDS NativeStage
==============================================================================
