--------------------------- MODULE MCEngramCpuHash ---------------------------
(* The CPU-side hash, with small bounds for TLC. *)
EXTENDS EngramCpuHash
==============================================================================
