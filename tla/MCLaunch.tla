------------------------------ MODULE MCLaunch -------------------------------
(* Two launches on the same pair of nodes. *)
EXTENDS Launch

CONSTANTS l1, l2

MCLaunches == {l1, l2}
==============================================================================
