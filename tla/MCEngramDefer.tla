---------------------------- MODULE MCEngramDefer -----------------------------
(* Two requests: one alone, both in a batch, or one after the other. *)
EXTENDS EngramDefer

MCReqs == 1 .. 2
==============================================================================
