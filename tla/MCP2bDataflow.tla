---------------------------- MODULE MCP2bDataflow ----------------------------
(***************************************************************************)
(* Instances of P2bDataflow for TLC; the values are in the .cfg files.     *)
(***************************************************************************)
EXTENDS P2bInvariant

\* The word left by an earlier user of the scratch: zero, the one value that
\* would elect an epilogue at the first tile, and one past every threshold.
MCGarbage == {0, 3, 5}
==============================================================================
