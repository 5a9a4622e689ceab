------------------------------- MODULE MCAssemble -------------------------------
(* The instance of MCRequant, with the snapshot assembled on the node that
   keeps the state: one of its shards is its own, the others come over rsync. *)
EXTENDS MCRequant, Assemble
==============================================================================
