------------------------------- MODULE MCRequant -------------------------------
(* Two nodes, as in the recipe: spark1 keeps the state, spark2 reaches it
   over ssh and takes the units from the other end. *)
EXTENDS Requant

MCNodes  == {"spark1", "spark2"}
MCRemote == {"spark2"}
MCUpward == {"spark1"}
\* spark2 has no copy of the first unit's source.
MCNoSource == {<<"spark2", 1>>}
==============================================================================
