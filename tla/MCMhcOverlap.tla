----------------------------- MODULE MCMhcOverlap -----------------------------
(* Four forwards of two sublayers, with pools as small as a sublayer allows:
   every freed buffer is reused at once.                                      *)
EXTENDS MhcOverlap
==============================================================================
