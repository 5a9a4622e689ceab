----------------------------- MODULE MCP2bBuild ------------------------------
(***************************************************************************)
(* An instance of P2bBuild for TLC.                                        *)
(***************************************************************************)
EXTENDS P2bBuild

MCExperts == {3, 5, 7}
==============================================================================
