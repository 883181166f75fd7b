-------------------------- MODULE MCPccController --------------------------
(* PccController on small instances.                                       *)
EXTENDS PccController, TLC

Symmetry == Permutations(Requests)
============================================================================
