-------------------------- MODULE MCSessionRunner --------------------------
(* SessionRunner on a few clients and calls. *)
EXTENDS SessionRunner, TLC

CONSTANTS c1, c2, c3

MCClients3 == {c1, c2, c3}
Symmetry3 == Permutations(MCClients3)
=============================================================================
