---------------------------- MODULE MCErpOutbox ----------------------------
(* A transfer (two direct calls), and a payment or an order next to it.     *)
EXTENDS ErpOutbox, TLC

CONSTANTS t1, p1, s1, o1, e1, e2, dr1, dr2, u1

Symmetry == Permutations(Producers) \cup Permutations(Drains)
=============================================================================
