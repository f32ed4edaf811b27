---------------------------- MODULE MCBackOffice ----------------------------
(* A receipt, a cash return that waits for approval with two decisions on  *)
(* it at a time, and a settlement.                                         *)
EXTENDS BackOffice, TLC

CONSTANTS c1, a1, q1, v1, v2, k1

Symmetry == Permutations(Reviews)
=============================================================================
