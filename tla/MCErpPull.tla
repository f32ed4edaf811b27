----------------------------- MODULE MCErpPull -----------------------------
(* Two movements of one store, the second of a SKU cash-van may not know,   *)
(* and a receipt.                                                           *)
EXTENDS ErpPull, TLC

CONSTANTS m1, m2, r1, w1, p1, u1, v1, v2

OneStore == [m \in Movements |-> w1]
Times == [r \in Rows |-> IF r = m2 THEN 2 ELSE 1]
=============================================================================
