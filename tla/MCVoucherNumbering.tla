------------------------- MODULE MCVoucherNumbering -------------------------
(* Two requests on a series of a few serials.                               *)
EXTENDS VoucherNumbering, TLC

CONSTANTS r1, r2

Symmetry == Permutations(Requests)
=============================================================================
