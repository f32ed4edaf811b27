----------------------------- MODULE MCVouchers -----------------------------
(* Small instances of Vouchers for TLC: two or three voucher numbers that   *)
(* are interchangeable, as stores and requests are.                         *)
EXTENDS Vouchers, TLC

CONSTANTS v1, v2, v3, s1, s2, rep1, r1, r2, t1, t2

Symmetry ==
  Permutations(Vouchers) \cup Permutations(Stores) \cup Permutations(Requests)

\* What clients send as isPosted: drafts or posted vouchers of what moves no
\* stock, the rest as posted.
StockAtOnce == [k \in Kinds |-> IF k = "ORDER" THEN BOOLEAN ELSE {TRUE}]
=============================================================================
