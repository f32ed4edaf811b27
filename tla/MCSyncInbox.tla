---------------------------- MODULE MCSyncInbox ----------------------------
(* A numbered and an unnumbered voucher, a collection, a few inbox rows.   *)
EXTENDS SyncInbox, TLC

CONSTANTS h1, h2, i1, i2, i3, d1, d2, c1

Symmetry == Permutations(Handlers) \cup Permutations(Rows)
=============================================================================
