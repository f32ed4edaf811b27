--------------------------- MODULE MCRepLiveness ---------------------------
(* One salesman, two servers, one or two devices.                           *)
EXTENDS RepLiveness, TLC

CONSTANTS r1, i1, i2, b1, b2
=============================================================================
