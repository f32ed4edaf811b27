SPECIFICATION Spec
CONSTANTS
  t1 = t1
  p1 = p1
  s1 = s1
  o1 = o1
  e1 = e1
  e2 = e2
  dr1 = dr1
  dr2 = dr2
  u1 = u1
  None = None
  Sales = {}
  Payments = {}
  Transfers = {t1}
  Orders = {}
  Producers = {e1}
  Drains = {dr1, dr2}
  Retriers = {u1}
  MaxAttempts = 2
  Batch = 1
SYMMETRY Symmetry
INVARIANT TypeOK
INVARIANT PostedIsDelivered
INVARIANT IssuedBeforeReceived
