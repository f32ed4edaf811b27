SPECIFICATION FairSpec
CONSTANTS
  t1 = t1
  p1 = p1
  s1 = s1
  o1 = o1
  e1 = e1
  e2 = e2
  dr1 = dr1
  dr2 = dr2
  u1 = u1
  None = None
  Sales = {s1}
  Payments = {}
  Transfers = {}
  Orders = {o1}
  Producers = {e1}
  Drains = {dr1}
  Retriers = {}
  MaxAttempts = 3
  Batch = 1
PROPERTY PostedIsFinal
PROPERTY Settles
