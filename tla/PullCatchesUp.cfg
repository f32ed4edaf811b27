SPECIFICATION FairSpec
CONSTANTS
  m1 = m1
  m2 = m2
  r1 = r1
  w1 = w1
  p1 = p1
  u1 = u1
  v1 = v1
  v2 = v2
  None = None
  Drain = drain
  ReceiptFeed = receipts
  Stores = {w1}
  Movements = {m1, m2}
  Receipts = {}
  StoreOf <- OneStore
  CreatedAt <- Times
  MaxTime = 2
  CostOnly = {}
  UnknownSku = {m2}
  Skipped = {}
  Scheduled = {p1}
  Manual = {}
  StockEvents = {v1}
  OtherEvents = {}
  PageSize = 1
  MaxPages = 2
  MaxRestarts = 1
  MayCommitLate = FALSE
INVARIANT PendingIsServed
PROPERTY MovementsAreMirrored
