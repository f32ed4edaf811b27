SPECIFICATION Spec
CONSTANTS
  m1 = m1
  m2 = m2
  r1 = r1
  w1 = w1
  p1 = p1
  u1 = u1
  v1 = v1
  v2 = v2
  None = None
  Drain = drain
  ReceiptFeed = receipts
  Stores = {w1}
  Movements = {m1, m2}
  Receipts = {r1}
  StoreOf <- OneStore
  CreatedAt <- Times
  MaxTime = 2
  CostOnly = {}
  UnknownSku = {m2}
  Skipped = {}
  Scheduled = {p1}
  Manual = {u1}
  StockEvents = {}
  OtherEvents = {v2}
  PageSize = 1
  MaxPages = 2
  MaxRestarts = 1
  MayCommitLate = FALSE
INVARIANT MovementOnce
INVARIANT SeenIsMirrored
INVARIANT CursorCovers
