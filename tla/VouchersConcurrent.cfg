SPECIFICATION Spec
CONSTANTS
  v1 = v1
  v2 = v2
  v3 = v3
  s1 = s1
  s2 = s2
  rep1 = rep1
  r1 = r1
  r2 = r2
  t1 = t1
  t2 = t2
  None = None
  Requests = {r1, r2}
  Vouchers = {v1, v2}
  Kinds = {"SALE", "RETURN", "ORDER", "TRANSFER"}
  Stores = {s1, s2}
  Reps = {rep1}
  Owners = {rep1}
  Quantities = {1, 2}
  MaxQuantity = 2
  Terms = {t1}
  PostedFlags <- StockAtOnce
  InitStock = 1
  InitVan = 0
  MaxVan = 2
SYMMETRY Symmetry
INVARIANT TypeOK
INVARIANT FulfilledIsPosted
INVARIANT ShortOfOthersOnly
PROPERTY PostedIsFrozen
PROPERTY ReservedFollowsOrders
PROPERTY AnnouncedIsPosted
