SPECIFICATION Spec
CONSTANTS
  s1 = s1
  s2 = s2
  water = water
  juice = juice
  smoke = smoke
  d1 = d1
  van = van
  None = None
  NoLimit = NoLimit
  Sellers = {s1, s2}
  Items = {water, juice, smoke}
  Catalogue <- MCCatalogue
  Price <- MCPrice
  Rate <- MCRate
  Tobacco <- MCTobacco
  Requests <- MCRequests
  Carts <- MCCarts
  TaxModes = {"EXCLUSIVE", "INCLUSIVE"}
  Edited = {2}
  EditsUntil = 1
  MaxSales = 3
  MaxLost = 1
INVARIANT LimitHolds
INVARIANT PostedAsPreviewed
INVARIANT HeaderIsSpread
INVARIANT EnginesAgree
SYMMETRY Symmetry
CHECK_DEADLOCK FALSE
