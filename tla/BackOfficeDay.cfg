SPECIFICATION Spec
CONSTANTS
  c1 = c1
  a1 = a1
  a2 = a2
  q1 = q1
  v1 = v1
  v2 = v2
  k1 = k1
  None = None
  Receipts = {c1}
  Amounts = {1, 2}
  ReceiptRequests = {q1}
  SaleRequests = {a1}
  NumberedSales = {}
  Refunds = {a1}
  Reviews = {v1, v2}
  MaxCopies = 2
  Price = 1
  Payments = {1}
  Settlers = {k1}
  MaxSettlements = 1
SYMMETRY Symmetry
INVARIANT ApprovedIsExecuted
PROPERTY TakenIsReconciled
PROPERTY TakenIsFrozen
PROPERTY SettledIsCovered
