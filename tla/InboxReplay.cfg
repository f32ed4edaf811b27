SPECIFICATION Spec
CONSTANTS
  h1 = h1
  h2 = h2
  i1 = i1
  i2 = i2
  i3 = i3
  d1 = d1
  d2 = d2
  c1 = c1
  None = None
  Handlers = {h1, h2}
  Rows = {i1, i2, i3}
  VoucherDocs = {d1, d2}
  CollectionDocs = {c1}
  Referenced = {d1, c1}
  Numbered = {d1}
  MaxCopies = 2
SYMMETRY Symmetry
INVARIANT TypeOK
INVARIANT NumberedOnce
INVARIANT PostedIsInBooks
PROPERTY ImplementsIntake
