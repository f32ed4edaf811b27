SPECIFICATION Spec
CONSTANTS
  r1 = r1
  r2 = r2
  Requests = {r1, r2}
  MaxNumber = 4
  MaxAttempts = 3
  ClientNumbers = {1, 2, 3, 4}
SYMMETRY Symmetry
INVARIANT TypeOK
PROPERTY IssuedOnce
PROPERTY CollidesOnlyWithDeleted
PROPERTY PreviewIsExact
