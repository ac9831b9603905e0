SPECIFICATION Spec
CONSTANTS
  Ids = {f1, f2, f3}
  NoId = NoId
  MaxRuns = 3
SYMMETRY Symmetry
CHECK_DEADLOCK FALSE
INVARIANTS
  BorrowedStaysOpen
  RemovedOnce
  NoSourceOutlivesRun
