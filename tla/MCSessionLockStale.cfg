SPECIFICATION Spec
CONSTANTS
  Outputs = {o1, o2}
  Locks = {l1, l2, l3}
  NoLock = NoLock
  Nobody = Nobody
  App = App
  NoGrab = NoGrab
  MaxRuns = 2
SYMMETRY Symmetry
CHECK_DEADLOCK FALSE
INVARIANT
  RecordedLockLive
