SPECIFICATION Spec
CONSTANTS
  Apps = {a}
  LockSurfaces = {k}
  Constraints = {c}
  None = None
  TouchIds = {t}
  Nowhere = Nowhere
  MaxButtons = 2
SYMMETRY Symmetry
CHECK_DEADLOCK FALSE
PROPERTY NoAppMotionWhileLocked
