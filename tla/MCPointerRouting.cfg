SPECIFICATION Spec
CONSTANTS
  Apps = {a, b}
  LockSurfaces = {k}
  Constraints = {c, d}
  None = None
  TouchIds = {t}
  Nowhere = Nowhere
  MaxButtons = 2
SYMMETRY Symmetry
CHECK_DEADLOCK FALSE
INVARIANTS
  GrabIsFocus
  ActivatedIsActive
  IconFollowsDrag
PROPERTIES
  PressKeepsFocus
  LockTakesPointer
