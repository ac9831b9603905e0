SPECIFICATION Spec
CONSTANTS
  a1 = a1
  a2 = a2
  k = k
  c1 = c1
  c2 = c2
  TextInputs = {t1, t2}
  InputMethods = {i1, i2}
  Surfaces <- MCSurfaces
  LockSurfaces <- MCLockSurfaces
  Clients = {c1, c2}
  ClientOf <- MCClientOf
  NoSurface = NoSurface
  NoText = NoText
  NoIme = NoIme
  NoGrab = NoGrab
  MaxRuns = 2
SYMMETRY Symmetry
CHECK_DEADLOCK FALSE
INVARIANTS
  ImeSeesDriver
  FocusedTextInputsEntered
  NoneLeftEntered
  OverlayOnlyWhileActive
PROPERTY
  DriverLeavesWithFocus
