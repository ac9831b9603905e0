SPECIFICATION Spec
CONSTANTS
  Keyboards = {b1, b2}
  Grabs = {g1, g2}
  NoKeyboard = NoKeyboard
  NoGrab = NoGrab
  MaxRuns = 2
  MaxWaiting = 2
SYMMETRY Symmetry
CHECK_DEADLOCK FALSE
INVARIANTS
  GrabFollowsSeat
  DeferredIsForwarded
  LoneKeyObeysHandler
