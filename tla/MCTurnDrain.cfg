SPECIFICATION DrainSpec
CONSTANTS
  Layers = {l1, l2}
  Handles = {h1, h2}
  NoObject = NoObject
  MaxQueue = 2
  MaxDisplays = 2
SYMMETRY Symmetry
CHECK_DEADLOCK FALSE
INVARIANTS
  EmittingIsAllocated
  TableNamesLive
  DroppedIsReleased
  FreedOnce
