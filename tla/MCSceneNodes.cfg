SPECIFICATION Spec
CONSTANTS
  Trees = {a, b}
  Rects = {r}
  Toplevels = {t}
  Root = Root
  Desktop = Desktop
  LockBand = LockBand
  Fill = Fill
  None = None
  MaxHeld = 2
SYMMETRY Symmetry
CHECK_DEADLOCK FALSE
INVARIANTS
  TypeOK
  RowsNameLive
  HeldIsLive
  Rooted
  RectFollowsToplevel
  FillIntact
