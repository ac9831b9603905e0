SPECIFICATION Spec
CONSTANTS
  Toplevels = {t}
  Popups = {p, q, r}
  Subsurfaces = {s}
  Client = Client
  Server = Server
  None = None
  MaxDepth = 2
SYMMETRY Symmetry
CHECK_DEADLOCK FALSE
INVARIANTS
  TablesAgree
  ConfiguredIsLive
  ModeIsChosen
PROPERTIES
  DismissedLeafFirst
