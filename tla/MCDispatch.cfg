SPECIFICATION FairSpec
CONSTANTS
  Displays = {d1}
  NoDisplay = NoDisplay
  MaxEvents = 4
  MaxForeign = 2
  MaxLoops = 2
  Nobody = Nobody
  Query = Query
INVARIANTS
  StateNotAliased
  LoopNotDrivenInHandler
  GuardsRestore
PROPERTIES
  ImplementsDelivery
  QueuedInHandlerIsDelivered
