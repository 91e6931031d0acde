CONSTANTS
  Client = {g1, g2}
  Worker = worker
  Buffer = 2
  MaxEvents = 4
  MaxDepth = 3
  MaxTransitions = 3
SPECIFICATION DeliverySpec
INVARIANTS
  EventsAccounted
  ResendHasRoom
  NothingStranded
  PendingIsTheHolders
  DeliveredByCommitter
PROPERTIES
  CloseEndsWorker
  EventsSettle
  OperationsReturn
