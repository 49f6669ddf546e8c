SPECIFICATION FairSpec
CONSTANTS
  Clients <- MCClients
  Sessions <- MCSessions
  Owner <- MCOwner
  TickerId <- MCTickerId
  MaxRequests <- MCMaxRequests
  MaxFaults <- MCMaxFaults
  MaxPending <- MCMaxPending
  StableUpTo <- MCStableUpTo
INVARIANTS
  TypeOK
  RequestsInOrder
  ResponsesInOrder
PROPERTY
  EveryRequestAnswered
CHECK_DEADLOCK FALSE
