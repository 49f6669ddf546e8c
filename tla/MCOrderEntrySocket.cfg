SPECIFICATION Spec
CONSTANTS
  Clients <- MCClients
  Sessions <- MCSessions
  Owner <- MCOwner
  TickerId <- MCNobody
  MaxRequests <- MCMaxRequests
  MaxFaults <- MCMaxFaults
  MaxPending <- MCMaxPending
  StableUpTo <- MCStableUpTo
INVARIANTS
  EveryClientHasSocket
CHECK_DEADLOCK FALSE
