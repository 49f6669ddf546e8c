SPECIFICATION Spec
CONSTANTS
  TickerId <- MCTickerId
  Clients <- MCClients
  OrderIds <- MCOrderIds
  NumOrders <- MCNumOrders
  NumLevels <- MCNumLevels
  NumPriceLevels <- MCNumLevels
  Prices <- MCPrices
  Qtys <- MCQtys
  Senders <- MCSenders
INVARIANTS
  TypeOK
  ReplicaIsBook
  AnswersAddUp
  LeavesAreOpen
  RingsOrdered
PROPERTIES
  TimePriority
  MatchingEnds
CHECK_DEADLOCK FALSE
