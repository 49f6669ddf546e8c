SPECIFICATION Spec
CONSTANTS
  TickerId <- MCTickerId
  Clients <- MCClients
  OrderIds <- MCOrderIds
  NumOrders <- MCNumOrders
  NumLevels <- MCNumLevels
  NumPriceLevels <- MCNumLevels
  Prices <- MCPrices
  Qtys <- MCQtys
  Senders <- MCSenders
INVARIANT
  SidesSorted
CHECK_DEADLOCK FALSE
