SPECIFICATION Spec
CONSTANTS
  TickerId <- MCTickerId
  Clients = {}
  OrderIds <- MCOrderIds
  NumOrders <- MCNumOrders
  NumLevels <- MCNumOrders
  NumPriceLevels <- MCNumPriceLevels
  Prices <- MCPrices
  Qtys <- MCQtys
  MaxUpdates <- MCMaxUpdates
INVARIANTS
  TypeOK
  BookIsReplica
  TopIsLive
  SoundSurvives
  BBOIsTop
CHECK_DEADLOCK FALSE
