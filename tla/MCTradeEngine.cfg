SPECIFICATION FairSpec
CONSTANTS
  ClientIds <- MCClientIds
  TickerId <- MCTickerId
  Prices <- MCPrices
  Clip <- MCClip
  MaxOrderSize <- MCMaxOrderSize
  MaxPosition <- MCMaxPosition
  MaxOrders <- MCMaxOrders
  MaxOthers <- MCMaxOthers
INVARIANTS
  TypeOK
  WithinLimit
  OneOrderPerSide
  ViewsAgree
PROPERTIES
  NoRevival
  NewOrderSettles
CHECK_DEADLOCK FALSE
