SPECIFICATION KeeperSpec
CONSTANTS
  Prices <- MCPrices
  Qtys <- MCQtys
  Garbage <- MCGarbage
  Scale <- MCScale
  MaxPosition <- MCMaxPosition
  MaxFills <- MCMaxFills
INVARIANTS
  KeeperTypeOK
  PnLIsCash
