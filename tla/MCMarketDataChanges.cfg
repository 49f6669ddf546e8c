SPECIFICATION Spec
CONSTANTS
  Tickers <- MCSynthesizerTickers
  PoolSize <- MCSynthesizerBlocks
  MaxUpdates <- MCSynthesizerUpdates
  MaxSnapshots <- MCNone
  MaxDuplicates <- MCNone
  MaxMarkers <- MCNone
INVARIANTS
  UpdatesFindTheirOrder
CHECK_DEADLOCK FALSE
