SPECIFICATION FairSpec
CONSTANTS
  Tickers <- MCTickers
  PoolSize <- MCPoolSize
  MaxUpdates <- MCMaxUpdates
  MaxSnapshots <- MCMaxSnapshots
  MaxDuplicates <- MCMaxDuplicates
  MaxMarkers <- MCMaxMarkers
INVARIANTS
  TypeOK
  NothingDiscarded
  SynthesizerFollows
PROPERTIES
  RecoveryIsFinal
  ImplementsSubscription
  FirstRecoveryEnds
CHECK_DEADLOCK FALSE
