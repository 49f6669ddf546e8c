SPECIFICATION FairSpec
CONSTANTS
  Size <- MCSize
  MaxLag <- MCMaxLag
  MaxWrites <- MCMaxWrites
INVARIANTS
  TypeOK
  NoDataRace
  SizedNeverAborts
PROPERTIES
  ImplementsFifo
  EventuallyDelivered
CHECK_DEADLOCK FALSE
