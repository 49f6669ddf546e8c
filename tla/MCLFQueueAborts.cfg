SPECIFICATION FairSpec
CONSTANTS
  Size <- MCSize
  MaxLag <- MCMaxLag
  MaxWrites <- MCMaxWrites
INVARIANT
  NeverAborts
CHECK_DEADLOCK FALSE
