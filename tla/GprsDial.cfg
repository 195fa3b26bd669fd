SPECIFICATION FairSpec
CONSTANTS
  LongWait = 2
  ShortWait = 1
  MaxOwed = 2
INVARIANTS
  FlagsInOrder
  ResultTellsFlags
  FailedDialHasReset
PROPERTIES
  DialReturns
