SPECIFICATION FairSpec
CONSTANTS
  Now = 25
  Periods <- MCPeriods
INVARIANTS
  PeriodCovered
  PacketsNumbered
  LengthHonest
PROPERTIES
  QueryReturns
