SPECIFICATION Spec
CONSTANTS
  Now = 25
  Periods <- MCLongPeriods
INVARIANTS
  EveryPacketNext
