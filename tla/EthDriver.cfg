\* A receive buffer of two frames, a semaphore up to two, two faults.
CONSTANTS
  FifoSize = 2
  SemMax = 2
  MaxFaults = 2
  None = None
SPECIFICATION FairSpec
 
PROPERTIES SendEnds
\* Reading an odd frame away never ends, and everything else then waits: the station stops.
CHECK_DEADLOCK FALSE
