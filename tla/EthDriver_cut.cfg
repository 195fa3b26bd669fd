\* A receive buffer of two frames, a semaphore up to two, no frame at fault.
CONSTANTS
  FifoSize = 2
  SemMax = 2
  MaxFaults = 0
  None = None
SPECIFICATION FairSpec
PROPERTIES SendCompletes
