\* The three timers of the build, a tick of 2 ms. A word of 20 bits, so that TLC can multiply
\* it by 1000; the clock starts anywhere and just before it wraps.
CONSTANTS
  Timers = {"tcp", "ip", "arp"}
  TcpTimer = "tcp"
  Interval <- MCInterval
  TicksPerSec = 500
  WordMax = 1048575
  ClockValues = {7, 1048575}
SPECIFICATION Spec
INVARIANT TimersRun
PROPERTIES KeepsTimerSet EveryTimerFires
