\* Three tasks of different priority, a ring of two slots that wraps, two
\* messages, waits for ever and for one tick, a semaphore up to one.
CONSTANTS
  Prios = {1, 2, 3}
  Msgs = {m1, m2}
  NoMsg = NoMsg
  QSize = 2
  SemMax = 1
  Timeouts = {0, 1}
SPECIFICATION FairSpec
INVARIANTS ReadyListTrue CallsAccountedFor NoIdleWait
PROPERTIES KeepsPromise BoundedWaitEnds
