SPECIFICATION MCSpec
CONSTANTS
  Loop = loop
  Workers = {w1}
  Queries = {q1, q2}
  Threads = {loop, w1, q1, q2}
  Locks = {"symbols", "names", "usr"}
  PipeSize = 6
  MaxRows = 1
  Nobody = nobody
  MaxStarts = 3
INVARIANTS SleepersAreBlocked SomebodyGoesOn
PROPERTIES ImplementsSharedLock EveryoneComesBack
CHECK_DEADLOCK FALSE
