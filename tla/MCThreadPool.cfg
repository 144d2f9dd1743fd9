SPECIFICATION FairSpec
CONSTANTS
  w1 = w1
  w2 = w2
  j1 = j1
  j2 = j2
  j3 = j3
  Workers <- MCWorkers
  Jobs <- MCJobs
  Priorities <- MCPriorities
  NoJob = NoJob
INVARIANTS
  EachJobOnce
  QueueIsServed
PROPERTIES
  QueuedJobIsTaken
  OwnerReturns
CHECK_DEADLOCK FALSE
