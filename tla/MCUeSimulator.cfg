SPECIFICATION MCSpec
CONSTANTS
  NumUes = 3
  NumThreads = 2
  NumPackets = 1
  BackoffLimit = 1
  MaxCalls = 3
CHECK_DEADLOCK FALSE
INVARIANTS
  RequestedOncePerPod
  StatisticsComplete
  CountedOnce
