SPECIFICATION FairSpec
CONSTANTS
  Workers = {w1, w2, w3}
  Tasks = {t1, t2, t3}
  Nobody = nobody
  NoTask = noTask
  MaxSpurious = 1
CHECK_DEADLOCK FALSE
INVARIANTS
  TypeOK
  NoStrandedTask
  StopReachesEveryone
  DestroyedMeansDrained
  CountersSettle
PROPERTIES
  ImplementsTaskQueue
  EveryTaskRuns
  DestructorTerminates
