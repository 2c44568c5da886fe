SPECIFICATION MCSpec
CONSTANTS
  NumRequests = 2
  MaxRuns = 2
  OtherRequests = {o1}
  Supis <- MCSupis
  Requests <- MCRequests
  RegTypes = {"initial", "mobility"}
  None = none
  MaxThreads = 3
CHECK_DEADLOCK FALSE
INVARIANTS
  ScrapeConsistent
  CountedMeansRegistered
PROPERTIES
  ImplementsRegistry
  InitialNeverOverwrites
  HangsOnlyInGrpc
