SPECIFICATION MCSpec
CONSTANTS
  Supis = {s1}
  UeIps = {"ue1"}
  QosProfiles = {1, 4}
  Empty = empty
  Calls = {1, 2}
  Packets <- MCPackets
  ThreadCounts = {0, 2}
  None = none
  MaxEstablished = 2
CHECK_DEADLOCK FALSE
INVARIANTS
  ScrapeBounds
  FinalReportBalances
PROPERTIES
  ImplementsPacketFilter
  ResponseOwned
  ShutdownCompletes
