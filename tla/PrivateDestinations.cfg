SPECIFICATION MCSpec
CONSTANTS
  Supis = {s1}
  UeIps = {"ue1"}
  QosProfiles = {9}
  Empty = empty
  Calls = {1}
  Packets <- WebPackets
  ThreadCounts = {0, 2}
  None = none
  MaxEstablished = 1
CHECK_DEADLOCK FALSE
INVARIANT PrivateDestinationsBlocked
