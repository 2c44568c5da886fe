SPECIFICATION MCSpec
CONSTANTS
  Supis = {supi1, supi2}
  UeIps = {ip1, ip2}
  QosProfiles = {9}
  Empty = empty
  MaxSessionId = 4
INVARIANTS
  TypeOK
  RouteWellFormed
  NewestSessionHoldsRoute
PROPERTIES
  RouteLostOnlyBySharing
  SessionsAreImmutable
