SPECIFICATION MCSpec
CONSTANTS
  Supis = {supi1, supi2}
  Empty = empty
  RegTypes = {initial, mobility}
  Initial = initial
  Handlers = {h1, h2}
  Nobody = nobody
  SessionIds = {1, 2, 3, 4, 5, 6}
  FirstNgapId = 1000
  AddressPool = 2
  MaxAttempts = 3
  MaxSessions = 3
  MaxFaults = 2
SYMMETRY Symmetry
INVARIANTS
  CoreTypeOK
  ContextsBacked
  FirstLapRouted
  GaugesAgree
  LeakBounded
PROPERTIES
  ReleasesOwnSession
