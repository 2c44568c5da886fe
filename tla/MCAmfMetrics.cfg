SPECIFICATION MCSpec
CONSTANTS
  Supis = {supi1, supi2}
  Empty = empty
  RegTypes = {initial, mobility}
  Initial = initial
  Handlers = {h1, h2}
  Nobody = nobody
  SessionIds = {1}
  FirstNgapId = 1000
  AddressPool = 254
  CounterModulus = 16
  MaxAttempts = 2
INVARIANT
  GaugeSoundInThatOrder
