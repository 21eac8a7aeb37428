CONSTANTS
  c1 = c1
  c2 = c2
  None = None
  Caller = {c1, c2}
  Timeout = 1
  Margin = 2
  TTLs = {3, 4}
  DefaultTTL = 4
  Overtakes = 1
  Delay = 1
  MaxTime = 8
SPECIFICATION Spec
SYMMETRY Symmetric
INVARIANTS
  TypeOK
  NoTokenExpiresInFlight
  OneFetcher
  ReturnsInTime
