SPECIFICATION Spec
CONSTANTS
  Kids = {k1, k2}
  Requests = {r1, r2}
  NoKid = NoKid
  NoRequest = NoRequest
  CacheTTL = 1
  Timeout = 1
  MaxTime = 3
  MaxRotations = 2
INVARIANTS
  ServedKeysAreRecent
  OvertakenOnly
PROPERTIES
  RefinesKeyTrust
CHECK_DEADLOCK FALSE
