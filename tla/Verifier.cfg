SPECIFICATION Spec
CONSTANTS
  k1 = k1
  k2 = k2
  Kids <- MCKids
  Requests = {r1, r2}
  NoKid = NoKid
  Kind <- MCKind
  Methods <- MCMethods
  CacheTTL = 2
  Timeout = 1
  Pause = 2
  MaxTime = 5
  MaxRotations = 2
SYMMETRY RequestSymmetry
INVARIANTS
  ServedKeysAreRecent
  NoAlgorithmConfusion
PROPERTIES
  RefinesKeyTrust
CHECK_DEADLOCK FALSE
