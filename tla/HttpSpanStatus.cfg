SPECIFICATION Spec
CONSTANTS
  r1 = r1
  r2 = r2
  c1 = c1
  p1 = p1
  Requests = {r1, r2}
  Names = {c1, p1}
  Blank = Blank
  Chains <- MCChains
  Holders = {"owner", "granted", "outside"}
  Claims <- MCClaims
  Contour = c1
  Permission = p1
INVARIANTS
  SpanHasFinalStatus
CHECK_DEADLOCK FALSE
