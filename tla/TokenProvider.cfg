SPECIFICATION FairSpec
CONSTANTS
  Callers = {c1, c2, c3}
  NoCaller = NoCaller
  Lifetimes = {1, 4}
  Unusable = Unusable
  Default = 3
  Margin = 2
  Timeout = 1
  MaxTime = 5
INVARIANTS
  WaitIsBounded
PROPERTIES
  NewestTokenStays
  CachedTokenLives
  CallReturns
CHECK_DEADLOCK FALSE
