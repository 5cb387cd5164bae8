SPECIFICATION FairServiceSpec
CONSTANTS
  Rpcs = {r1, r2}
  Requests <- MCRequests
  DefaultTimeout = FALSE
INVARIANTS
  CorrelationTravels
PROPERTIES
  RefinesGraceful
  
  
  CallsOutEnd
CHECK_DEADLOCK FALSE
