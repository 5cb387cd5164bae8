SPECIFICATION FairSpec
CONSTANTS
  Docs = {d1, d2}
  Syncs = {s1}
  Shutdowns = {h1, h2}
  Deadlined = {h1}
  QueueSize = 1
  BatchSize = 2
  NoCall = NoCall
INVARIANTS
  TypeOK
  FifoAccounting
  NilMeansSent
  HonestAnswer
  StopsDrained
PROPERTIES
  RefinesSink
  CallReturns
  DeliveryAttempted
CHECK_DEADLOCK FALSE
