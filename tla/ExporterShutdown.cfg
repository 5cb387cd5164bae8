SPECIFICATION Spec
CONSTANTS
  Docs = {d1, d2, d3}
  Syncs = {s1}
  Shutdowns = {h1, h2}
  Deadlined = {h1}
  QueueSize = 2
  BatchSize = 2
  NoCall = NoCall
INVARIANT ShutdownSendsThenStops
CHECK_DEADLOCK FALSE
