SPECIFICATION FairSpec
CONSTANTS
  Starts = {a1, a2}
  Shutdowns = {h1, h2}
  Deadlined = {h1}
  Scrapes = {q1, q2}
PROPERTIES
  RefinesGraceful
  PortIsReleased
  ShutdownReturns
CHECK_DEADLOCK FALSE
