SPECIFICATION Spec
CONSTANTS
  r1 = r1
  r2 = r2
  operator = operator
  Upgrades = {r1, r2}
  Processes = {r1, r2}
  Rollbacks = {operator}
  Migrates = {r1, r2}
  Last = 2
  NoOne = NoOne
  Parts <- MCParts
  MaxRestarts = 1
INVARIANTS
  MigrationsAreSerial
  MigratedWhenReady
  NothingStaysOpen
  
PROPERTIES
  ClientReturns
CHECK_DEADLOCK FALSE
