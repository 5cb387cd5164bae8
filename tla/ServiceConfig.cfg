SPECIFICATION ConfigSpec
CONSTANTS
  Worlds <- MCWorlds
  MaxLoads = 6
INVARIANTS
  FileAndNameAgree
  GivenSettingWins
  AcceptedStarts
PROPERTIES
  GivenStays
  ReloadsAgree
\* The bound on the loads stops the model.
CHECK_DEADLOCK FALSE
