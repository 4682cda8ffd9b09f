CONSTANTS
  MaxShares = 2
  MaxFetches = 2
  MaxStarts = 3
SPECIFICATION LiveSpec
INVARIANTS
  TypeOK
  BusyIffWorked
  AlwaysStoppable
PROPERTIES
  StopEnds
  CancelEnds
  SeedingEnds
CHECK_DEADLOCK FALSE
