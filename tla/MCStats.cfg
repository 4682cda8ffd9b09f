CONSTANTS
  v1 = v1
  v2 = v2
  a1 = a1
  Visitors = {v1, v2}
  Agents = {a1}
  Usage <- MCUsage
  Path = TRUE
  MaxEvents = 3
  MaxStarts = 3
SPECIFICATION LiveSpec
INVARIANTS
  TypeOK
  NeverOvercounts
  VisitorsOnce
  RestartDurable
PROPERTIES
  FlushCatchesUp
CHECK_DEADLOCK FALSE
