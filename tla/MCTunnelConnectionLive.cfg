SPECIFICATION FairSpec
CONSTANTS
  v1 = v1
  v2 = v2
  Visitors = {v1}
  Budget = 2
  MaxIdle = 1
  MaxOthers = 1
PROPERTIES
  WithdrawnCloses
  ShutdownDrains
  PermitsReturned
CHECK_DEADLOCK FALSE
