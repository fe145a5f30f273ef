SPECIFICATION FairSpec
CONSTANTS
  a1 = a1
  a2 = a2
  Addresses = {a1, a2}
  Assignments = {{a1}, {a2}}
  MaxApplies = 3
  MaxWorkers = 2
INVARIANTS WorkersAccounted IntentFollowsAssignment
PROPERTIES GracefulNotCutShort ShutdownCompletes RemovedStopsDialing
CHECK_DEADLOCK FALSE
