SPECIFICATION Spec
CONSTANTS
  Visitors = {v1, v2}
  Sources = {s1, s2}
  Trusted = {s1}
  Limits <- MCLimits
  Configs <- MCConfigs
  MaxEvents = 2
  MaxDelay = 2
  MaxHandshakes = 1
INVARIANTS IntakeAccounting ReadyServerAccepts
PROPERTIES ExitAccounts GracefulCutsNothing ShutdownExits
CHECK_DEADLOCK FALSE
