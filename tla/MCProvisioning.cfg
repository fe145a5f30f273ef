SPECIFICATION ProvisionSpec
CONSTANTS
  NULL = NULL
  Strings <- MCStrings
  NoFile = NoFile
  Inputs <- MCInputs
  MaxServerAddresses = 2
  MaxBinds = 2
  MinCapacity = 1
  DefaultCapacity = 2
  MaxCapacity = 3
  Hostnames = {h1, h2}
  Commands = {p1, p2}
  MaxCommands = 4
  Unread = Unread
  Unreadable = Unreadable
  FdReserve = 2
  MaxSnapshotAddresses = 2
  Capacities = {0, 1, 2, 3, 5}
  MaxNofile = 18
 
PROPERTIES SuccessIsUsable
CHECK_DEADLOCK FALSE
