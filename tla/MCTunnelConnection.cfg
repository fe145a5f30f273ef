SPECIFICATION Spec
CONSTANTS
  v1 = v1
  v2 = v2
  Visitors = {v1, v2}
  Budget = 1
  MaxIdle = 1
  MaxOthers = 1
SYMMETRY VisitorSymmetry
INVARIANTS
  PermitAccounting
  ConfirmedIsQuiescent
PROPERTIES
  OrderlyCloseCutsNothing
  PlacedFindsPermit
CHECK_DEADLOCK FALSE
