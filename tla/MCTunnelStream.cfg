SPECIFICATION StreamSpec
CONSTANTS
  Addresses = Addresses
  Hello = Hello
  MaxBytes = 2
INVARIANT StreamFaithful
PROPERTY ResponseDelivered
CHECK_DEADLOCK FALSE
