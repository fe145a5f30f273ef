SPECIFICATION Spec
CONSTANTS
  Processes = {p1, p2}
  NoProcess = NoProcess
  Legacies <- MCLegacies
  MaxCertificate = 2
  MaxClock = 2
  MaxFaults = 1
  Controlled = {p2}
CHECK_DEADLOCK FALSE
INVARIANTS StoreRecovers OwnershipSound NoWakeupLost
PROPERTIES StoreIsRegister CertificateKept
