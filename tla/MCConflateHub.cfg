SPECIFICATION Spec
CONSTANTS
  None = None
  Absent = Absent
  Drop = Drop
  Panic = Panic
  sender = sender
  admin = admin
  reader = reader
  other = other
  added = added
  deleted = deleted
  Clients = {sender, admin, reader}
  Keys = {k1, k2}
  Values = {added, deleted}
  Receivers = {rx1, rx2}
  Policies = {"cancels", "panics"}
  HubPolicy = "cancels"
  MergeOf <- MCMergeOf
  Filters <- KeyFilters
  Mixes = TRUE
  May <- HubMay
INVARIANTS
  LiveExact
  DeregisteredIsFinished
  QueueCoherent
PROPERTIES
  DrainedForever
  NoOvertaking
SYMMETRY ReceiverSymmetry
CHECK_DEADLOCK FALSE
