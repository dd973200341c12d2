SPECIFICATION Spec
CONSTANTS
  None = None
  Absent = Absent
  Drop = Drop
  Panic = Panic
  sender = sender
  admin = admin
  reader = reader
  other = other
  added = added
  deleted = deleted
  Clients = {sender, admin, reader}
  Keys = {k1}
  Values = {added}
  Receivers = {rx1}
  Policies = {"latest"}
  HubPolicy = "latest"
  MergeOf <- MCMergeOf
  Filters <- NoFilter
  Mixes = FALSE
  May <- PeekMay
INVARIANTS
  HubCloseReachesEveryFeeder
CHECK_DEADLOCK FALSE
