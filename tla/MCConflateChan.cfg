SPECIFICATION FairSpec
CONSTANTS
  None = None
  Absent = Absent
  Drop = Drop
  Panic = Panic
  sender = sender
  admin = admin
  reader = reader
  other = other
  added = added
  deleted = deleted
  Clients = {sender, admin, reader}
  Keys = {k1, k2}
  Values = {added, deleted}
  Receivers = {rx1}
  Policies = {"cancels"}
  HubPolicy = "cancels"
  MergeOf <- MCMergeOf
  Filters <- NoFilter
  Mixes = FALSE
  May <- ChanMay
PROPERTIES
  ReaderReleased
  CloseEndsFeeder
  HubCloseEndsFeeders
  SoftCloseEndsRange
  NoStarvation
CHECK_DEADLOCK FALSE
