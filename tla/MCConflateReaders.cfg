SPECIFICATION AuditSpec
CONSTANTS
  None = None
  Absent = Absent
  Drop = Drop
  Panic = Panic
  sender = sender
  admin = admin
  reader = reader
  other = other
  added = added
  deleted = deleted
  Clients = {sender, admin, reader}
  Keys = {k1, k2}
  Values = {added, deleted}
  Receivers = {rx1}
  Policies = {"strict"}
  HubPolicy = "strict"
  MergeOf <- MCMergeOf
  Filters <- NoFilter
  MaxUnread = 2
  Mixes = TRUE
  May <- ReadersMay
INVARIANTS
  TypeOK
  WaitersExact
  NoLostWakeup
PROPERTIES
  ClosedReceiverFrozen
  ImplementsContract
  EachSendAccounted
SYMMETRY KeySymmetry
CHECK_DEADLOCK FALSE
