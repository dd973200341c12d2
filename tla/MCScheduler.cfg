SPECIFICATION SchedSpec
CONSTANTS
  None = None
  sender = sender
  admin = admin
  reader = reader
  other = other
  Keys = {k1, k2}
  Values <- States
  Receivers = {rx1}
  Clients = {sender, admin, reader, other}
  Publications <- Changes
  Accept <- Newer
  Mixes = FALSE
  MaxVersion = 4
  MaxSeq = 4
  May <- SchedMay
INVARIANTS
  SlotHoldsTruth
  EndsOnTruth
CHECK_DEADLOCK FALSE
