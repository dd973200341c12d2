SPECIFICATION Spec
CONSTANTS
  None = None
  sender = sender
  admin = admin
  reader = reader
  other = other
  Keys = {k1}
  Values = {1}
  Receivers = {rx1}
  Clients = {sender, admin, reader}
  Publications <- Everything
  Accept <- Latest
  Mixes = TRUE
  MaxVersion = 2
  May <- MixedMay
INVARIANTS
  EachValueOnce
CHECK_DEADLOCK FALSE
