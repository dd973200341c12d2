SPECIFICATION Spec
CONSTANTS
  None = None
  sender = sender
  admin = admin
  reader = reader
  other = other
  Keys = {k1}
  Values = {1}
  Receivers = {rx1}
  Clients = {sender, admin, reader}
  Publications <- Everything
  Accept <- Latest
  Mixes = FALSE
  MaxVersion = 2
  May <- PeekMay
PROPERTIES
  PeekIsUnread
CHECK_DEADLOCK FALSE
