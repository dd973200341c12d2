SPECIFICATION Spec
CONSTANTS
  None = None
  sender = sender
  admin = admin
  reader = reader
  other = other
  Keys = {k1}
  Values = {1, 2}
  Receivers = {rx1}
  Clients = {sender, admin, reader, other}
  Publications <- Everything
  Accept <- Latest
  Mixes = FALSE
  MaxVersion = 2
  May <- ReadersMay
INVARIANTS
  WaitersExact
  NoLostWakeup
  MarkExact
  EachValueOnce
PROPERTIES
  AtMostOneAfterClose
  ImplementsContract
CHECK_DEADLOCK FALSE
