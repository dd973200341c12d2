SPECIFICATION Spec
CONSTANTS
  None = None
  sender = sender
  admin = admin
  reader = reader
  other = other
  Keys = {k1, k2}
  Values = {1, 2}
  Receivers = {rx1, rx2}
  Clients = {sender, admin, reader}
  Publications <- Tagged
  Accept <- NewerStrict
  Mixes = FALSE
  MaxVersion = 2
  May <- HubMay
INVARIANTS
  TypeOK
  LiveExact
  IndexExact
  DeregisteredIsFinished
  KeyTravelsWithValue
  NeverGoesBack
SYMMETRY ReceiverSymmetry
CHECK_DEADLOCK FALSE
