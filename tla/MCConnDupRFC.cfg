CONSTANTS
  User = user
  Server = server
  Captive <- MCServer
  Closers <- MCNone
  Writers <- MCBoth
  Hasty <- MCNone
  Clock <- MCUser
  RwSize = 3
  MaxPkts = 1
  Dup = FALSE
  Lossy = TRUE
  Quiet = 1
SPECIFICATION Spec
PROPERTY DuplicateRFCRetransmitsOPN
CHECK_DEADLOCK FALSE
