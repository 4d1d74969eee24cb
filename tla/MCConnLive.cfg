CONSTANTS
  User = user
  Server = server
  Captive <- MCServer
  Closers <- MCUser
  Writers <- MCUser
  Hasty <- MCNone
  Clock <- MCNone
  RwSize = 3
  MaxPkts = 5
  Dup = FALSE
  Lossy = FALSE
  Quiet = 0
SPECIFICATION FairSpec
INVARIANT WindowRespected
PROPERTY OpenCompletes
PROPERTY AllDelivered
PROPERTY NoHalfOpen
CHECK_DEADLOCK FALSE
