CONSTANTS
  User = user
  Server = server
  Captive <- MCBoth
  Closers <- MCNone
  Writers <- MCUser
  Hasty <- MCUser
  Clock <- MCUser
  RwSize = 2
  MaxPkts = 4
  Dup = FALSE
  Lossy = TRUE
  Quiet = 1
SPECIFICATION Spec
INVARIANT NothingForgotten
INVARIANT BufferBounded
CHECK_DEADLOCK FALSE
