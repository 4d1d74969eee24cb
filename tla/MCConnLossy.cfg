CONSTANTS
  User = user
  Server = server
  Captive <- MCServer
  Closers <- MCNone
  Writers <- MCBoth
  Hasty <- MCNone
  Clock <- MCBoth
  RwSize = 3
  MaxPkts = 2
  Dup = FALSE
  Lossy = TRUE
  Quiet = 1
SPECIFICATION FairLossySpec
PROPERTY AllDelivered
CHECK_DEADLOCK FALSE
