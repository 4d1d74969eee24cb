CONSTANTS
  User = user
  Server = server
  Captive <- MCServer
  Closers <- MCNone
  Writers <- MCBoth
  Hasty <- MCNone
  Clock <- MCNone
  RwSize = 3
  MaxPkts = 3
  Dup = TRUE
  Lossy = FALSE
  Quiet = 0
SPECIFICATION Spec
INVARIANT TypeOK
INVARIANT InOrderDelivery
INVARIANT ReceiptSafe
INVARIANT HealthyStaysOpen
INVARIANT CaptiveNeverStalls
PROPERTY Forward
PROPERTY IsChannel
CHECK_DEADLOCK FALSE
