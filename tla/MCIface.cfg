CONSTANTS
  me = me
  other = other
  Addr = {me, other}
  chaos_addr = me
  NetLens = {3}
  GuestCsr <- Writes
  XmitMax = 1
  InMax = 1
  FirstFd = 3
  ReconnectDelay = 2
SPECIFICATION FairSpec
INVARIANT TypeOK
INVARIANT Announced
PROPERTY Untorn
PROPERTY Pumped
PROPERTY Reconnects
CHECK_DEADLOCK FALSE
