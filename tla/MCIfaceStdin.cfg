CONSTANTS
  me = me
  other = other
  Addr = {me, other}
  chaos_addr = me
  NetLens = {3}
  GuestCsr <- Writes
  XmitMax = 1
  InMax = 1
  FirstFd = 3
  ReconnectDelay = 2
SPECIFICATION Spec
INVARIANT Reconnected
CHECK_DEADLOCK FALSE
