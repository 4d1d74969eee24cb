CONSTANTS
  Station = {c1, c2}
  MaxSessions = 3
  MaxPkts = 2
  Cap = 1
  FirstFd = 3
  MaxNodes = 2
  MaxSlots = 3
  GenMod = 8
SPECIFICATION Spec
INVARIANT ClosedIsErased
CHECK_DEADLOCK FALSE
