CONSTANTS
  Station = {c1, c2}
  MaxSessions = 3
  MaxPkts = 2
  Cap = 1
  FirstFd = 3
  MaxNodes = 2
  MaxSlots = 3
  GenMod = 65536
SPECIFICATION FairSpec
INVARIANT TypeOK
INVARIANT Registered
PROPERTY IsLan
PROPERTY Served
PROPERTY Relayed
CHECK_DEADLOCK FALSE
