CONSTANTS
  Buf = {b1, b2, b3, b4}
  NOPKT = NOPKT
  Start = 65533
  MaxSent = 3
  MaxRcvd = 4
  RwSize = 4
SYMMETRY Symmetry
CONSTRAINT Together
SPECIFICATION Spec
INVARIANT TypeOK
INVARIANT BuffersOwnedOnce
INVARIANT TailReachable
INVARIANT Unreceipted
INVARIANT Stored
CHECK_DEADLOCK FALSE
