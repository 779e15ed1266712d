SPECIFICATION Spec
CONSTANTS
  p1 = p1
  p2 = p2
  p3 = p3
  Proc = {p1, p2, p3}
  MayFail = {p3}
  MayCrash = {p3}
  MaxSegment = 3
  NoProc = NoProc
SYMMETRY Reliable
INVARIANT TypeOK
INVARIANT OneLiveMutex
INVARIANT Exclusion
CHECK_DEADLOCK FALSE
