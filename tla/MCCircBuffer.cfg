SPECIFICATION Spec
CONSTANTS
  r1 = r1
  r2 = r2
  w = w
  k = k
  Thread = {r1, r2, w, k}
  Calls <- MixedCalls
  Capacity = {0, 1, 2, 3}
  MaxPush = 4
  NoElem = NoElem
  Lost = Lost
INVARIANT TypeOK
INVARIANT NotAllAsleep
INVARIANT InOrder
