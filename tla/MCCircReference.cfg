SPECIFICATION Spec
CONSTANTS
  r1 = r1
  r2 = r2
  w = w
  k = k
  Thread = {r1, w}
  Calls <- PairCalls
  Capacity = {2}
  MaxPush = 4
  NoElem = NoElem
  Lost = Lost
INVARIANT ReferenceStaysValid
