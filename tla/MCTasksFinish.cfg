SPECIFICATION FairSpec
CONSTANTS
  a = a
  b = b
  d = d
  w1 = w1
  w2 = w2
  w3 = w3
  Task <- MCTask
  Worker = {w1, w2}
  Owner = owner
  Producer = {}
  Cancelling = {}
  Child <- NoChild
  MayCancel = {}
  MaxFinish = 1
  Stop = Stop
  NoTask = NoTask
PROPERTY FinishWaits
CHECK_DEADLOCK FALSE
