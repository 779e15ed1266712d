SPECIFICATION FairSpec
CONSTANTS
  a = a
  b = b
  d = d
  w1 = w1
  w2 = w2
  w3 = w3
  Task <- MCTask
  Worker = {w1, w2, w3}
  Owner = owner
  Producer = {p}
  Cancelling = {d}
  Child <- OneChild
  MayCancel = {p}
  MaxFinish = 2
  Stop = Stop
  NoTask = NoTask
INVARIANT TypeOK
INVARIANT NoLostWakeup
INVARIANT EachTaskOnce
INVARIANT StopForEveryone
PROPERTY QueuedTaskRuns
PROPERTY DestructorReturns
CHECK_DEADLOCK FALSE
