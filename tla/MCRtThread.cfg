SPECIFICATION FairSpec
CONSTANTS
  main = main
  t1 = t1
  t2 = t2
  NS = 4
  Shift = 1
  PDiv = 1
  IDiv = 2
  Ulp = 2
  Main = main
  Thread = {t1, t2}
  Programs <- MCPrograms
  Reserve = 2
  Sizes = {1, 2}
  MaxHeap = 4
  Timed = t1
  Periods = {3, 5}
  RefTimes = {0, 2, 3}
  MaxClock = 9
  MaxIntegral = 6
  MaxBelow = 4
INVARIANT TypeOK
INVARIANT OnGrid
INVARIANT CatchUp
INVARIANT SleepRefused
INVARIANT OverrunSeen
INVARIANT BackwardOnlyByWindup
INVARIANT NeverFaults
INVARIANT PoolKept
INVARIANT FaultsReportedOnce
PROPERTY IncReturns
CHECK_DEADLOCK FALSE
