SPECIFICATION FairSpec
CONSTANTS
  s = s
  c1 = c1
  c2 = c2
  Procs = {s, c1}
  Servers <- MCServers
  Calls <- OneWriterCalls
  MayCrash = {c1}
  Periodic = {s}
  FlushGap = 1
  Watchdog = 2
  StartTime = 3
  MaxTime = 9
  NoProc = NoProc
  Zero = Zero
INVARIANT StaleCommandBound
PROPERTY ImplementsChannel
PROPERTY SoloCallReturns
CHECK_DEADLOCK FALSE
