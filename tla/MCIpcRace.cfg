SPECIFICATION Spec
CONSTANTS
  s = s
  c1 = c1
  c2 = c2
  Procs = {s, c1, c2}
  Servers <- MCServers
  Calls <- RaceCalls
  MayCrash = {c1, c2}
  Periodic = {}
  FlushGap = 1
  Watchdog = 1
  StartTime = 1
  MaxTime = 2
  NoProc = NoProc
  Zero = Zero
SYMMETRY Clients
INVARIANT TypeOK
INVARIANT NoTornPacket
PROPERTY UndisturbedIsAtomic
CHECK_DEADLOCK FALSE
