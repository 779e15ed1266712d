SPECIFICATION FairSpec
CONSTANTS
  s = s
  u = u
  Ten = 2
  Msg <- MCMsg
  LevelName <- MCLevelName
  Worker = {w}
  Id = {x}
  Periods = {1, 0}
  MaxGen = 2
  MaxCycles = 3
  StartTime = 2
  MaxTime = 4
INVARIANT TypeOK
INVARIANT NothingLost
INVARIANT TimeAccounted
INVARIANT ReportInWindow
INVARIANT CrashExplained
PROPERTY EventuallyShown
CHECK_DEADLOCK FALSE
