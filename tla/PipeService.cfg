CONSTANTS
  p1 = p1
  p2 = p2
  t1 = t1
  t2 = t2
  t3 = t3
  i1 = i1
  None = None
  Processes = {p1, p2}
  Threads = {t1, t2, t3}
  Installers = {}
  ProcessOf <- MCProcessOf
  Ops <- MCOps
  Length <- MCLength
  IndexAt <- MCIndexAt
  MaxTries = 1
  BufCap = 1
  MayExit = {p2}
  EngineMayFail = FALSE
  MaxCalls = 1
  MaxCrashes = 1
SPECIFICATION FairSpec
INVARIANTS SuccessMeansComplete
PROPERTIES ServiceSpec EveryCallReturns DroppedConnectionIsReleased ShutdownCompletes
\* The number of calls is bounded, so everybody may be done.
CHECK_DEADLOCK FALSE
