CONSTANTS
  p1 = p1
  p2 = p2
  t1 = t1
  t2 = t2
  t3 = t3
  i1 = i1
  None = None
  Processes = {p1, p2}
  Threads = {t1, t2, t3}
  Installers = {i1}
  ProcessOf <- MCProcessOf
  Ops <- MCOps
  Length <- MCLength
  IndexAt <- MCIndexAt
  MaxTries = 2
  BufCap = 1
  MayExit = {p2}
  EngineMayFail = TRUE
  MaxCalls = 1
  MaxCrashes = 1
SPECIFICATION Spec
INVARIANTS TypeOK Conversation OwnChunksInOrder
PROPERTIES NoStaleSynthesis
\* The number of calls is bounded, so everybody may be done.
CHECK_DEADLOCK FALSE
