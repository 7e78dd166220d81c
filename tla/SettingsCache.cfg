CONSTANTS
  p1 = p1
  t1 = t1
  t2 = t2
  None = None
  Keys = 2
  Processes = {p1}
  Threads = {t1, t2}
  ProcessOf <- MCProcessOf
  MaxSaves = 2
  MaxCalls = 2
SYMMETRY Alike
SPECIFICATION Spec
INVARIANTS TypeOK StaleByOneTick DatedCacheIsRecent
\* The numbers of saves and of calls are bounded.
CHECK_DEADLOCK FALSE
