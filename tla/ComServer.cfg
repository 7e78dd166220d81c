CONSTANTS
  Threads = {t1, t2}
  Objects = {o1, o2, o3, o4}
  Pointers = {p1, p2, p3}
  MaxLocks = 1
  None = None
SYMMETRY Alike
CONSTRAINT OneAtATime
SPECIFICATION Spec
INVARIANTS TypeOK ReferencesCounted UnloadableMeansUnused ListedMeansUsable
