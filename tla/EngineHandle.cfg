CONSTANTS
  Dialects = {0, 1, 2}
  WithFiles = {0, 1}
  Rates = {0, 1, 2}
  Honoured = {0, 1}
  Fallback = 1
  Variants = {1, 2}
  Overrides = {50}
  MaxHandles = 3
SPECIFICATION Spec
INVARIANTS TypeOK MemoryIsTrue NoDeadDictionary LoadedMeansActive RequestDecides
\* The number of handles is bounded.
CHECK_DEADLOCK FALSE
