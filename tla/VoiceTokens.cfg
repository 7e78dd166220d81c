CONSTANTS
  None = None
  Languages = 2
  Variants = 2
  Enums = {e1, e2}
  Files <- MCFiles
  Counts = {0, 1, 2, 7}
  Reservable = 4
SPECIFICATION Spec
INVARIANTS TypeOK EachVoiceOnce OfferedVoiceIsItself
