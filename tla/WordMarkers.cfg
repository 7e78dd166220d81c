CONSTANTS
  MaxLen = 4
  Texts <- AllTexts
SPECIFICATION Spec
INVARIANTS TypeOK TextOnce AnnotationsWhole MarkersFit
CHECK_DEADLOCK FALSE
