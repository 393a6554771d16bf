\* Every stream of up to five bytes.
SPECIFICATION Spec
CONSTANTS
  Letters = {a, b}
  CR = CR
  LF = LF
  MaxBytes = 5
  ReadSize = 3
INVARIANTS
  LineTypeOK
  HoldsUnfinishedLine
PROPERTIES
  StreamSpec
CHECK_DEADLOCK FALSE
