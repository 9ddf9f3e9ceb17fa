CONSTANTS
  Limit = 4
  MaxIndex = 6
SPECIFICATION Spec
INVARIANTS
  TypeOK
  SearchCorrect
CHECK_DEADLOCK FALSE
