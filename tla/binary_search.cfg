SPECIFICATION SearchSpec
CONSTANTS
  Elements <- FiveElements
  MaxSize = 6
  SizeMax = 15
  NotFound = NoPosition
INVARIANTS
  SearchTypeOK
  AnswerCorrect
PROPERTY
  WindowHalves
CHECK_DEADLOCK FALSE
