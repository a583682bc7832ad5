SPECIFICATION Spec
CONSTANTS
  Ways = 4
  Rows = 2
  Lines = {1, 2, 4, 6, 8, 10}
  Fsm <- Fsm4
  MaxRefs = 6
INVARIANTS OneCopy WritesAccounted
PROPERTY LruSpec
CHECK_DEADLOCK FALSE
