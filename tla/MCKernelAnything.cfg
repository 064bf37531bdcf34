SPECIFICATION Spec
CONSTANTS
  MAX_PID = 2
  MAX_TERM = 2
  Discipline = {}
INVARIANTS OneDisplayed BoundedNesting
CHECK_DEADLOCK FALSE
