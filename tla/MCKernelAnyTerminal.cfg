SPECIFICATION Spec
CONSTANTS
  MAX_PID = 4
  MAX_TERM = 3
  Discipline <- AnyTerminal
INVARIANTS NobodyLost
CHECK_DEADLOCK FALSE
