SPECIFICATION Spec
CONSTANTS
  MAX_PID = 4
  MAX_TERM = 3
  Discipline <- TickInside
INVARIANTS NeverWild
CHECK_DEADLOCK FALSE
