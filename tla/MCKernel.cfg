SPECIFICATION Spec
CONSTANTS
  MAX_PID = 5
  MAX_TERM = 3
  Discipline <- Vidmapping
INVARIANTS TypeOK NeverWild Isolation NobodyLost VidmapFollowsTerminal
PROPERTIES ImplementsSessions
CHECK_DEADLOCK TRUE
