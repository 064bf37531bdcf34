SPECIFICATION FairSpec
CONSTANTS
  MAX_PID = 4
  MAX_TERM = 2
  Discipline <- AllRules
PROPERTIES RoundRobin CommandStarts ExitReturns MaskedBriefly
CHECK_DEADLOCK TRUE
