SPECIFICATION FairSpec
CONSTANTS
  MAX_TERM = 2
  KEYBUFSIZE = 2
  Keys <- LineKeys
  Sizes <- TwoSizes
  Discipline <- AllRules
INVARIANTS TypeOK AltIsHeld
PROPERTIES ImplementsLines EnterAnswered
CHECK_DEADLOCK TRUE
