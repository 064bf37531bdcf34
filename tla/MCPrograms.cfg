SPECIFICATION ProgramsSpec
CONSTANTS
  SPACE = 1
  NL = 2
  Letters = {3, 4}
  MAX_PID = 4
  MAX_TERM = 2
  MAX_SHELLS = 5
  FILE_NAME_SIZE = 2
  ARG_SIZE = 6
  Directory <- MCDirectory
  SHELL <- MCShell
  EXIT <- MCExit
  MAX_LINE = 4
  MAX_CHAIN = 2
  BUFSIZE = 4
  MAX_TEXT = 7
  Patterns <- MCPatterns
  Stale = {3, 0}
  Ink = {3}
  WIDTH = 6
  OFFSET = 3
  MAX_PICTURE = 4
  POOL = 3
  Locations = {1, 2, 3, 4}
  SCREEN = 4
  Phases <- MCPhases
  Rules = {"distinct"}
INVARIANTS ShellRight BlinkersRight TextsRight
PROPERTIES SaysWhenNothingRan TextsEnd
CHECK_DEADLOCK FALSE
