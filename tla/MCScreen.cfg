SPECIFICATION Spec
CONSTANTS
  NUM_COLS = 3
  NUM_ROWS = 2
  TAB4 = 2
  BACK2 = 2
  MAX_TERM = 2
  Prints = {"char", "tab", "esc"}
  Types = {"char", "nl", "bs"}
  Discipline <- AllRules
INVARIANTS TypeOK CursorInside NothingAhead 
PROPERTIES ImplementsScreens
CHECK_DEADLOCK TRUE
