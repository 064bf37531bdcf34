SPECIFICATION LibrarySpec
CONSTANTS
  SIZE = 14
  MAX_N = 9
  BITS = 12
  MAX_LEN = 4
INVARIANTS MemoryRight NumbersReadBack StringsRight
