SPECIFICATION Spec
CONSTANTS
  FILE_ARRAY_SIZE = 4
  BLOCK = 2
  EXEC_SIZE = 1
  INODES = 2
  MAX_LENGTH = 4
  Sizes = {2, 5}
  Freqs = {3, 1024}
INVARIANTS ReadsFromOffset
CHECK_DEADLOCK FALSE
