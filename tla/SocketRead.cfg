SPECIFICATION LiveSpec
CONSTANTS
  Limit = 7
  Chunk = {1, 3}
  Buf = {0, 1, 2}
INVARIANTS TypeOK InOrder ThrowsOnlyAfterError
PROPERTIES ReadsAPipe ReaderLearns
CHECK_DEADLOCK FALSE
