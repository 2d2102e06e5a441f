SPECIFICATION LiveSpec
CONSTANTS
  Limit = 6
  Buf = {0, 1, 3}
INVARIANTS TypeOK Exact WriterFree PatienceIsRewarded
PROPERTIES CloseWaitsForWrite PatienceMakesAPipe CallEnds
