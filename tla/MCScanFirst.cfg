SPECIFICATION MirrorSpec
CONSTANTS
  MaxLoans = 2
  MaxTime = 8
  TENOR = 2
  GRACE = 1
  MATCH_TOLERANCE = 1
  MAX_BLOCK_RANGE = 2
  BOOTSTRAP = 4
  CLOSE_LOOKBACK = 4
  MaxInsertFailures = 0
PROPERTY ScanFirstRemovesTheRace
CHECK_DEADLOCK FALSE
