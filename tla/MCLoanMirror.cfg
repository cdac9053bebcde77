SPECIFICATION MirrorSpec
CONSTANTS
  MaxLoans = 2
  MaxTime = 8
  TENOR = 2
  GRACE = 1
  MATCH_TOLERANCE = 1
  MAX_BLOCK_RANGE = 2
  BOOTSTRAP = 2
  CLOSE_LOOKBACK = 2
  MaxInsertFailures = 1
  
PROPERTIES SettledRowsAreFinal EveryLoanIsRecorded 
CHECK_DEADLOCK FALSE
