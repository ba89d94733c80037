SPECIFICATION Spec
CONSTANTS
  r1 = r1
  r2 = r2
  Row = {}
  allClasses <- MCClasses
  Window <- MCWindow
  maxRowsPerBatch = 1
  Interval = 2
  ActiveDeadline = 1
  BackoffLimit = 0
  RunRetention = 60
  MaxTime = 8
  MaxRowTime <- MCMaxRowTime
  MaxMoves = 0
  None = None
CHECK_DEADLOCK FALSE
INVARIANT SilenceIsReported
