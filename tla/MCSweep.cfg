SPECIFICATION Spec
CONSTANTS
  r1 = r1
  r2 = r2
  Row = {r1, r2}
  allClasses <- MCClasses
  Window <- MCWindow
  maxRowsPerBatch = 1
  Interval = 1
  ActiveDeadline = 1
  BackoffLimit = 0
  RunRetention = 1
  MaxTime = 3
  MaxRowTime <- MCMaxRowTime
  MaxMoves = 2
  None = None
CHECK_DEADLOCK FALSE
INVARIANTS TypeOK FinishedMeansSwept SuccessMeansSwept OldestIsOldest NoFalseSkips
PROPERTIES BatchesBounded RunEnds
