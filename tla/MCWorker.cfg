SPECIFICATION WorkerFairSpec
CONSTANTS
  Capacity = 2
  MaxLines = 2
  MaxBytes = 9
  LineBytes <- MCLineBytes
  MaxPushed = 4
  MaxInvalid = 1
  MaxFailures = 2
INVARIANTS
  LinesAccountedFor
  NoOvertaking
  DrainLosesAtMostOneBatch
PROPERTIES
  ReplayTerminates
CHECK_DEADLOCK FALSE
