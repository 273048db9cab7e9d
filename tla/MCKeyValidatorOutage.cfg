SPECIFICATION Spec
CONSTANTS
  Key = {k}
  Caller = {c1}
  CacheTtl = 2
  FetchTimeout = 2
  MaxTime = 6
PROPERTIES
  OutageRejectsOnlyUnknown
CHECK_DEADLOCK FALSE
