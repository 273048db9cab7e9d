SPECIFICATION Spec
CONSTANTS
  Key = {k}
  Caller = {c1, c2}
  CacheTtl = 2
  FetchTimeout = 2
  MaxTime = 6
SYMMETRY Callers
INVARIANTS
  RevocationTakesEffect
  RejectionsAreTemporary
CHECK_DEADLOCK FALSE
