SPECIFICATION FairSpec
CONSTANTS
  Capacity = 3
  MaxLines = 3
  MaxBytes = 7
  LineBytes <- MCLineBytes
  MaxPushed = 8
INVARIANTS
  PermitsMatchLines
  HoldsNewest
  BatchWithinBounds
  NoLostWakeup
PROPERTIES
  ImplementsDropOldest
CHECK_DEADLOCK FALSE
