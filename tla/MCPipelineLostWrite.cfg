SPECIFICATION Spec
CONSTANTS
  Instance = {i1}
  Cell = {c1}
  Name = {n1}
  Ttl = 1
  MaxTime = 4
  MaxMessages = 4
  MaxRestarts = 0
PROPERTIES
  LostWriteHeals
CHECK_DEADLOCK FALSE
