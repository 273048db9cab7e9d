SPECIFICATION Spec
CONSTANTS
  Instance = {i1, i2}
  Cell = {c1, c2}
  Name = {n1, n2}
  Ttl = 1
  MaxTime = 2
  MaxMessages = 3
  MaxRestarts = 1
SYMMETRY Symmetry
INVARIANTS
  OneCopyPerWindow
  RoutedToLastCell
  NamesSurviveRestarts
CHECK_DEADLOCK FALSE
