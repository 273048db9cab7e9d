SPECIFICATION Spec
CONSTANTS
  SubjectPrecision = 3
  CoverPrecision = 2
  MaxCells = 4
  Position <- MCPosition
  Boxes <- MCBoxes
  TypeFilters <- MCTypeFilters
  FreeArea = 20
  Buffer = 1
  MaxMessages = 2
  MaxViews = 2
INVARIANTS
  CoversAreSound
  DeltasExactlyOnce
  FramesMatchTheirView
CHECK_DEADLOCK FALSE
