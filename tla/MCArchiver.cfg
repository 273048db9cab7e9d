SPECIFICATION FairServiceSpec
CONSTANTS
  FlushRows = 2
  MaxBuffer = 2
  MaxRows = 4
  MaxFailures = 5
  BackfillDays = 2
  MaxFiles = 0
  Batches = 2
  LastDay = 3
  MaxFaults = 2
INVARIANTS
  NoRowVanishes
  ImportedOnce
PROPERTIES
  ImplementsArchive
  RowsSettle
  BacklogDrains
CHECK_DEADLOCK FALSE
