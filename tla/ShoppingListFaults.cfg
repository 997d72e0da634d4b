SPECIFICATION Spec
CONSTANTS
  riceCooked = riceCooked
  rice = rice
  Names <- MCNames
  Batches <- MCBatches
  MaxItems = 4
  WriteFaults = TRUE
  OpenFirst = FALSE
INVARIANTS
  TypeOK
  SavedCopyIsCurrent
  RowsFollowList
PROPERTIES
  OnlyNamesakesMislead
