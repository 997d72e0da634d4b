SPECIFICATION Spec
CONSTANTS
  riceCooked = riceCooked
  rice = rice
  Names <- MCNames
  Batches <- MCBatches
  MaxItems = 4
  WriteFaults = FALSE
  OpenFirst = TRUE
PROPERTIES KeepsTheList
