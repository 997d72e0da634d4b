SPECIFICATION FairSpec
CONSTANTS
  Users = {ann, bob}
  Keys = {k1}
  MaxPendingWrites = 2
  MaxWrites = 3
  MaxFaults = 1
  MaxSignIns = 1
INVARIANTS
  TypeOK
  WireFollowsQueue
  UnderOwnName
  CompletionsAreRight
  ReadYourWrites
  AssertionsHold
PROPERTIES
  KeepsPromise
  WritesSettle
CHECK_DEADLOCK FALSE
