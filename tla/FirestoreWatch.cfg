SPECIFICATION FairSpec
CONSTANTS
  Keys = {k1, k2}
  MaxVersions = 3
  MaxListens = 2
  MaxBreaks = 1
  MaxMessages = 2
INVARIANTS
  TypeOK
  CurrentIsExact
  AggregatorInStep
  DiskFollowsView
PROPERTIES
  ListenerCatchesUp
CHECK_DEADLOCK FALSE
