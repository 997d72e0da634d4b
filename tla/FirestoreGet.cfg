SPECIFICATION FairSpec
CONSTANTS
  Queries = {recipes, plans}
  MaxGets = 2
  MaxFlaps = 2
  MaxEvents = 2
INVARIANTS
  TypeOK
  AnsweredOnce
  LayersAgree
  NobodyWaitsOffline
  AssertionsHold
PROPERTIES
  GetsAreAnswered
CHECK_DEADLOCK FALSE
