SPECIFICATION ClientSpec
CONSTANTS
  Queries = {recipes, plans}
  MaxGets = 2
  MaxFlaps = 2
  MaxEvents = 2
PROPERTIES UnknownEnds
CHECK_DEADLOCK FALSE
