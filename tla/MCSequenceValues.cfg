SPECIFICATION FairSpec
CONSTANTS
  Nodes = {n1, n2}
  Half = 8
  Start = 2
  Limit = 5
  Caches = {1, 2}
  Increments = {2}
  MaxCalls = 5
  MaxAlters = 2
INVARIANTS UniqueValues WithinLimits
PROPERTIES NodeAscends CallersReturn
CHECK_DEADLOCK FALSE
