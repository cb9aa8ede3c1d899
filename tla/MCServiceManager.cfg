SPECIFICATION FairSpec
CONSTANTS
  Nodes = {1, 2, 3}
  Master = 1
  MaxChanges = 2
  MaxStarted = 2
  MaxFaults = 1
INVARIANTS TaskHasWork OwnEjectList DownWasAsked
PROPERTIES  RebalanceEnds
CHECK_DEADLOCK FALSE
