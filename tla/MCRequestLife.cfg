SPECIFICATION FairSpec
CONSTANTS
  MaxPauses = 1
  MaxStops = 2
  MaxItems = 2
INVARIANTS HonestReport PooledQuiet WriterExclusive
PROPERTIES RequestEnds
CHECK_DEADLOCK FALSE
