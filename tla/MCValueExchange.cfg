\* Two on each side, so that a wake-up can go to the wrong one; no symmetry, for the
\* sake of the liveness property.
SPECIFICATION FairSpec
CONSTANTS
  Producers = {p1, p2}
  Consumers = {c1, c2}
  Capacity = 2
  Threshold = 1
  Quota = 2
  MaxItems = 2
  MaxRewinds = 1
  NoItem = NoItem
INVARIANTS SleepersQueued FirstWoken SizeCovers
PROPERTIES IsChannel AllEnd
CHECK_DEADLOCK FALSE
