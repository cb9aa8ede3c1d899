\* Three statements of a transaction with a queue of one: the third finds it full,
\* or laps the second when the one that hands over is slow.  The transaction may
\* end, so the model may stop.  No symmetry, for the sake of the liveness property.
SPECIFICATION FairSpec
CONSTANTS
  Requests = {r1, r2, r3}
  QueueSize = 1
  NoRequest = nil
INVARIANTS OneStatement ServicersKept QueueInUse
PROPERTIES Served
CHECK_DEADLOCK FALSE
