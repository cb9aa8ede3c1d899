\* One servicer and a queue of one, in an array of two entries: the third request is
\* refused, or waits while the second is still being released.  No symmetry, for the
\* sake of the liveness property.
SPECIFICATION FairSpec
CONSTANTS
  Requests = {r1, r2, r3}
  Servicers = 1
  FullQueue = 1
  Lag = 2
  NoRequest = nil
INVARIANTS CountersExact OrderlyReleasedOnce
PROPERTIES Served
