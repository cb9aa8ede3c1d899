\* An array of one entry: the third request comes upon the second, which sleeps in
\* the entry it was given, and evicts it.
SPECIFICATION Spec
CONSTANTS
  Requests = {r1, r2, r3}
  Servicers = 1
  FullQueue = 1
  Lag = 1
  NoRequest = nil
SYMMETRY RequestSymmetry
INVARIANTS PlacesAccounted
