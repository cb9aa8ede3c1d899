SPECIFICATION FairSpec
CONSTANTS
  Tasks = {t1, t2}
  Deletes = {d1, d2, d3}
  None = None
INVARIANTS DeletedNeverRuns KeyUnique
PROPERTIES StatesAdvance IdFreed
CHECK_DEADLOCK FALSE
