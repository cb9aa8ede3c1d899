SPECIFICATION FairSpec
CONSTANTS
  Evaluators = {e1}
  Senders = {s1}
  Trees = {t1}
  MaxEvals = 2
PROPERTIES NobodyHeldUp
CHECK_DEADLOCK FALSE
