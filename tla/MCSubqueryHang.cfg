SPECIFICATION FairSpec
CONSTANTS
  Evaluators = {e1}
  Senders = {s1}
  Trees = {t1}
  MaxEvals = 1
PROPERTIES EvaluationReturns
CHECK_DEADLOCK FALSE
