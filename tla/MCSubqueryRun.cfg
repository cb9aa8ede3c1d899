SPECIFICATION Spec
CONSTANTS
  Evaluators = {e1}
  Senders = {s1}
  Trees = {t1, t2}
  MaxEvals = 2
SYMMETRY TreeSymmetry
INVARIANTS PromptResults  NoOrphan
CHECK_DEADLOCK FALSE
