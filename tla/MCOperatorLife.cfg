\* Three runs, for what run 1 has left to do to meet run 2 while the owner is
\* about to start run 3.
SPECIFICATION FairSpec
CONSTANTS
  Senders = {s1}
  Owner = owner
  Panicker = panicker
  MaxRuns = 3
  MayPanic = TRUE
INVARIANTS OneRunAtATime NoStaleChildMessage PromptDoneIsFinal PromptReported
PROPERTIES PromptStop 
CHECK_DEADLOCK FALSE
