------------------------------ MODULE OpState ------------------------------
(***************************************************************************)
(* The state machine every execution operator carries (base.opState of     *)
(* execution/base.go), as functions from the state found under activeLock  *)
(* to the state left behind.  The modules that run operators compose these *)
(* functions with the goroutines that call them.                           *)
(***************************************************************************)

\* The two actions an operator can be sent (base.go, opAction).
Actions == {"STOP", "PAUSE"}

\* base.go, opState.
OpStates == {"CREATED", "DORMANT", "LATE", "RUNNING", "STOPPING", "HALTING",
             "PANICKED", "HALTED", "STOPPED", "COMPLETED", "PAUSED",
             "DONE", "ENDED", "KILLED"}

\* Started and not yet terminated.
Operating == {"RUNNING", "STOPPING", "HALTING"}

\* Disposed of: nothing may change such an operator any more.
Disposed == {"DONE", "ENDED", "KILLED"}

----------------------------------------------------------------------------
\* active(): only an operator nobody has touched yet starts.
ActiveNext(s) == IF s = "CREATED" THEN "RUNNING" ELSE s

\* inactive(): how a terminating operator records the way it went.
InactiveNext(s) ==
  CASE s = "RUNNING"               -> "COMPLETED"
    [] s \in {"STOPPING", "PAUSED"} -> "STOPPED"
    [] s = "HALTING"               -> "HALTED"
    [] OTHER                       -> s

\* The locked part of baseSendAction().
ActionNext(s, a) ==
  CASE s = "CREATED"                    -> IF a = "PAUSE" THEN "PAUSED" ELSE "LATE"
    [] s = "PAUSED" /\ a = "STOP"       -> "LATE"
    [] s = "RUNNING"                    -> IF a = "STOP" THEN "HALTING" ELSE "STOPPING"
    [] s = "STOPPING" /\ a = "STOP"     -> "HALTING"
    [] OTHER                            -> s

\* Only an operator found running is sent the stop through its value exchange.
ActionSendsStop(s) == s = "RUNNING"

\* The lock-free shortcut baseSendAction() takes for an operator that has
\* already seen a stop: TRUE when the action must still take the locked route.
ShortcutFallsThrough(s, a) == s = "PAUSED" /\ a = "STOP"

\* baseDone(): what has not started is killed, what is operating is waited for
\* (a single, unlooped, Wait), and what has terminated is disposed of.
DoneFirst(s) ==
  CASE s \in {"CREATED", "PAUSED"} -> "KILLED"
    [] s = "DORMANT"               -> "DONE"
    [] OTHER                       -> s

\* Mutant: operators being stopped are not waited for.
BugDoneMustWait(s) == s = "RUNNING"

DoneMustWait(s) == s \in Operating

DoneSecond(s) ==
  CASE s = "LATE"                      -> "KILLED"
    [] s \in {"COMPLETED", "STOPPED"}  -> "DONE"
    [] s = "HALTED"                    -> "ENDED"
    [] OTHER                           -> s

\* baseReopen(): wait for an operator that is, or may still be, running ...
ReopenMustWait(s) == s \in Operating \cup {"CREATED"}

\* Mutant: a halted operator is taken for a stopped one.
BugReopenFails(s) == s \in {"DONE", "ENDED", "LATE", "KILLED", "PANICKED"}

\* ... and refuse one that was stopped for good.
ReopenFails(s) == s \in {"HALTED", "DONE", "ENDED", "LATE", "KILLED", "PANICKED"}

\* waitComplete(): wait for anything that may still run, then take it over.
CompleteMustWait(s) == s \in Operating \cup {"CREATED", "PAUSED"}

CompleteNext(s) ==
  CASE s \in {"COMPLETED", "STOPPED"} -> "DONE"
    [] s = "HALTED"                   -> "ENDED"
    [] OTHER                          -> s

\* childrenWaitNoStop(): which children are waited for.
ChildMustWait(s) == s \in Operating

=============================================================================
