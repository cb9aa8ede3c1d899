------------------------ MODULE OperatorLifeProofs ------------------------
(***************************************************************************)
(* For every number of runs and every set of senders: OperatorLife keeps   *)
(* its types, executes the body of the operator in one goroutine at a      *)
(* time, and never lets a child message of one run leak into the next.     *)
(***************************************************************************)
EXTENDS OperatorLife, TLAPS

\* A goroutine that has not closed the operator's value exchange yet.
Early == {"forked", "running", "notify", "close", "abort", "aborting",
          "release", "rnotify"}

\* The owner has seen the end of the stream of the run it forked last.
BetweenRuns == {"next", "reopen", "reopenWait", "reopenWoken", "fork"}

\* The inductive strengthening of OneRunAtATime and NoStaleChildMessage.  Only
\* the goroutine forked last can be ahead of valueExchange.close(), and the
\* owner reads the end of the stream, which that call raises, before it goes on
\* to the next run; the notification goes out before the close, hence the child
\* message is in the exchange before the end of the stream can be seen.
RunInv ==
  /\ \A r \in Runs : r > run => runner[r] = "none"
  /\ \A r \in Runs : runner[r] \in Early =>
        r = run /\ ~exClosed /\ owner \notin BetweenRuns
  /\ owner = "fork" => run < MaxRuns /\ ~exClosed
  /\ owner \in {"reopen", "reopenWait", "reopenWoken"} => run < MaxRuns
  /\ owner \in BetweenRuns => children = 0
  /\ owner = "consume" =>
        children <= waitingFor /\ (parent => children + 1 <= waitingFor)

\* What baseReopen() leaves behind, whether it refuses or not.
LEMMA ReopenBodyTypes ==
  ASSUME TypeOK, ReopenBody
  PROVE  /\ opState' \in OpStates /\ once' \in 0 .. 1 /\ inactiveFlag' \in BOOLEAN
         /\ parent' \in BOOLEAN /\ stopped' \in BOOLEAN /\ exStop' \in BOOLEAN
         /\ exClosed' \in BOOLEAN /\ disposed' \in BOOLEAN
         /\ owner' \in {"fork", "sendThenFinish"}
         /\ sender' \in [Actors -> SenderPCs]
<1>1. CASE ReopenFails(opState)
  BY <1>1, Zenon DEF TypeOK, ReopenBody, opVars, exVars, SenderPCs
<1>2. CASE ~ReopenFails(opState)
  <2>1. /\ opState' = "CREATED" /\ once' = 0 /\ inactiveFlag' = FALSE
        /\ stopped' = FALSE /\ exStop' = FALSE /\ exClosed' = FALSE
        /\ owner' = "fork"
        /\ parent' = parent /\ disposed' = disposed /\ sender' = sender
    BY <1>2, Zenon DEF ReopenBody
  <2>2. once' \in 0 .. 1 /\ opState' \in OpStates
    BY <2>1 DEF OpStates
  <2> QED
    BY <2>1, <2>2, Zenon DEF TypeOK
<1> QED
  BY <1>1, <1>2, Zenon

\* What notify() leaves behind.
LEMMA TakeParentTypes ==
  ASSUME TypeOK, TakeParent
  PROVE  parent' \in BOOLEAN /\ children' \in Nat /\ told' \in Nat
<1>1. children' \in {children, children + 1} /\ told' \in {told, told + 1}
  BY Zenon DEF TakeParent
<1>2. children' \in Nat /\ told' \in Nat
  BY <1>1 DEF TypeOK
<1> QED
  BY <1>2, Zenon DEF TakeParent

\* What baseDone() leaves behind, for any state it finds after its wait.
LEMMA DoneBodyTypes ==
  ASSUME TypeOK, NEW s \in OpStates, DoneBody(s)
  PROVE  /\ opState' \in OpStates /\ owner' = "end" /\ disposed' \in BOOLEAN
         /\ parent' \in BOOLEAN /\ children' \in Nat /\ told' \in Nat
<1>1. opState' \in OpStates /\ owner' = "end"
  BY Zenon DEF DoneBody, DoneSecond, OpStates
<1>2. CASE s = "LATE"
  BY <1>1, <1>2, TakeParentTypes, Zenon DEF DoneBody, TypeOK
<1>3. CASE s # "LATE"
  BY <1>1, <1>3, Zenon DEF DoneBody, TypeOK
<1> QED
  BY <1>2, <1>3, Zenon

\* One type-correct step: the shape of every variable after each action.
LEMMA TypeStep == TypeOK /\ RunInv /\ [Next]_vars => TypeOK'
<1> SUFFICES ASSUME TypeOK, RunInv, [Next]_vars PROVE TypeOK'
  OBVIOUS
<1> USE MaxRunsAssumption, ActorsAssumption DEF TypeOK, Runs, Actors, opVars, exVars, ownerVars,
        sendVars, histVars
<1>1. ASSUME NEW r \in Runs, RunnerStep(r) PROVE TypeOK'
  <2> USE <1>1 DEF RunnerGo, RunnerPCs
  <2>1. CASE Start(r)
    <3>1. CASE once > 0
      BY <2>1, <3>1, Zenon DEF Start
    <3>2. CASE ~(once > 0) /\ opState = "CREATED"
      <4>1. once' = 1 /\ opState' \in {opState, "RUNNING"} /\ ran' \in {ran, ran \cup {r}}
        BY <2>1, <3>2, Zenon DEF Start, ActiveNext
      <4>2. runner' \in [Runs -> RunnerPCs]
        BY <2>1, <3>2, Zenon DEF Start
      <4> QED
        BY <2>1, <4>1, <4>2 DEF Start, OpStates
    <3>3. CASE ~(once > 0) /\ opState # "CREATED"
      <4>1. once' = 1 /\ opState' \in {opState, "RUNNING"} /\ ran' \in {ran, ran \cup {r}}
        BY <2>1, <3>3, Zenon DEF Start, ActiveNext
      <4>2. runner' \in [Runs -> RunnerPCs]
        BY <2>1, <3>3, Zenon DEF Start
      <4> QED
        BY <2>1, <4>1, <4>2 DEF Start, OpStates
    <3> QED
      BY <3>1, <3>2, <3>3, Zenon
  <2>2. CASE Finish(r)
    BY <2>2 DEF Finish
  <2>3. CASE NoticeStop(r)
    BY <2>3, Zenon DEF NoticeStop
  <2>4. CASE Notify(r)
    <3>1. parent' \in BOOLEAN /\ children' \in Nat /\ told' \in Nat
      BY <2>4, TakeParentTypes, Zenon DEF Notify
    <3>2. runner' \in [Runs -> RunnerPCs]
      BY <2>4, Zenon DEF Notify
    <3> QED
      BY <2>4, <3>1, <3>2, Zenon DEF Notify
  <2>5. CASE Close(r)
    BY <2>5, Zenon DEF Close
  <2>6. CASE Inactive(r)
    BY <2>6 DEF Inactive, InactiveNext, OpStates
  <2>7. CASE Broadcast(r)
    BY <2>7 DEF Broadcast, Woken, OwnerPCs, Sleeping, Reopened
  <2>8. CASE CloseTail(r)
    BY <2>8, Zenon DEF CloseTail, Reopened
  <2>9. CASE Panic(r)
    BY <2>9 DEF Panic
  <2>10. CASE Abort(r)
    BY <2>10, Zenon DEF Abort, SenderPCs
  <2>11. CASE AbortSent(r)
    BY <2>11 DEF AbortSent
  <2>12. CASE Release(r)
    BY <2>12 DEF Release, OpStates
  <2> QED
    BY <2>1, <2>2, <2>3, <2>4, <2>5, <2>6, <2>7, <2>8, <2>9, <2>10, <2>11, <2>12, Zenon DEF RunnerStep
<1>2. ASSUME NEW a \in Actors, SenderStep(a) PROVE TypeOK'
  <2> USE <1>2 DEF SenderGo, SenderPCs
  <2>1. CASE SendBegin(a)
    BY <2>1 DEF SendBegin
  <2>2. CASE Shortcut(a)
    BY <2>2 DEF Shortcut
  <2>3. CASE ShortcutState(a)
    BY <2>3, Zenon DEF ShortcutState
  <2>4. CASE SendLocked(a)
    BY <2>4 DEF SendLocked, ActionNext, OpStates
  <2>5. CASE SendStop(a)
    BY <2>5, Zenon DEF SendStop
  <2> QED
    BY <2>1, <2>2, <2>3, <2>4, <2>5, Zenon DEF SenderStep
<1>3. ASSUME OwnerStep PROVE TypeOK'
  <2> USE <1>3 DEF OwnerPCs
  <2>1. CASE Fork
    <3>1. run + 1 \in Runs /\ run' \in 0 .. MaxRuns
      BY <2>1 DEF Fork, RunInv
    <3>2. runner' \in [Runs -> RunnerPCs]
      BY <2>1, <3>1, Zenon DEF Fork, RunnerGo, RunnerPCs
    <3> QED
      BY <2>1, <3>1, <3>2, Zenon DEF Fork
  <2>2. CASE ConsumeChild
    BY <2>2 DEF ConsumeChild, RunInv
  <2>3. CASE ConsumeClosed
    BY <2>3, Zenon DEF ConsumeClosed
  <2>4. CASE ConsumeStopped
    BY <2>4, Zenon DEF ConsumeStopped, GiveUp, SenderPCs
  <2>5. CASE ConsumeFails
    BY <2>5 DEF ConsumeFails, GiveUp, SenderPCs
  <2>6. CASE OwnerSent
    BY <2>6 DEF OwnerSent
  <2>7. CASE ChildWait
    BY <2>7, Zenon DEF ChildWait
  <2>8. CASE NextItem
    BY <2>8 DEF NextItem
  <2>9. CASE Reopen
    <3>1. CASE ReopenMustWait(opState)
      BY <2>9, <3>1 DEF Reopen
    <3>2. CASE ~ReopenMustWait(opState)
      BY <2>9, <3>2, ReopenBodyTypes, Zenon DEF Reopen, RunInv
    <3> QED
      BY <3>1, <3>2, Zenon
  <2>10. CASE ReopenWoken
    BY <2>10, ReopenBodyTypes, Zenon DEF ReopenWoken
  <2>11. CASE BeginDone
    BY <2>11 DEF BeginDone
  <2>12. CASE Done
    <3>1. CASE DoneMustWait(opState)
      BY <2>12, <3>1 DEF Done
    <3>2. CASE ~DoneMustWait(opState)
      <4>1. DoneFirst(opState) \in OpStates
        BY Zenon DEF DoneFirst, OpStates
      <4> QED
        BY <2>12, <3>2, <4>1, DoneBodyTypes, Zenon DEF Done
    <3> QED
      BY <3>1, <3>2, Zenon
  <2>13. CASE DoneWoken
    BY <2>13, DoneBodyTypes, Zenon DEF DoneWoken
  <2> QED
    BY <2>1, <2>2, <2>3, <2>4, <2>5, <2>6, <2>7, <2>8, <2>9, <2>10, <2>11, <2>12, <2>13, Zenon DEF OwnerStep
<1>4. CASE UNCHANGED vars
  BY <1>4, Zenon DEF vars
<1> QED
  BY <1>1, <1>2, <1>3, <1>4, Zenon DEF Next

\* RunInv holds after every action.
LEMMA RunInvStep == TypeOK /\ RunInv /\ [Next]_vars => RunInv'
<1> SUFFICES ASSUME TypeOK, RunInv, [Next]_vars PROVE RunInv'
  OBVIOUS
<1> USE MaxRunsAssumption DEF TypeOK, RunInv, Runs, Early, BetweenRuns, exVars, ownerVars, opVars
<1>1. ASSUME NEW r \in Runs, RunnerStep(r) PROVE RunInv'
  <2> USE <1>1 DEF RunnerGo
  <2>1. CASE Start(r)
    BY <2>1, Zenon DEF Start
  <2>2. CASE Finish(r)
    BY <2>2, Zenon DEF Finish
  <2>3. CASE NoticeStop(r)
    BY <2>3, Zenon DEF NoticeStop, opVars
  <2>4. CASE Notify(r)
    BY <2>4, Zenon DEF Notify, TakeParent
  <2>5. CASE Close(r)
    BY <2>5, Zenon DEF Close, opVars
  <2>6. CASE Inactive(r)
    BY <2>6, Zenon DEF Inactive
  <2>7. CASE Broadcast(r)
    BY <2>7, Zenon DEF Broadcast, Woken, opVars
  <2>8. CASE CloseTail(r)
    BY <2>8, Zenon DEF CloseTail
  <2>9. CASE Panic(r)
    BY <2>9, Zenon DEF Panic
  <2>10. CASE Abort(r)
    BY <2>10, Zenon DEF Abort
  <2>11. CASE AbortSent(r)
    BY <2>11, Zenon DEF AbortSent
  <2>12. CASE Release(r)
    BY <2>12, Zenon DEF Release
  <2> QED
    BY <2>1, <2>2, <2>3, <2>4, <2>5, <2>6, <2>7, <2>8, <2>9, <2>10, <2>11, <2>12, Zenon DEF RunnerStep
<1>2. ASSUME NEW a \in Actors, SenderStep(a) PROVE RunInv'
  <2> USE <1>2
  <2>1. CASE SendBegin(a)
    BY <2>1, Zenon DEF SendBegin
  <2>2. CASE Shortcut(a)
    BY <2>2, Zenon DEF Shortcut
  <2>3. CASE ShortcutState(a)
    BY <2>3, Zenon DEF ShortcutState
  <2>4. CASE SendLocked(a)
    BY <2>4, Zenon DEF SendLocked
  <2>5. CASE SendStop(a)
    BY <2>5, Zenon DEF SendStop
  <2> QED
    BY <2>1, <2>2, <2>3, <2>4, <2>5, Zenon DEF SenderStep
<1>3. ASSUME OwnerStep PROVE RunInv'
  <2> USE <1>3
  <2>1. CASE Fork
    <3>1. run + 1 \in Runs /\ run' = run + 1 /\ owner' = "consume"
      BY <2>1 DEF Fork
    <3>2. runner' = [runner EXCEPT ![run + 1] = "forked"]
      BY <2>1, Zenon DEF Fork, RunnerGo
    <3>3. ~exClosed' /\ children' = 0 /\ waitingFor' = 1
      BY <2>1, Zenon DEF Fork
    <3>4. \A q \in Runs : runner[q] \notin Early
      BY <2>1, Zenon DEF Fork
    <3>5. \A q \in Runs : q # run + 1 => runner'[q] = runner[q]
      BY <3>1, <3>2, Zenon
    <3> QED
      BY <3>1, <3>3, <3>4, <3>5
  <2>2. CASE ConsumeChild
    BY <2>2 DEF ConsumeChild
  <2>3. CASE ConsumeClosed
    BY <2>3, Zenon DEF ConsumeClosed
  <2>4. CASE ConsumeStopped
    BY <2>4, Zenon DEF ConsumeStopped, GiveUp
  <2>5. CASE ConsumeFails
    BY <2>5, Zenon DEF ConsumeFails, GiveUp
  <2>6. CASE OwnerSent
    BY <2>6, Zenon DEF OwnerSent
  <2>7. CASE ChildWait
    BY <2>7, Zenon DEF ChildWait
  <2>8. CASE NextItem
    BY <2>8 DEF NextItem
  <2>9. CASE Reopen
    BY <2>9, Zenon DEF Reopen, ReopenBody
  <2>10. CASE ReopenWoken
    BY <2>10, Zenon DEF ReopenWoken, ReopenBody
  <2>11. CASE BeginDone
    BY <2>11, Zenon DEF BeginDone
  <2>12. CASE Done
    BY <2>12, Zenon DEF Done, DoneBody, TakeParent
  <2>13. CASE DoneWoken
    BY <2>13, Zenon DEF DoneWoken, DoneBody, TakeParent
  <2> QED
    BY <2>1, <2>2, <2>3, <2>4, <2>5, <2>6, <2>7, <2>8, <2>9, <2>10, <2>11, <2>12, <2>13, Zenon DEF OwnerStep
<1>4. CASE UNCHANGED vars
  BY <1>4, Zenon DEF vars
<1> QED
  BY <1>1, <1>2, <1>3, <1>4, Zenon DEF Next

LEMMA RunInvInit == Init => TypeOK /\ RunInv
<1> SUFFICES ASSUME Init PROVE TypeOK /\ RunInv
  OBVIOUS
<1>1. TypeOK
  <2>1. /\ runner \in [Runs -> RunnerPCs]
        /\ sender \in [Actors -> SenderPCs] /\ action \in [Actors -> Actions]
    BY Zenon DEF Init, RunnerPCs, SenderPCs, Actions
  <2>2. once \in 0 .. 1 /\ run \in 0 .. MaxRuns /\ children \in Nat /\ told \in Nat
        /\ waitingFor \in Nat
    BY MaxRunsAssumption DEF Init
  <2> QED
    BY <2>1, <2>2, Zenon DEF Init, TypeOK, OpStates, OwnerPCs
<1>2. RunInv
  BY MaxRunsAssumption DEF Init, RunInv, Runs, Early, BetweenRuns
<1> QED
  BY <1>1, <1>2, Zenon

LEMMA Invariance == Spec => [](TypeOK /\ RunInv)
<1>1. TypeOK /\ RunInv /\ [Next]_vars => (TypeOK /\ RunInv)'
  BY TypeStep, RunInvStep, Zenon
<1> QED
  BY <1>1, RunInvInit, PTL DEF Spec

\* Every behaviour of the operator, its owner and its senders is type-correct;
\* in particular processItem()'s count of expected children never goes negative.
THEOREM TypeCorrect == Spec => []TypeOK
BY Invariance, PTL

\* The body of the operator is executed by one goroutine at a time.
THEOREM RunsAlone == Spec => []OneRunAtATime
<1>1. TypeOK /\ RunInv => OneRunAtATime
  BY Zenon DEF RunInv, OneRunAtATime, Early
<1> QED
  BY <1>1, Invariance, PTL

\* No child message of an earlier run is left when the owner forks the next.
THEOREM RunsStartClean == Spec => []NoStaleChildMessage
<1>1. TypeOK /\ RunInv => NoStaleChildMessage
  BY Zenon DEF RunInv, NoStaleChildMessage, BetweenRuns
<1> QED
  BY <1>1, Invariance, PTL

----------------------------------------------------------------------------
(* Stops, Done() and the notifications.  All three rest on what the state  *)
(* of the operator says about the goroutine forked last and the owner, as  *)
(* long as no late wake-up of an earlier run got in between.               *)

\* The owner is done with the operator but for stopping it and tearing it down.
GaveUp == {"sendThenWait", "sendThenFinish", "childWait", "childWaiting",
           "finish", "done", "doneWait", "doneWoken", "end"}

\* The owner is inside baseReopen().
Reopening == {"reopen", "reopenWait", "reopenWoken"}

\* A goroutine that has left inactive(), and what inactive() makes of a run.
Left  == {"broadcast", "tail", "gone"}
Ended == {"COMPLETED", "STOPPED", "HALTED"}

\* An action stops the owner's value exchange before it gets to the operator,
\* and a stopped owner reopens nothing: an operator that is being reopened has
\* not noticed a stop, and no action has taken the lock-free shortcut.
StopInv ==
  /\ \A a \in Actors : sender[a] # "idle" => ownerStop \/ owner \in GaveUp
  /\ exStop \/ stopped => ownerStop \/ owner \in GaveUp
  /\ stopped => owner \notin Reopening \cup {"fork"}
  /\ \A a \in Actors :
        sender[a] = "shortcutState" => owner \notin Reopening \cup {"fork"}

\* What opState and inactiveFlag say about the goroutine forked last; those
\* forked before it have all left inactive().
PhaseInv ==
  /\ \A r \in Runs : r < run => runner[r] \in Left
  /\ run \in Runs => runner[run] # "none"
  /\ \A r \in Runs : runner[r] = "forked" =>
        once = 0 /\ ~inactiveFlag /\ opState \in {"CREATED", "PAUSED", "LATE", "KILLED"}
  /\ \A r \in Runs : runner[r] \in {"running", "abort", "aborting", "release"} =>
        ~inactiveFlag /\ opState \in Operating
  /\ \A r \in Runs : runner[r] \in {"notify", "close", "inactive"} =>
        r = run /\ ~inactiveFlag /\ opState \in Operating \cup {"PAUSED", "LATE", "KILLED"}
  /\ \A r \in Runs : runner[r] = "rnotify" => opState = "PANICKED"
  /\ run \in Runs /\ owner # "fork" /\ runner[run] \in Left /\ opState # "PANICKED" =>
        inactiveFlag /\ opState \in Ended \cup {"LATE", "KILLED", "DONE", "ENDED"}
  /\ opState = "PANICKED" => ~exClosed /\ runner[run] \in {"rnotify", "gone"}

\* What the owner's place in processItem(), baseReopen() or baseDone() says
\* about the operator.
OwnerInv ==
  /\ owner # "fork" => run \in Runs
  /\ owner = "fork" =>
        /\ once = 0 /\ ~inactiveFlag /\ opState \in {"CREATED", "PAUSED", "LATE"}
        /\ run \in Runs => runner[run] \in Left
  /\ opState \in {"PAUSED", "LATE"} => ownerStop \/ owner \in GaveUp
  /\ owner \in Reopening => opState \in Operating \cup Ended
  /\ owner \in Reopening \cup {"next"} => exClosed
  /\ owner \in {"reopenWoken", "doneWoken"} => opState \in Ended
  /\ owner = "doneWait" => opState \in Operating \cup Ended \cup {"PANICKED"}
  /\ opState \in Disposed => owner = "end"
  /\ owner = "end" => opState \in Disposed \cup {"PANICKED"}
  /\ disposed => owner = "end" /\ runner[run] \in Left

\* After a STOP that found the operator operating, the owner cannot get to the
\* fork: it is stopped itself, or the state it reopens is HALTED, or soon will be.
HaltInv ==
  stopHit => \/ owner \in GaveUp
             \/ owner \in {"consume", "next"} /\ ownerStop
             \/ owner \in Reopening /\ opState \in {"HALTING", "HALTED"}

\* One child message per run, or a parent that the last run is yet to notify.
ReportInv ==
  /\ told = IF parent THEN run - 1 ELSE run
  /\ parent => run \in Runs /\ runner[run] \in Early \ {"close"}

LifeInv == PhaseInv /\ OwnerInv /\ HaltInv /\ ReportInv

\* StopInv holds after every action.
LEMMA StopInvStep == TypeOK /\ RunInv /\ StopInv /\ [Next]_vars => StopInv'
<1> SUFFICES ASSUME TypeOK, RunInv, StopInv, [Next]_vars PROVE StopInv'
  OBVIOUS
<1> USE MaxRunsAssumption DEF TypeOK, Runs, exVars, ownerVars, opVars, sendVars, histVars, RunInv, StopInv, Actors, BetweenRuns, Early, GaveUp, Reopening
<1>1. ASSUME NEW r \in Runs, RunnerStep(r) PROVE StopInv'
  <2> USE <1>1 DEF RunnerGo
  <2>1. CASE Start(r)
    BY <2>1, Zenon DEF Start, ActiveNext
  <2>2. CASE Finish(r)
    BY <2>2, Zenon DEF Finish
  <2>3. CASE NoticeStop(r)
    BY <2>3, Zenon DEF NoticeStop
  <2>4. CASE Notify(r)
    BY <2>4, Zenon DEF Notify, TakeParent
  <2>5. CASE Close(r)
    BY <2>5, Zenon DEF Close
  <2>6. CASE Inactive(r)
    BY <2>6, Zenon DEF Inactive, InactiveNext
  <2>7. CASE Broadcast(r)
    BY <2>7, Zenon DEF Broadcast, Woken, Reopened, Sleeping
  <2>8. CASE CloseTail(r)
    BY <2>8, Zenon DEF CloseTail, Reopened
  <2>9. CASE Panic(r)
    BY <2>9, Zenon DEF Panic
  <2>10. CASE Abort(r)
    BY <2>10, Zenon DEF Abort, TearingDown
  <2>11. CASE AbortSent(r)
    BY <2>11, Zenon DEF AbortSent
  <2>12. CASE Release(r)
    BY <2>12, Zenon DEF Release
  <2> QED
    BY <2>1, <2>2, <2>3, <2>4, <2>5, <2>6, <2>7, <2>8, <2>9, <2>10, <2>11, <2>12, Zenon DEF RunnerStep
<1>2. ASSUME NEW a \in Actors, SenderStep(a) PROVE StopInv'
  <2> USE <1>2 DEF SenderGo
  <2>1. CASE SendBegin(a)
    BY <2>1, Zenon DEF SendBegin, TearingDown
  <2>2. CASE Shortcut(a)
    BY <2>2, Zenon DEF Shortcut
  <2>3. CASE ShortcutState(a)
    BY <2>3, Zenon DEF ShortcutState
  <2>4. CASE SendLocked(a)
    BY <2>4, Zenon DEF SendLocked, ActionNext, ActionSendsStop
  <2>5. CASE SendStop(a)
    BY <2>5, Zenon DEF SendStop
  <2> QED
    BY <2>1, <2>2, <2>3, <2>4, <2>5, Zenon DEF SenderStep
<1>3. ASSUME OwnerStep PROVE StopInv'
  <2> USE <1>3
  <2>1. CASE Fork
    BY <2>1, Zenon DEF Fork, RunnerGo
  <2>2. CASE ConsumeChild
    BY <2>2, Zenon DEF ConsumeChild
  <2>3. CASE ConsumeClosed
    BY <2>3, Zenon DEF ConsumeClosed
  <2>4. CASE ConsumeStopped
    BY <2>4, Zenon DEF ConsumeStopped, GiveUp
  <2>5. CASE ConsumeFails
    BY <2>5, Zenon DEF ConsumeFails, GiveUp
  <2>6. CASE OwnerSent
    BY <2>6, Zenon DEF OwnerSent
  <2>7. CASE ChildWait
    BY <2>7, Zenon DEF ChildWait
  <2>8. CASE NextItem
    BY <2>8, Zenon DEF NextItem
  <2>9. CASE Reopen
    BY <2>9, Zenon DEF Reopen, ReopenBody, ReopenMustWait, ReopenFails
  <2>10. CASE ReopenWoken
    BY <2>10, Zenon DEF ReopenWoken, ReopenBody, ReopenFails
  <2>11. CASE BeginDone
    BY <2>11, Zenon DEF BeginDone
  <2>12. CASE Done
    BY <2>12, Zenon DEF Done, DoneBody, DoneMustWait, DoneFirst, DoneSecond, TakeParent
  <2>13. CASE DoneWoken
    BY <2>13, Zenon DEF DoneWoken, DoneBody, DoneSecond, TakeParent
  <2> QED
    BY <2>1, <2>2, <2>3, <2>4, <2>5, <2>6, <2>7, <2>8, <2>9, <2>10, <2>11, <2>12, <2>13, Zenon DEF OwnerStep
<1>4. CASE UNCHANGED vars
  BY <1>4, Zenon DEF vars
<1> QED
  BY <1>1, <1>2, <1>3, <1>4, Zenon DEF Next

\* PhaseInv holds after every action that lets no earlier run interfere.
LEMMA PhaseInvStep == TypeOK /\ RunInv /\ StopInv /\ LifeInv /\ ~overtaken' /\ [Next]_vars => PhaseInv'
<1> SUFFICES ASSUME TypeOK, RunInv, StopInv, LifeInv, ~overtaken', [Next]_vars PROVE PhaseInv'
  OBVIOUS
<1> USE MaxRunsAssumption DEF TypeOK, Runs, exVars, ownerVars, opVars, sendVars, histVars, RunInv, LifeInv, PhaseInv, OwnerInv, Early, BetweenRuns, GaveUp, Reopening, Left, Ended, Operating, Disposed
<1>1. ASSUME NEW r \in Runs, RunnerStep(r) PROVE PhaseInv'
  <2> USE <1>1 DEF RunnerGo
  <2>1. CASE Start(r)
    BY <2>1 DEF Start, ActiveNext
  <2>2. CASE Finish(r)
    BY <2>2, Zenon DEF Finish
  <2>3. CASE NoticeStop(r)
    BY <2>3, Zenon DEF NoticeStop
  <2>4. CASE Notify(r)
    BY <2>4 DEF Notify, TakeParent
  <2>5. CASE Close(r)
    BY <2>5 DEF Close
  <2>6. CASE Inactive(r)
    BY <2>6 DEF Inactive, InactiveNext
  <2>7. CASE Broadcast(r)
    BY <2>7 DEF Broadcast, Woken, Reopened, Sleeping
  <2>8. CASE CloseTail(r)
    BY <2>8 DEF CloseTail, Reopened
  <2>9. CASE Panic(r)
    BY <2>9, Zenon DEF Panic
  <2>10. CASE Abort(r)
    BY <2>10 DEF Abort, TearingDown
  <2>11. CASE AbortSent(r)
    BY <2>11, Zenon DEF AbortSent
  <2>12. CASE Release(r)
    BY <2>12, Zenon DEF Release
  <2> QED
    BY <2>1, <2>2, <2>3, <2>4, <2>5, <2>6, <2>7, <2>8, <2>9, <2>10, <2>11, <2>12, Zenon DEF RunnerStep
<1>2. ASSUME NEW a \in Actors, SenderStep(a) PROVE PhaseInv'
  <2> USE <1>2 DEF SenderGo
  <2>1. CASE SendBegin(a)
    BY <2>1, Zenon DEF SendBegin, TearingDown
  <2>2. CASE Shortcut(a)
    BY <2>2, Zenon DEF Shortcut
  <2>3. CASE ShortcutState(a)
    BY <2>3, Zenon DEF ShortcutState
  <2>4. CASE SendLocked(a)
    BY <2>4, Zenon DEF SendLocked, ActionNext, ActionSendsStop
  <2>5. CASE SendStop(a)
    BY <2>5, Zenon DEF SendStop
  <2> QED
    BY <2>1, <2>2, <2>3, <2>4, <2>5, Zenon DEF SenderStep
<1>3. ASSUME OwnerStep PROVE PhaseInv'
  <2> USE <1>3
  <2>1. CASE Fork
    BY <2>1 DEF Fork, RunnerGo
  <2>2. CASE ConsumeChild
    BY <2>2, Zenon DEF ConsumeChild
  <2>3. CASE ConsumeClosed
    BY <2>3, Zenon DEF ConsumeClosed
  <2>4. CASE ConsumeStopped
    BY <2>4, Zenon DEF ConsumeStopped, GiveUp
  <2>5. CASE ConsumeFails
    BY <2>5, Zenon DEF ConsumeFails, GiveUp
  <2>6. CASE OwnerSent
    BY <2>6, Zenon DEF OwnerSent
  <2>7. CASE ChildWait
    BY <2>7, Zenon DEF ChildWait
  <2>8. CASE NextItem
    BY <2>8, Zenon DEF NextItem
  <2>9. CASE Reopen
    BY <2>9, Zenon DEF Reopen, ReopenBody, ReopenMustWait, ReopenFails
  <2>10. CASE ReopenWoken
    BY <2>10, Zenon DEF ReopenWoken, ReopenBody, ReopenFails
  <2>11. CASE BeginDone
    BY <2>11, Zenon DEF BeginDone
  <2>12. CASE Done
    BY <2>12 DEF Done, DoneBody, DoneMustWait, DoneFirst, DoneSecond, TakeParent
  <2>13. CASE DoneWoken
    BY <2>13, Zenon DEF DoneWoken, DoneBody, DoneSecond, TakeParent
  <2> QED
    BY <2>1, <2>2, <2>3, <2>4, <2>5, <2>6, <2>7, <2>8, <2>9, <2>10, <2>11, <2>12, <2>13, Zenon DEF OwnerStep
<1>4. CASE UNCHANGED vars
  BY <1>4, Zenon DEF vars
<1> QED
  BY <1>1, <1>2, <1>3, <1>4, Zenon DEF Next

\* OwnerInv holds after every action that lets no earlier run interfere.
LEMMA OwnerInvStep == TypeOK /\ RunInv /\ StopInv /\ LifeInv /\ ~overtaken' /\ [Next]_vars => OwnerInv'
<1> SUFFICES ASSUME TypeOK, RunInv, StopInv, LifeInv, ~overtaken', [Next]_vars PROVE OwnerInv'
  OBVIOUS
<1> USE MaxRunsAssumption DEF TypeOK, Runs, exVars, ownerVars, opVars, sendVars, histVars, RunInv, StopInv, LifeInv, PhaseInv, OwnerInv, Early, BetweenRuns, GaveUp, Reopening, Left, Ended, Operating, Disposed
<1>1. ASSUME NEW r \in Runs, RunnerStep(r) PROVE OwnerInv'
  <2> USE <1>1 DEF RunnerGo
  <2>1. CASE Start(r)
    BY <2>1, Zenon DEF Start, ActiveNext
  <2>2. CASE Finish(r)
    BY <2>2, Zenon DEF Finish
  <2>3. CASE NoticeStop(r)
    BY <2>3, Zenon DEF NoticeStop
  <2>4. CASE Notify(r)
    BY <2>4, Zenon DEF Notify, TakeParent
  <2>5. CASE Close(r)
    BY <2>5, Zenon DEF Close
  <2>6. CASE Inactive(r)
    BY <2>6, Zenon DEF Inactive, InactiveNext
  <2>7. CASE Broadcast(r)
    <3>1. /\ UNCHANGED <<opState, once, inactiveFlag, exClosed, disposed, run, ownerStop>>
          /\ owner' = Woken(owner) /\ runner' = [runner EXCEPT ![r] = "tail"]
      BY <2>7, Zenon DEF Broadcast
    <3>2. owner \in {"reopenWait", "doneWait"} => r = run /\ inactiveFlag
      BY <2>7, Zenon DEF Broadcast, Reopened, Sleeping
    <3>3. r = run => opState # "PANICKED"
      BY <2>7, Zenon DEF Broadcast
    <3>4. owner \in {"reopenWait", "doneWait"} => opState \in Ended
      BY <2>7, <3>2, <3>3, Zenon DEF Broadcast
    <3>5. run \in Runs /\ runner[run] \in Left => runner'[run] \in Left
      BY <3>1, Zenon
    <3> QED
      BY <3>1, <3>4, <3>5 DEF Woken
  <2>8. CASE CloseTail(r)
    BY <2>8, Zenon DEF CloseTail, Reopened
  <2>9. CASE Panic(r)
    BY <2>9, Zenon DEF Panic
  <2>10. CASE Abort(r)
    BY <2>10, Zenon DEF Abort, TearingDown
  <2>11. CASE AbortSent(r)
    BY <2>11, Zenon DEF AbortSent
  <2>12. CASE Release(r)
    BY <2>12, Zenon DEF Release
  <2> QED
    BY <2>1, <2>2, <2>3, <2>4, <2>5, <2>6, <2>7, <2>8, <2>9, <2>10, <2>11, <2>12, Zenon DEF RunnerStep
<1>2. ASSUME NEW a \in Actors, SenderStep(a) PROVE OwnerInv'
  <2> USE <1>2 DEF SenderGo
  <2>1. CASE SendBegin(a)
    BY <2>1, Zenon DEF SendBegin, TearingDown
  <2>2. CASE Shortcut(a)
    BY <2>2 DEF Shortcut
  <2>3. CASE ShortcutState(a)
    BY <2>3 DEF ShortcutState
  <2>4. CASE SendLocked(a)
    BY <2>4 DEF SendLocked, ActionNext, ActionSendsStop
  <2>5. CASE SendStop(a)
    BY <2>5 DEF SendStop
  <2> QED
    BY <2>1, <2>2, <2>3, <2>4, <2>5, Zenon DEF SenderStep
<1>3. ASSUME OwnerStep PROVE OwnerInv'
  <2> USE <1>3
  <2>1. CASE Fork
    BY <2>1 DEF Fork, RunnerGo
  <2>2. CASE ConsumeChild
    BY <2>2, Zenon DEF ConsumeChild
  <2>3. CASE ConsumeClosed
    BY <2>3, Zenon DEF ConsumeClosed
  <2>4. CASE ConsumeStopped
    BY <2>4, Zenon DEF ConsumeStopped, GiveUp
  <2>5. CASE ConsumeFails
    BY <2>5, Zenon DEF ConsumeFails, GiveUp
  <2>6. CASE OwnerSent
    BY <2>6, Zenon DEF OwnerSent
  <2>7. CASE ChildWait
    BY <2>7, Zenon DEF ChildWait
  <2>8. CASE NextItem
    BY <2>8, Zenon DEF NextItem, RunnerPCs, OpStates, OwnerPCs
  <2>9. CASE Reopen
    BY <2>9, Zenon DEF Reopen, ReopenBody, ReopenMustWait, ReopenFails, RunnerPCs, OpStates
  <2>10. CASE ReopenWoken
    BY <2>10, Zenon DEF ReopenWoken, ReopenBody, ReopenFails, RunnerPCs, OpStates
  <2>11. CASE BeginDone
    BY <2>11, Zenon DEF BeginDone
  <2>12. CASE Done
    BY <2>12 DEF Done, DoneBody, DoneMustWait, DoneFirst, DoneSecond, TakeParent, RunnerPCs, OpStates
  <2>13. CASE DoneWoken
    BY <2>13, Zenon DEF DoneWoken, DoneBody, DoneSecond, TakeParent, RunnerPCs, OpStates
  <2> QED
    BY <2>1, <2>2, <2>3, <2>4, <2>5, <2>6, <2>7, <2>8, <2>9, <2>10, <2>11, <2>12, <2>13, Zenon DEF OwnerStep
<1>4. CASE UNCHANGED vars
  BY <1>4 DEF vars
<1> QED
  BY <1>1, <1>2, <1>3, <1>4, Zenon DEF Next

\* HaltInv holds after every action that lets no earlier run interfere.
LEMMA HaltInvStep == TypeOK /\ RunInv /\ StopInv /\ LifeInv /\ ~overtaken' /\ [Next]_vars => HaltInv'
<1> SUFFICES ASSUME TypeOK, RunInv, StopInv, LifeInv, ~overtaken', [Next]_vars PROVE HaltInv'
  OBVIOUS
<1> USE MaxRunsAssumption DEF TypeOK, Runs, exVars, ownerVars, opVars, sendVars, histVars, StopInv, LifeInv, PhaseInv, OwnerInv, HaltInv, Early, BetweenRuns, GaveUp, Reopening, Left, Ended, Operating, Disposed
<1>1. ASSUME NEW r \in Runs, RunnerStep(r) PROVE HaltInv'
  <2> USE <1>1 DEF RunnerGo
  <2>1. CASE Start(r)
    BY <2>1, Zenon DEF Start, ActiveNext
  <2>2. CASE Finish(r)
    BY <2>2, Zenon DEF Finish
  <2>3. CASE NoticeStop(r)
    BY <2>3, Zenon DEF NoticeStop
  <2>4. CASE Notify(r)
    BY <2>4, Zenon DEF Notify, TakeParent
  <2>5. CASE Close(r)
    BY <2>5, Zenon DEF Close
  <2>6. CASE Inactive(r)
    BY <2>6, Zenon DEF Inactive, InactiveNext
  <2>7. CASE Broadcast(r)
    BY <2>7, Zenon DEF Broadcast, Woken, Reopened, Sleeping
  <2>8. CASE CloseTail(r)
    BY <2>8, Zenon DEF CloseTail, Reopened
  <2>9. CASE Panic(r)
    BY <2>9, Zenon DEF Panic
  <2>10. CASE Abort(r)
    BY <2>10, Zenon DEF Abort, TearingDown
  <2>11. CASE AbortSent(r)
    BY <2>11, Zenon DEF AbortSent
  <2>12. CASE Release(r)
    BY <2>12, Zenon DEF Release, RunInv
  <2> QED
    BY <2>1, <2>2, <2>3, <2>4, <2>5, <2>6, <2>7, <2>8, <2>9, <2>10, <2>11, <2>12, Zenon DEF RunnerStep
<1>2. ASSUME NEW a \in Actors, SenderStep(a) PROVE HaltInv'
  <2> USE <1>2 DEF SenderGo
  <2>1. CASE SendBegin(a)
    BY <2>1, Zenon DEF SendBegin, TearingDown
  <2>2. CASE Shortcut(a)
    BY <2>2, Zenon DEF Shortcut
  <2>3. CASE ShortcutState(a)
    BY <2>3, Zenon DEF ShortcutState, OwnerPCs
  <2>4. CASE SendLocked(a)
    BY <2>4, Zenon DEF SendLocked, ActionNext, ActionSendsStop, OwnerPCs, Actions
  <2>5. CASE SendStop(a)
    BY <2>5, Zenon DEF SendStop
  <2> QED
    BY <2>1, <2>2, <2>3, <2>4, <2>5, Zenon DEF SenderStep
<1>3. ASSUME OwnerStep PROVE HaltInv'
  <2> USE <1>3
  <2>1. CASE Fork
    BY <2>1, Zenon DEF Fork, RunnerGo
  <2>2. CASE ConsumeChild
    BY <2>2, Zenon DEF ConsumeChild
  <2>3. CASE ConsumeClosed
    BY <2>3, Zenon DEF ConsumeClosed
  <2>4. CASE ConsumeStopped
    BY <2>4, Zenon DEF ConsumeStopped, GiveUp
  <2>5. CASE ConsumeFails
    BY <2>5, Zenon DEF ConsumeFails, GiveUp
  <2>6. CASE OwnerSent
    BY <2>6, Zenon DEF OwnerSent
  <2>7. CASE ChildWait
    BY <2>7, Zenon DEF ChildWait
  <2>8. CASE NextItem
    BY <2>8, Zenon DEF NextItem
  <2>9. CASE Reopen
    BY <2>9, Zenon DEF Reopen, ReopenBody, ReopenMustWait, ReopenFails
  <2>10. CASE ReopenWoken
    BY <2>10, Zenon DEF ReopenWoken, ReopenBody, ReopenFails
  <2>11. CASE BeginDone
    BY <2>11, Zenon DEF BeginDone
  <2>12. CASE Done
    BY <2>12, Zenon DEF Done, DoneBody, DoneMustWait, DoneFirst, DoneSecond, TakeParent
  <2>13. CASE DoneWoken
    BY <2>13, Zenon DEF DoneWoken, DoneBody, DoneSecond, TakeParent
  <2> QED
    BY <2>1, <2>2, <2>3, <2>4, <2>5, <2>6, <2>7, <2>8, <2>9, <2>10, <2>11, <2>12, <2>13, Zenon DEF OwnerStep
<1>4. CASE UNCHANGED vars
  BY <1>4, Zenon DEF vars
<1> QED
  BY <1>1, <1>2, <1>3, <1>4, Zenon DEF Next

\* ReportInv holds after every action that lets no earlier run interfere.
LEMMA ReportInvStep == TypeOK /\ RunInv /\ StopInv /\ LifeInv /\ ~overtaken' /\ [Next]_vars => ReportInv'
<1> SUFFICES ASSUME TypeOK, RunInv, StopInv, LifeInv, ~overtaken', [Next]_vars PROVE ReportInv'
  OBVIOUS
<1> USE MaxRunsAssumption DEF TypeOK, Runs, exVars, ownerVars, opVars, sendVars, histVars, RunInv, LifeInv, PhaseInv, OwnerInv, ReportInv, Early, BetweenRuns, GaveUp, Reopening, Left, Ended, Operating, Disposed
<1>1. ASSUME NEW r \in Runs, RunnerStep(r) PROVE ReportInv'
  <2> USE <1>1 DEF RunnerGo
  <2>1. CASE Start(r)
    BY <2>1 DEF Start, ActiveNext
  <2>2. CASE Finish(r)
    BY <2>2, Zenon DEF Finish
  <2>3. CASE NoticeStop(r)
    BY <2>3, Zenon DEF NoticeStop
  <2>4. CASE Notify(r)
    BY <2>4 DEF Notify, TakeParent
  <2>5. CASE Close(r)
    BY <2>5, Zenon DEF Close
  <2>6. CASE Inactive(r)
    BY <2>6, Zenon DEF Inactive, InactiveNext
  <2>7. CASE Broadcast(r)
    BY <2>7, Zenon DEF Broadcast, Woken, Reopened, Sleeping
  <2>8. CASE CloseTail(r)
    BY <2>8, Zenon DEF CloseTail, Reopened
  <2>9. CASE Panic(r)
    BY <2>9, Zenon DEF Panic
  <2>10. CASE Abort(r)
    BY <2>10, Zenon DEF Abort, TearingDown
  <2>11. CASE AbortSent(r)
    BY <2>11, Zenon DEF AbortSent
  <2>12. CASE Release(r)
    BY <2>12, Zenon DEF Release
  <2> QED
    BY <2>1, <2>2, <2>3, <2>4, <2>5, <2>6, <2>7, <2>8, <2>9, <2>10, <2>11, <2>12, Zenon DEF RunnerStep
<1>2. ASSUME NEW a \in Actors, SenderStep(a) PROVE ReportInv'
  <2> USE <1>2 DEF SenderGo
  <2>1. CASE SendBegin(a)
    BY <2>1, Zenon DEF SendBegin, TearingDown
  <2>2. CASE Shortcut(a)
    BY <2>2, Zenon DEF Shortcut
  <2>3. CASE ShortcutState(a)
    BY <2>3, Zenon DEF ShortcutState
  <2>4. CASE SendLocked(a)
    BY <2>4, Zenon DEF SendLocked, ActionNext, ActionSendsStop
  <2>5. CASE SendStop(a)
    BY <2>5, Zenon DEF SendStop
  <2> QED
    BY <2>1, <2>2, <2>3, <2>4, <2>5, Zenon DEF SenderStep
<1>3. ASSUME OwnerStep PROVE ReportInv'
  <2> USE <1>3
  <2>1. CASE Fork
    BY <2>1 DEF Fork, RunnerGo
  <2>2. CASE ConsumeChild
    BY <2>2, Zenon DEF ConsumeChild
  <2>3. CASE ConsumeClosed
    BY <2>3, Zenon DEF ConsumeClosed
  <2>4. CASE ConsumeStopped
    BY <2>4, Zenon DEF ConsumeStopped, GiveUp
  <2>5. CASE ConsumeFails
    BY <2>5, Zenon DEF ConsumeFails, GiveUp
  <2>6. CASE OwnerSent
    BY <2>6, Zenon DEF OwnerSent
  <2>7. CASE ChildWait
    BY <2>7, Zenon DEF ChildWait
  <2>8. CASE NextItem
    BY <2>8, Zenon DEF NextItem
  <2>9. CASE Reopen
    BY <2>9, Zenon DEF Reopen, ReopenBody, ReopenMustWait, ReopenFails
  <2>10. CASE ReopenWoken
    BY <2>10, Zenon DEF ReopenWoken, ReopenBody, ReopenFails
  <2>11. CASE BeginDone
    BY <2>11, Zenon DEF BeginDone
  <2>12. CASE Done
    BY <2>12 DEF Done, DoneBody, DoneMustWait, DoneFirst, DoneSecond, TakeParent
  <2>13. CASE DoneWoken
    BY <2>13, Zenon DEF DoneWoken, DoneBody, DoneSecond, TakeParent
  <2> QED
    BY <2>1, <2>2, <2>3, <2>4, <2>5, <2>6, <2>7, <2>8, <2>9, <2>10, <2>11, <2>12, <2>13, Zenon DEF OwnerStep
<1>4. CASE UNCHANGED vars
  BY <1>4, Zenon DEF vars
<1> QED
  BY <1>1, <1>2, <1>3, <1>4, Zenon DEF Next

LEMMA LifeInit == Init => StopInv /\ LifeInv
<1> SUFFICES ASSUME Init PROVE StopInv /\ LifeInv
  OBVIOUS
<1>1. StopInv
  BY Zenon DEF Init, StopInv
<1>2. PhaseInv
  BY MaxRunsAssumption DEF Init, PhaseInv, Runs
<1>3. OwnerInv
  BY MaxRunsAssumption DEF Init, OwnerInv, Runs, Reopening, Disposed
<1>4. HaltInv /\ ReportInv
  BY Zenon DEF Init, HaltInv, ReportInv
<1> QED
  BY <1>1, <1>2, <1>3, <1>4, Zenon DEF LifeInv

\* What an earlier run did to a later one stays done.
LEMMA OvertakenStays == TypeOK /\ [Next]_vars => (overtaken => overtaken')
<1> SUFFICES ASSUME TypeOK, [Next]_vars, overtaken PROVE overtaken'
  OBVIOUS
<1> USE DEF histVars
<1>1. ASSUME NEW r \in Runs, RunnerStep(r) PROVE overtaken'
  BY <1>1, Zenon DEF RunnerStep, Start, Finish, NoticeStop, Notify, Close, Inactive,
     Broadcast, CloseTail, Panic, Abort, AbortSent, Release
<1>2. ASSUME NEW a \in Actors, SenderStep(a) PROVE overtaken'
  BY <1>2, Zenon DEF SenderStep, SendBegin, Shortcut, ShortcutState, SendLocked, SendStop
<1>3. ASSUME OwnerStep PROVE overtaken'
  BY <1>3, Zenon DEF OwnerStep, Fork, ConsumeChild, ConsumeClosed, ConsumeStopped,
     ConsumeFails, OwnerSent, ChildWait, NextItem, Reopen, ReopenWoken, BeginDone,
     Done, DoneWoken
<1>4. CASE UNCHANGED vars
  BY <1>4, Zenon DEF vars
<1> QED
  BY <1>1, <1>2, <1>3, <1>4, Zenon DEF Next

\* The inductive invariant of the whole module.
LifeInvariant == TypeOK /\ RunInv /\ StopInv /\ (~overtaken => LifeInv)

LEMMA LifeInvariance == Spec => []LifeInvariant
<1>1. Init => LifeInvariant
  BY RunInvInit, LifeInit, Zenon DEF LifeInvariant
<1>2. LifeInvariant /\ [Next]_vars => LifeInvariant'
  <2> SUFFICES ASSUME LifeInvariant, [Next]_vars PROVE LifeInvariant'
    OBVIOUS
  <2>1. TypeOK' /\ RunInv' /\ StopInv'
    BY TypeStep, RunInvStep, StopInvStep, Zenon DEF LifeInvariant
  <2>2. ASSUME ~overtaken' PROVE LifeInv'
    <3>1. TypeOK /\ RunInv /\ StopInv /\ LifeInv
      BY <2>2, OvertakenStays, Zenon DEF LifeInvariant
    <3> QED
      BY <2>2, <3>1, PhaseInvStep, OwnerInvStep, HaltInvStep, ReportInvStep, Zenon DEF LifeInv
  <2> QED
    BY <2>1, <2>2, Zenon DEF LifeInvariant
<1> QED
  BY <1>1, <1>2, PTL DEF Spec

\* Unless a late wake-up of an earlier run ended baseDone()'s Wait: once Done()
\* has returned the operator is not operating, and nobody produces into or
\* closes a value exchange that was disposed of.
THEOREM DoneEndsIt == Spec => []PromptDoneIsFinal
<1>1. LifeInvariant => PromptDoneIsFinal
  <2> SUFFICES ASSUME LifeInvariant, ~overtaken PROVE DoneIsFinal /\ DisposeAfterRun
    BY Zenon DEF PromptDoneIsFinal
  <2>1. OwnerInv /\ RunInv
    BY Zenon DEF LifeInvariant, LifeInv
  <2>2. DoneIsFinal
    BY <2>1, Zenon DEF OwnerInv, DoneIsFinal, Operating, Disposed
  <2>3. DisposeAfterRun
    BY <2>1, Zenon DEF OwnerInv, RunInv, DisposeAfterRun, Early, Left
  <2> QED
    BY <2>2, <2>3, Zenon
<1> QED
  BY <1>1, LifeInvariance, PTL

\* Unless a late wake-up let baseReopen() take over a running operator: when
\* everything is over, the owner was sent exactly one child message per run.
THEOREM EachRunReported == Spec => []PromptReported
<1>1. LifeInvariant => PromptReported
  <2> SUFFICES ASSUME LifeInvariant, ~overtaken,
                      \A r \in Runs : runner[r] \in {"none", "gone"}
               PROVE  told = run
    BY Zenon DEF PromptReported, EveryRunReported
  <2> QED
    BY Zenon DEF LifeInvariant, LifeInv, ReportInv, Early
<1> QED
  BY <1>1, LifeInvariance, PTL

\* Unless a late wake-up of an earlier run ended baseReopen()'s Wait: after a
\* STOP that found it operating, the operator is never forked again.
THEOREM StoppedForGood == Spec => PromptStop
<1>1. LifeInvariant /\ [Next]_vars => [stopHit /\ ~overtaken => run' = run]_vars
  <2> SUFFICES ASSUME LifeInvariant, Next, stopHit, ~overtaken PROVE run' = run
    BY Zenon DEF vars
  <2>1. owner # "fork"
    BY Zenon DEF LifeInvariant, LifeInv, HaltInv, GaveUp, Reopening
  <2>2. ASSUME NEW r \in Runs, RunnerStep(r) PROVE run' = run
    BY <2>2, Zenon DEF RunnerStep, Start, Finish, NoticeStop, Notify, Close, Inactive,
       Broadcast, CloseTail, Panic, Abort, AbortSent, Release
  <2>3. ASSUME NEW a \in Actors, SenderStep(a) PROVE run' = run
    BY <2>3, Zenon DEF SenderStep, SendBegin, Shortcut, ShortcutState, SendLocked, SendStop
  <2>4. ASSUME OwnerStep PROVE run' = run
    BY <2>1, <2>4, Zenon DEF OwnerStep, Fork, ConsumeChild, ConsumeClosed, ConsumeStopped,
       ConsumeFails, OwnerSent, ChildWait, NextItem, Reopen, ReopenWoken, BeginDone,
       Done, DoneWoken
  <2> QED
    BY <2>2, <2>3, <2>4, Zenon DEF Next
<1> QED
  BY <1>1, LifeInvariance, PTL DEF Spec, PromptStop

=============================================================================
