---------------------------- MODULE OperatorLife ----------------------------
(***************************************************************************)
(* The life of one operator that another operator runs again and again:    *)
(* the inner side of a nested-loop join (execution/join_nl.go), on top of  *)
(* execution/base.go.                                                      *)
(*                                                                         *)
(*   runner r   the goroutine forked for the r-th run of the operator      *)
(*   owner      the join that forks, consumes, reopens and stops it, and   *)
(*              then the request's thread that calls Done() on the tree    *)
(*   senders    goroutines that send an action down the tree: a consumer   *)
(*              that has had enough (PAUSE), the request's Stop() (STOP)   *)
(*                                                                         *)
(* Each step is what happens between two releases of activeLock, or one    *)
(* unlocked access that another goroutine can get in front of.             *)
(***************************************************************************)
EXTENDS OpState, Naturals, FiniteSets

CONSTANTS Senders,     \* goroutines that may send one action each
          Owner,       \* the owner, when it sends a STOP itself
          Panicker,    \* a runner that panicked, when it aborts the request
          MaxRuns,     \* bound on the number of times the operator is run
          MayPanic     \* whether a run may panic

ASSUME MaxRunsAssumption == MaxRuns \in Nat \ {0}
ASSUME ActorsAssumption ==
  Owner \notin Senders /\ Panicker \notin Senders /\ Owner # Panicker
ASSUME MayPanicAssumption == MayPanic \in BOOLEAN

Runs   == 1 .. MaxRuns
Actors == Senders \cup {Owner, Panicker}

VARIABLES
  opState,       \* base.opState
  once,          \* base.once: the number of entries into Do since the last Reset
  inactiveFlag,  \* base.inactiveFlag
  parent,        \* base.parent # nil: the owner is still to be notified
  stopped,       \* base.stopped: the run has noticed a stop
  exStop,        \* valueExchange.stop of the operator
  exClosed,      \* valueExchange.closed of the operator
  disposed,      \* the value exchange was disposed of
  children,      \* child messages queued in the owner's value exchange
  run,           \* the number of runs forked so far
  runner,        \* program counter of each run
  owner,         \* program counter of the owner
  waitingFor,    \* processItem's n: children the owner still expects
  ownerStop,     \* valueExchange.stop of the owner
  sender,        \* program counter of each actor's SendAction call
  action,        \* the action each actor sends
  \* History, read by the properties only:
  ran,           \* the runs that entered the body
  told,          \* child messages sent so far
  stopHit,       \* a STOP found the operator operating
  overtaken      \* what an ended run had left to do took effect on a later one

opVars    == <<opState, once, inactiveFlag, parent, stopped>>
exVars    == <<exStop, exClosed, disposed>>
ownerVars == <<owner, waitingFor, ownerStop>>
sendVars  == <<sender, action>>
histVars  == <<ran, told, stopHit, overtaken>>
vars == <<opVars, exVars, children, run, runner, ownerVars, sendVars, histVars>>

RunnerPCs == {"none", "forked", "running", "notify", "close", "inactive",
              "broadcast", "tail", "abort", "aborting", "release", "rnotify", "gone"}
OwnerPCs == {"fork", "consume", "sendThenWait", "sendThenFinish", "next",
             "reopen", "reopenWait", "reopenWoken", "childWait", "childWaiting",
             "finish", "done", "doneWait", "doneWoken", "end"}
SenderPCs == {"idle", "shortcut", "shortcutState", "locked", "sendStop", "end"}

\* The three places where the owner sleeps on activeCond, and where it goes on
\* from when it is woken.
Sleeping == {"reopenWait", "childWaiting", "doneWait"}
Woken(pc) == CASE pc = "reopenWait"   -> "reopenWoken"
               [] pc = "childWaiting" -> "finish"
               [] pc = "doneWait"     -> "doneWoken"
               [] OTHER               -> pc

\* The request thread has started to tear the tree down.
TearingDown == owner \in {"done", "doneWait", "doneWoken", "end"}

Init ==
  /\ opState = "CREATED" /\ once = 0 /\ inactiveFlag = FALSE
  /\ parent = FALSE /\ stopped = FALSE
  /\ exStop = FALSE /\ exClosed = FALSE /\ disposed = FALSE
  /\ children = 0 /\ run = 0
  /\ runner = [r \in Runs |-> "none"]
  /\ owner = "fork" /\ waitingFor = 0 /\ ownerStop = FALSE
  /\ sender = [a \in Actors |-> "idle"]
  /\ action = [a \in Actors |-> "STOP"]
  /\ ran = {} /\ told = 0 /\ stopHit = FALSE /\ overtaken = FALSE

\* The operator was reopened since run r closed it.
Reopened(r) == r # run \/ ~inactiveFlag

RunnerGo(r, pc) == runner' = [runner EXCEPT ![r] = pc]

----------------------------------------------------------------------------
(* The runner.                                                             *)

\* RunOnce(): once.Do() lets a single goroutine in; active() decides whether
\* it runs, or only notifies and closes.
Start(r) ==
  /\ runner[r] = "forked"
  /\ IF once > 0
       THEN RunnerGo(r, "gone") /\ UNCHANGED <<once, opState, ran>>
       ELSE /\ once' = 1
            /\ opState' = ActiveNext(opState)
            /\ RunnerGo(r, IF opState = "CREATED" THEN "running" ELSE "notify")
            /\ ran' = IF opState = "CREATED" THEN ran \cup {r} ELSE ran
  /\ UNCHANGED <<inactiveFlag, parent, stopped, exVars, children, run, ownerVars, sendVars, told, stopHit, overtaken>>

\* The body produces everything it has to.
Finish(r) ==
  /\ runner[r] = "running"
  /\ RunnerGo(r, "notify")
  /\ UNCHANGED <<opVars, exVars, children, run, ownerVars, sendVars, histVars>>

\* The body's next sendItem() or getItem() finds the stop, and refuses.
NoticeStop(r) ==
  /\ runner[r] = "running" /\ exStop
  /\ stopped' = TRUE
  /\ RunnerGo(r, "notify")
  /\ UNCHANGED <<opState, once, inactiveFlag, parent, exVars, children, run,
                 ownerVars, sendVars, histVars>>

\* Mutant: notify() sends without having taken the parent.
BugTakeParent ==
  /\ parent' = FALSE
  /\ children' = children + 1
  /\ told' = told + 1

\* notify() takes the parent under activeLock, so that one notification is all
\* that is ever sent, and queues a child message with it.
TakeParent ==
  /\ parent' = FALSE
  /\ children' = IF parent THEN children + 1 ELSE children
  /\ told' = IF parent THEN told + 1 ELSE told

Notify(r) ==
  /\ runner[r] \in {"notify", "rnotify"}
  /\ TakeParent
  /\ RunnerGo(r, IF runner[r] = "notify" THEN "close" ELSE "gone")
  /\ UNCHANGED <<opState, once, inactiveFlag, stopped, exVars, run, ownerVars, sendVars, ran, stopHit, overtaken>>

\* close(), up to and including valueExchange.close().
Close(r) ==
  /\ runner[r] = "close"
  /\ IF inactiveFlag
       THEN RunnerGo(r, "gone") /\ UNCHANGED exClosed
       ELSE RunnerGo(r, "inactive") /\ exClosed' = TRUE
  /\ UNCHANGED <<opVars, exStop, disposed, children, run, ownerVars, sendVars, histVars>>

\* inactive(), up to the release of activeLock ...
Inactive(r) ==
  /\ runner[r] = "inactive"
  /\ opState' = InactiveNext(opState)
  /\ inactiveFlag' = TRUE
  /\ RunnerGo(r, "broadcast")
  /\ UNCHANGED <<once, parent, stopped, exVars, children, run, ownerVars, sendVars, histVars>>

\* ... and the Broadcast that follows it.
Broadcast(r) ==
  /\ runner[r] = "broadcast"
  /\ owner' = Woken(owner)
  /\ overtaken' = (overtaken \/ (Reopened(r) /\ owner \in Sleeping))
  /\ RunnerGo(r, "tail")
  /\ UNCHANGED <<opVars, exVars, children, run, waitingFor, ownerStop, sendVars,
                 ran, told, stopHit>>

\* The end of close(): an operator that never ran cleans up after itself.
CloseTail(r) ==
  /\ runner[r] = "tail"
  /\ IF opState \in {"KILLED", "PAUSED"}
       THEN disposed' = TRUE /\ parent' = FALSE /\ overtaken' = (overtaken \/ Reopened(r))
       ELSE UNCHANGED <<disposed, parent, overtaken>>
  /\ RunnerGo(r, "gone")
  /\ UNCHANGED <<opState, once, inactiveFlag, stopped, exStop, exClosed, children,
                 run, ownerVars, sendVars, ran, told, stopHit>>

\* Context.Recover(): a panic aborts the request, which sends a STOP from the
\* root unless the tree is being torn down already ...
Panic(r) ==
  /\ MayPanic /\ runner[r] = "running"
  /\ RunnerGo(r, "abort")
  /\ UNCHANGED <<opVars, exVars, children, run, ownerVars, sendVars, histVars>>

Abort(r) ==
  /\ runner[r] = "abort"
  /\ IF TearingDown \/ sender[Panicker] # "idle"
       THEN RunnerGo(r, "release") /\ UNCHANGED <<ownerStop, sender>>
       ELSE /\ RunnerGo(r, "aborting")
            /\ ownerStop' = TRUE
            /\ sender' = [sender EXCEPT ![Panicker] = "shortcut"]
  /\ UNCHANGED <<opVars, exVars, children, run, owner, waitingFor, action, histVars>>

AbortSent(r) ==
  /\ runner[r] = "aborting" /\ sender[Panicker] = "end"
  /\ RunnerGo(r, "release")
  /\ UNCHANGED <<opVars, exVars, children, run, ownerVars, sendVars, histVars>>

\* ... and release() marks the operator; the notification comes next.
Release(r) ==
  /\ runner[r] = "release"
  /\ opState' = "PANICKED"
  /\ RunnerGo(r, "rnotify")
  /\ UNCHANGED <<once, inactiveFlag, parent, stopped, exVars, children, run,
                 ownerVars, sendVars, histVars>>

RunnerStep(r) ==
  \/ Start(r) \/ Finish(r) \/ NoticeStop(r) \/ Notify(r) \/ Close(r) \/ Inactive(r)
  \/ Broadcast(r) \/ CloseTail(r) \/ Panic(r) \/ Abort(r) \/ AbortSent(r) \/ Release(r)

----------------------------------------------------------------------------
(* SendAction().                                                           *)

SenderGo(a, pc) == sender' = [sender EXCEPT ![a] = pc]

\* An action comes down the tree: the join takes it first (baseSendAction on
\* the join stops its value exchange), the operator after it.  No action is
\* sent once Done() may be called: request.stopGate, and notify() before close().
SendBegin(a) ==
  /\ a \in Senders /\ sender[a] = "idle" /\ ~TearingDown
  /\ ownerStop' = TRUE
  /\ \E act \in Actions : action' = [action EXCEPT ![a] = act]
  /\ SenderGo(a, "shortcut")
  /\ UNCHANGED <<opVars, exVars, children, run, runner, owner, waitingFor, histVars>>

\* baseSendAction()'s first test, on this.stopped ...
Shortcut(a) ==
  /\ sender[a] = "shortcut"
  /\ SenderGo(a, IF stopped THEN "shortcutState" ELSE "locked")
  /\ UNCHANGED <<opVars, exVars, children, run, runner, ownerVars, action, histVars>>

\* ... and the one on opState, still without the lock.
ShortcutState(a) ==
  /\ sender[a] = "shortcutState"
  /\ SenderGo(a, IF ShortcutFallsThrough(opState, action[a]) THEN "locked" ELSE "end")
  /\ stopHit' = (stopHit \/ (action[a] = "STOP" /\ opState \in Operating))
  /\ UNCHANGED <<opVars, exVars, children, run, runner, ownerVars, action, ran, told, overtaken>>

\* The locked state change ...
SendLocked(a) ==
  /\ sender[a] = "locked"
  /\ opState' = ActionNext(opState, action[a])
  /\ SenderGo(a, IF ActionSendsStop(opState) THEN "sendStop" ELSE "end")
  /\ stopHit' = (stopHit \/ (action[a] = "STOP" /\ opState \in Operating))
  /\ UNCHANGED <<once, inactiveFlag, parent, stopped, exVars, children, run, runner,
                 ownerVars, action, ran, told, overtaken>>

\* ... and valueExchange.sendStop() after the lock is released.
SendStop(a) ==
  /\ sender[a] = "sendStop"
  /\ exStop' = TRUE
  /\ SenderGo(a, "end")
  /\ UNCHANGED <<opVars, exClosed, disposed, children, run, runner, ownerVars, action, histVars>>

SenderStep(a) ==
  SendBegin(a) \/ Shortcut(a) \/ ShortcutState(a) \/ SendLocked(a) \/ SendStop(a)

----------------------------------------------------------------------------
(* The owner: NLJoin.processItem(), then Done() on the tree.               *)

\* SetParent() and fork(): the n of processItem() starts at one.
Fork ==
  /\ owner = "fork"
  /\ parent' = TRUE
  /\ run' = run + 1
  /\ RunnerGo(run + 1, "forked")
  /\ waitingFor' = 1
  /\ owner' = "consume"
  /\ UNCHANGED <<opState, once, inactiveFlag, stopped, exVars, children, ownerStop, sendVars, histVars>>

\* getItemChildrenOp(): a stop takes precedence over children, and those over
\* the end of the stream.  The owner may also fail on its own.
ConsumeChild ==
  /\ owner = "consume" /\ ~ownerStop /\ children > 0
  /\ children' = children - 1
  /\ waitingFor' = waitingFor - 1
  /\ UNCHANGED <<opVars, exVars, run, runner, owner, ownerStop, sendVars, histVars>>

\* Mutants: the end of the stream overtakes a child message; or it is taken
\* for granted once the child has notified.
BugConsumeClosedFirst ==
  /\ owner = "consume" /\ ~ownerStop /\ exClosed
  /\ owner' = "next"
  /\ UNCHANGED <<opVars, exVars, children, run, runner, waitingFor, ownerStop, sendVars, histVars>>
BugConsumeUnclosed ==
  /\ owner = "consume" /\ ~ownerStop /\ children = 0
  /\ owner' = "next"
  /\ UNCHANGED <<opVars, exVars, children, run, runner, waitingFor, ownerStop, sendVars, histVars>>

ConsumeClosed ==
  /\ owner = "consume" /\ ~ownerStop /\ children = 0 /\ exClosed
  /\ owner' = "next"
  /\ UNCHANGED <<opVars, exVars, children, run, runner, waitingFor, ownerStop, sendVars, histVars>>

GiveUp ==
  /\ waitingFor' = waitingFor
  /\ IF waitingFor > 0
       THEN owner' = "sendThenWait" /\ sender' = [sender EXCEPT ![Owner] = "shortcut"]
       ELSE owner' = "finish" /\ UNCHANGED sender

ConsumeStopped ==
  /\ owner = "consume" /\ ownerStop
  /\ GiveUp
  /\ UNCHANGED <<opVars, exVars, children, run, runner, ownerStop, action, histVars>>

ConsumeFails ==
  /\ owner = "consume" /\ ~ownerStop
  /\ GiveUp
  /\ UNCHANGED <<opVars, exVars, children, run, runner, ownerStop, action, histVars>>

\* The owner's own SendAction(_ACTION_STOP) has returned.
OwnerSent ==
  /\ owner \in {"sendThenWait", "sendThenFinish"} /\ sender[Owner] = "end"
  /\ owner' = IF owner = "sendThenWait" THEN "childWait" ELSE "finish"
  /\ UNCHANGED <<opVars, exVars, children, run, runner, waitingFor, ownerStop, sendVars, histVars>>

\* childrenWaitNoStop(): one Wait for an operating child.
ChildWait ==
  /\ owner = "childWait"
  /\ owner' = IF ChildMustWait(opState) THEN "childWaiting" ELSE "finish"
  /\ UNCHANGED <<opVars, exVars, children, run, runner, waitingFor, ownerStop, sendVars, histVars>>

\* The next item of the outer side, if there is one and the join is not stopped.
NextItem ==
  /\ owner = "next"
  /\ owner' \in (IF ownerStop \/ run = MaxRuns THEN {"finish"} ELSE {"finish", "reopen"})
  /\ UNCHANGED <<opVars, exVars, children, run, runner, waitingFor, ownerStop, sendVars, histVars>>


\* baseReopen(): the locked part after the wait, if any.
ReopenBody ==
  IF ReopenFails(opState)
    THEN /\ owner' = "sendThenFinish"
         /\ sender' = [sender EXCEPT ![Owner] = "shortcut"]
         /\ UNCHANGED <<opVars, exVars>>
    ELSE /\ opState' = "CREATED" /\ once' = 0 /\ inactiveFlag' = FALSE
         /\ stopped' = FALSE /\ exStop' = FALSE /\ exClosed' = FALSE
         /\ owner' = "fork"
         /\ UNCHANGED <<parent, disposed, sender>>

Reopen ==
  /\ owner = "reopen"
  /\ IF ReopenMustWait(opState)
       THEN owner' = "reopenWait" /\ UNCHANGED <<opVars, exVars, sender>>
       ELSE ReopenBody
  /\ UNCHANGED <<children, run, runner, waitingFor, ownerStop, action, histVars>>

ReopenWoken ==
  /\ owner = "reopenWoken"
  /\ ReopenBody
  /\ UNCHANGED <<children, run, runner, waitingFor, ownerStop, action, histVars>>

\* The join has ended, and no action is on its way: Done() reaches the operator.
BeginDone ==
  /\ owner = "finish"
  /\ \A a \in Actors : sender[a] \in {"idle", "end"}
  /\ owner' = "done"
  /\ UNCHANGED <<opVars, exVars, children, run, runner, waitingFor, ownerStop, sendVars, histVars>>

\* baseDone(), from the second switch on: dispose, or notify for a latecomer.
DoneBody(s) ==
  /\ opState' = DoneSecond(s)
  /\ owner' = "end"
  /\ IF s = "LATE"
       THEN TakeParent /\ UNCHANGED disposed
       ELSE IF DoneSecond(s) \in {"DONE", "ENDED"}
              THEN disposed' = TRUE /\ parent' = FALSE /\ UNCHANGED <<children, told>>
              ELSE UNCHANGED <<disposed, parent, children, told>>

Done ==
  /\ owner = "done"
  /\ IF DoneMustWait(opState)
       THEN owner' = "doneWait" /\ UNCHANGED <<opState, parent, children, told, disposed>>
       ELSE DoneBody(DoneFirst(opState))
  /\ UNCHANGED <<once, inactiveFlag, stopped, exStop, exClosed, run, runner,
                 waitingFor, ownerStop, sendVars, ran, stopHit, overtaken>>

DoneWoken ==
  /\ owner = "doneWoken"
  /\ DoneBody(opState)
  /\ UNCHANGED <<once, inactiveFlag, stopped, exStop, exClosed, run, runner,
                 waitingFor, ownerStop, sendVars, ran, stopHit, overtaken>>

OwnerStep ==
  \/ Fork \/ ConsumeChild \/ ConsumeClosed \/ ConsumeStopped \/ ConsumeFails
  \/ OwnerSent \/ ChildWait \/ NextItem \/ Reopen \/ ReopenWoken
  \/ BeginDone \/ Done \/ DoneWoken

----------------------------------------------------------------------------
Next ==
  \/ \E r \in Runs : RunnerStep(r)
  \/ \E a \in Actors : SenderStep(a)
  \/ OwnerStep

Spec == Init /\ [][Next]_vars


(* Every goroutine goes on running; a body is only sure to come to its end *)
(* while the owner consumes what it produces.                              *)
Fairness ==
  /\ \A r \in Runs :
       /\ WF_vars(Start(r)) /\ WF_vars(NoticeStop(r)) /\ WF_vars(Notify(r))
       /\ WF_vars(Close(r)) /\ WF_vars(Inactive(r)) /\ WF_vars(Broadcast(r))
       /\ WF_vars(CloseTail(r)) /\ WF_vars(Abort(r)) /\ WF_vars(AbortSent(r))
       /\ WF_vars(Release(r)) /\ WF_vars(owner = "consume" /\ Finish(r))
  /\ \A a \in Actors :
       /\ WF_vars(Shortcut(a)) /\ WF_vars(ShortcutState(a))
       /\ WF_vars(SendLocked(a)) /\ WF_vars(SendStop(a))
  /\ WF_vars(OwnerStep)

FairSpec == Spec /\ Fairness

----------------------------------------------------------------------------
\* The state of base, the value exchange and the program counters of runners,
\* owner and senders have their types.
TypeOK ==
  /\ opState \in OpStates
  /\ once \in 0 .. 1
  /\ inactiveFlag \in BOOLEAN /\ parent \in BOOLEAN /\ stopped \in BOOLEAN
  /\ exStop \in BOOLEAN /\ exClosed \in BOOLEAN /\ disposed \in BOOLEAN
  /\ children \in Nat
  /\ run \in 0 .. MaxRuns
  /\ runner \in [Runs -> RunnerPCs]
  /\ owner \in OwnerPCs
  /\ waitingFor \in Nat
  /\ ownerStop \in BOOLEAN
  /\ sender \in [Actors -> SenderPCs]
  /\ action \in [Actors -> Actions]
  /\ ran \subseteq Runs
  /\ told \in Nat
  /\ stopHit \in BOOLEAN /\ overtaken \in BOOLEAN

\* base.once and the order notify(), close(), inactive() keep the body of an
\* operator from being executed by two goroutines at once, however often the
\* owner reopens it and whatever is sent to it.
OneRunAtATime ==
  \A r, q \in Runs : runner[r] = "running" /\ runner[q] = "running" => r = q

\* The owner counts children per run (processItem's n): when it forks a run, no
\* child message of an earlier run is left in its value exchange.
NoStaleChildMessage == owner = "fork" => children = 0

\* Nobody produces into, or closes, a value exchange that has gone back to its
\* pool (valueExchange.dispose()).
DisposeAfterRun ==
  disposed => \A r \in Runs : runner[r] \notin {"running", "close"}

\* baseDone(): "from now on, this operator can't be touched".  Once Done() has
\* returned, the operator has stopped operating.
DoneIsFinal == owner = "end" => opState \notin Operating

\* Both, unless a late wake-up of an earlier run ended baseDone()'s Wait.
PromptDoneIsFinal == overtaken \/ (DoneIsFinal /\ DisposeAfterRun)

\* When everything is over, the owner was sent one child message per run, by
\* the run itself or on its behalf: none was lost, none sent twice.
EveryRunReported ==
  owner = "end" /\ (\A r \in Runs : runner[r] \in {"none", "gone"}) => told = run

\* The same, unless a late wake-up of an earlier run let baseReopen() take over
\* an operator that was still running.
PromptReported == overtaken \/ EveryRunReported

\* baseReopen(): "a stop was sent ... cannot reopen, bail out".  After a STOP
\* that found it operating, an operator is never forked again.
StopIsForGood == [][stopHit => run' = run]_vars

\* The same, unless a late wake-up of an earlier run ended baseReopen()'s Wait.
PromptStop == [][stopHit /\ ~overtaken => run' = run]_vars


=============================================================================
