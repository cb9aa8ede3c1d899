----------------------------- MODULE RequestLife -----------------------------
(***************************************************************************)
(* The life of one request of the HTTP endpoint, from the moment it is     *)
(* queued to the moment its object goes back to the request pool.  Six     *)
(* actors share it: the goroutine that serves it (ServeHTTP, handleRequest,*)
(* serviceRequest, Execute, CompleteRequest), its operator tree, its       *)
(* timer, an administrator who deletes it from the active requests, the    *)
(* admission routine, which pauses, resumes and halts requests when memory *)
(* is short, and the client, who may go away.                              *)
(*                                                                         *)
(* All the ways to stop a request run BaseRequest.Stop, one step at a time *)
(* and each on its own thread: "serv", "oper", "timer", "admin" and "ctl". *)
(***************************************************************************)
EXTENDS Integers, Sequences, FiniteSets

CONSTANTS
  MaxPauses,  \* bound on how often the admission routine pauses the request
  MaxStops,   \* bound on the interventions: acts against it, and errors
  MaxItems    \* bound on how many results the operator tree produces

ASSUME BoundsAssumption == MaxPauses \in Nat /\ MaxStops \in Nat /\ MaxItems \in Nat

Stoppers == {"serv", "oper", "timer", "admin", "ctl"}
Stopped == {"stopped", "timeout", "closed"}
States == {"submitted", "running", "completed", "fatal"} \cup Stopped

VARIABLES
  state, abend,   \* BaseRequest.state and .abend
  timings,        \* the request has an operator tree
  sv,             \* where the serving goroutine is
  th, todo,       \* where each thread is inside Stop, and the states it stops with
  lock,           \* which thread holds the request's mutex inside Stop
  stopOp,         \* stopOperator is not nil
  gate,           \* counter of stopGate
  stopExec,       \* a signal waits in stopExecute
  results,        \* a signal waits in stopResult
  op, opStop,     \* the operator tree, and whether it has been sent a stop
  items, cut,     \* results sent, and whether the tree ended before its time
  writer,         \* the bufferedWriter
  pauseAt,        \* pauseStart is not 0
  pauseWg,        \* counter of pauseWg
  pauses,         \* pauses so far
  ctl,            \* where the admission routine is
  listed, bucket, \* the active requests: entry present, holder of the bucket's lock
  timer,          \* the timeout's timer
  gone,           \* the client is gone
  acts,           \* interventions so far
  report,         \* the state the response ends with
  upset           \* the disturbances below that have occurred

reqVars == <<state, abend, timings, stopOp, gate, stopExec, results>>
stopVars == <<th, todo, lock>>
opVars == <<op, opStop, items, cut>>
pauseVars == <<pauseAt, pauseWg, pauses, ctl>>
listVars == <<listed, bucket>>
envVars == <<timer, gone, acts>>
vars == <<reqVars, stopVars, opVars, pauseVars, listVars, sv, writer, envVars, report, upset>>

Servicer == {"queued", "build", "notify", "run", "prefix", "select", "internal",
             "waitop", "wokeop", "suffix", "undone", "failed", "unlist", "stoptimer", "gate", "add",
             "done", "pooled"}

\* What the code has no defence against, recorded when it happens: a stop that comes
\* before there is a tree to stop ("early"), a pause that takes hold after the
\* request has stopped running ("late"), two threads that resume it at once
\* ("double"), an operator shut out after it was woken to write ("wake"), a second
\* stop that is over before the first has reached the tree ("overtake").
Disturbances == {"early", "late", "double", "wake", "overtake"}

TypeOK ==
  /\ state \in States /\ abend \in BOOLEAN /\ timings \in BOOLEAN
  /\ sv \in Servicer
  /\ th \in [Stoppers -> {"idle", "set", "take", "unpause", "gate", "add", "send", "signal"}]
  /\ todo \in [Stoppers -> Seq(States)] /\ \A t \in Stoppers : todo[t] = <<>> <=> th[t] = "idle"
  /\ lock \in Stoppers \cup {"free"}
  /\ stopOp \in BOOLEAN /\ gate \in 0..2 /\ stopExec \in BOOLEAN /\ results \in BOOLEAN
  /\ op \in {"none", "run", "paused", "get", "start", "woken", "write", "raise", "close", "end"}
  /\ opStop \in BOOLEAN /\ items \in 0..MaxItems /\ cut \in BOOLEAN
  /\ writer \in [started : BOOLEAN, stopped : BOOLEAN, inUse : BOOLEAN, waiter : BOOLEAN]
  /\ pauseAt \in BOOLEAN /\ pauses \in 0..MaxPauses
  /\ pauseWg \in Int /\ ("double" \notin upset => pauseWg \in {0, 1})
  /\ ctl \in {"rest", "add", "store", "halt", "load", "swap"}
  /\ listed \in BOOLEAN /\ bucket \in {"free", "admin", "ctl"}
  /\ timer \in {"none", "set", "off"}
  /\ gone \in BOOLEAN /\ acts \in 0..MaxStops /\ report \in States \cup {"none", "abend"}
  /\ upset \subseteq Disturbances

\* NewBaseRequest, NewBufferedWriter and actives.Put: the request is in the
\* active requests and waits for a servicer.
Init ==
  /\ state = "submitted" /\ abend = FALSE /\ timings = FALSE
  /\ sv = "queued"
  /\ th = [t \in Stoppers |-> "idle"] /\ todo = [t \in Stoppers |-> <<>>] /\ lock = "free"
  /\ stopOp = FALSE /\ gate = 0 /\ stopExec = FALSE /\ results = FALSE
  /\ op = "none" /\ opStop = FALSE /\ items = 0 /\ cut = FALSE
  /\ writer = [started |-> FALSE, stopped |-> FALSE, inUse |-> FALSE, waiter |-> FALSE]
  /\ pauseAt = FALSE /\ pauseWg = 0 /\ pauses = 0 /\ ctl = "rest"
  /\ listed = TRUE /\ bucket = "free"
  /\ timer = "none" /\ gone = FALSE /\ acts = 0 /\ report = "none" /\ upset = {}

-----------------------------------------------------------------------------
(***************************************************************************)
(* The state of the request.                                               *)
(***************************************************************************)

\* BaseRequest.State
State == IF abend THEN "abend" ELSE state

\* A SetState that lets a later cause replace an earlier one.
BugSetState(new) == IF state = "fatal" THEN state ELSE new

\* BaseRequest.SetState: what the state becomes.
SetState(new) ==
  IF \/ state = "fatal"
     \/ state \in Stopped /\ new \in {"stopped", "completed"}
  THEN state
  ELSE new

-----------------------------------------------------------------------------
(***************************************************************************)
(* BaseRequest.Stop, for any of the threads.                               *)
(***************************************************************************)

Goto(t, pc) == th' = [th EXCEPT ![t] = pc]

\* Thread t enters Stop once for each state of the sequence.
Begin(t, states) ==
  /\ todo' = [todo EXCEPT ![t] = states]
  /\ Goto(t, "set")

\* A Stop that comes before the request has an operator has nothing to send the
\* stop to, and Servicing may overwrite its state.
Early(t) ==
  IF t # "serv" /\ sv \in {"queued", "build", "notify"} THEN {"early"} ELSE {}

\* Stop's own SetState.
StopSet(t) ==
  /\ th[t] = "set" /\ lock = "free"
  /\ state' = SetState(Head(todo[t]))
  /\ Goto(t, "take")
  /\ upset' = upset \cup Early(t)
  /\ UNCHANGED <<abend, timings, stopOp, gate, stopExec, results, todo, lock, opVars, pauseVars,
                 listVars, sv, writer, envVars, report>>

\* Under the mutex: take stopOperator, leaving nil.
Take(t) ==
  /\ stopOp' = FALSE
  /\ Goto(t, IF stopOp THEN "gate" ELSE "signal")

\* Lock; Pause(false) reads pauseStart.
StopTake(t) ==
  /\ th[t] = "take" /\ lock = "free"
  /\ \/ pauseAt /\ lock' = t /\ Goto(t, "unpause") /\ UNCHANGED <<stopOp, upset>>
     \/ ~pauseAt /\ Take(t) /\ upset' = upset \cup Early(t) /\ UNCHANGED lock
  /\ UNCHANGED <<state, abend, timings, gate, stopExec, results, todo, opVars, pauseVars, listVars,
                 sv, writer, envVars, report>>

\* Two threads that have both read a pauseStart other than 0 both call Done.
Double(other) == IF other THEN {"double"} ELSE {}

\* The second half of Context.Pause(false): swap pauseStart with 0, Done.
Unpause == pauseAt' = FALSE /\ pauseWg' = pauseWg - 1

\* ... inside Stop, which then takes the operator and unlocks.
StopUnpause(t) ==
  /\ th[t] = "unpause"
  /\ Unpause
  /\ Take(t)
  /\ lock' = "free"
  /\ upset' = upset \cup Early(t) \cup Double(ctl = "swap")
  /\ UNCHANGED <<state, abend, timings, gate, stopExec, results, todo, opVars, pauses, ctl,
                 listVars, sv, writer, envVars, report>>

\* stopGate.Wait, which is a step of its own: Add comes after it.
StopGate(t) ==
  /\ th[t] = "gate" /\ gate = 0
  /\ Goto(t, "add")
  /\ UNCHANGED <<reqVars, todo, lock, opVars, pauseVars, listVars, sv, writer, envVars, report,
                 upset>>

StopAdd(t) ==
  /\ th[t] = "add"
  /\ gate' = gate + 1
  /\ Goto(t, "send")
  /\ UNCHANGED <<state, abend, timings, stopOp, stopExec, results, todo, lock, opVars, pauseVars,
                 listVars, sv, writer, timer, gone, acts, report, upset>>

\* OpStop.  A tree that has not started is killed, and Stream.SendAction closes
\* the results; a tree at work finds out at its next step.
StopSend(t) ==
  /\ th[t] = "send"
  /\ gate' = gate - 1
  /\ opStop' = TRUE
  /\ \/ op = "none" /\ op' = "end" /\ results' = TRUE /\ cut' = TRUE
     \/ op # "none" /\ UNCHANGED <<op, results, cut>>
  /\ Goto(t, "signal")
  /\ UNCHANGED <<state, abend, timings, stopOp, stopExec, items, todo, lock, pauseVars, listVars,
                 sv, writer, envVars, report, upset>>

\* A thread that found no operator to stop signals the serving goroutine while the
\* thread that has it has not sent the stop yet.
Overtaking(t) ==
  IF \E u \in Stoppers \ {t} : th[u] \in {"gate", "add", "send"} THEN {"overtake"} ELSE {}

\* sendStop(stopExecute), and the return from Stop.  The administrator's Stop runs
\* inside GenCache.DeleteWithCheck, which then drops the entry and the bucket's
\* lock.
StopSignal(t) ==
  /\ th[t] = "signal"
  /\ stopExec' = TRUE
  /\ upset' = upset \cup Overtaking(t)
  /\ todo' = [todo EXCEPT ![t] = Tail(@)]
  /\ Goto(t, IF Len(todo[t]) = 1 THEN "idle" ELSE "set")
  /\ \/ t = "admin" /\ listed' = FALSE /\ bucket' = "free"
     \/ t # "admin" /\ UNCHANGED listVars
  /\ UNCHANGED <<state, abend, timings, stopOp, gate, results, lock, opVars, pauseVars, sv, writer,
                 envVars, report>>

Stop(t) ==
  StopSet(t) \/ StopTake(t) \/ StopUnpause(t) \/ StopGate(t) \/ StopAdd(t) \/ StopSend(t) \/ StopSignal(t)

\* Somebody intervenes.
Intervene == acts < MaxStops /\ acts' = acts + 1

\* httpRequest.Expire, run by the timer: Error, which for an error of level
\* EXCEPTION is a Stop(FATAL), then Stop(TIMEOUT).
Expire ==
  /\ Intervene
  /\ timer = "set"
  /\ timer' = "off"
  /\ Begin("timer", <<"fatal", "timeout">>)
  /\ UNCHANGED <<reqVars, lock, opVars, pauseVars, listVars, sv, writer, gone, report, upset>>

\* A Delete that stops the request without the bucket's lock.
BugAdminDelete ==
  /\ Intervene
  /\ listed /\ bucket = "free" /\ th["admin"] = "idle"
  /\ Begin("admin", <<"stopped">>)
  /\ UNCHANGED <<reqVars, lock, opVars, pauseVars, listVars, sv, writer, timer, gone, report,
                 upset>>

\* activeHttpRequests.Delete with stop: Stop(STOPPED) under the bucket's lock.
AdminDelete ==
  /\ Intervene
  /\ listed /\ bucket = "free"
  /\ bucket' = "admin"
  /\ Begin("admin", <<"stopped">>)
  /\ UNCHANGED <<reqVars, lock, opVars, pauseVars, listed, sv, writer, timer, gone, report, upset>>

\* The client closes its connection.
ClientGone ==
  /\ Intervene
  /\ ~gone /\ sv \in {"queued", "build", "notify", "run", "prefix", "select"}
  /\ gone' = TRUE
  /\ UNCHANGED <<reqVars, stopVars, opVars, pauseVars, listVars, sv, writer, timer, report, upset>>

-----------------------------------------------------------------------------
(***************************************************************************)
(* The serving goroutine.                                                  *)
(***************************************************************************)

\* The goroutine is not inside a Stop of its own.
Serving(pc) == sv = pc /\ th["serv"] = "idle"

\* serviceRequest starts: Servicing sets the state without the mutex and without
\* looking at it.
Servicing ==
  /\ Serving("queued") /\ ~gone
  /\ state' = "running"
  /\ sv' = "build"
  /\ UNCHANGED <<abend, timings, stopOp, gate, stopExec, results, stopVars, opVars, pauseVars,
                 listVars, writer, envVars, report, upset>>

\* httpRequest.Fail: SetState(FATAL), then Error, which stops; Failed comes next.
\* The client is gone before or after the operator tree is built, or there is no
\* plan or no tree.
Fail ==
  /\ \/ Serving("queued") /\ gone /\ timings' = FALSE
     \/ Serving("build") /\ timings' = FALSE
     \/ Serving("build") /\ gone /\ timings' = TRUE
  /\ state' = SetState("fatal")
  /\ Begin("serv", <<"fatal">>)
  /\ sv' = "failed"
  /\ UNCHANGED <<abend, stopOp, gate, stopExec, results, lock, opVars, pauseVars, listVars, writer,
                 envVars, report, upset>>

\* httpRequest.Failed: the response, then Stop(FATAL).
Failed ==
  /\ Serving("failed")
  /\ report' = State
  /\ Begin("serv", <<"fatal">>)
  /\ sv' = "unlist"
  /\ UNCHANGED <<reqVars, lock, opVars, pauseVars, listVars, writer, envVars, upset>>

Step(from, to) ==
  /\ Serving(from)
  /\ sv' = to

\* The plan is prepared and the operator tree built.  After a last look at the
\* state and the client the timer is set, if the request has a timeout.
Build ==
  /\ timings' = TRUE
  /\ \/ State = "fatal" /\ Step("build", "failed") /\ UNCHANGED timer
     \/ State # "fatal" /\ ~gone /\ Step("build", "notify") /\ timer' \in {"none", "set"}
  /\ UNCHANGED <<state, abend, stopOp, gate, stopExec, results, stopVars, opVars, pauseVars,
                 listVars, writer, gone, acts, report, upset>>

NotifyStop ==
  /\ Step("notify", "run") /\ lock = "free"
  /\ stopOp' = TRUE
  /\ UNCHANGED <<state, abend, timings, gate, stopExec, results, stopVars, opVars, pauseVars,
                 listVars, writer, envVars, report, upset>>

\* operator.RunOnce, which does nothing to a tree that has been killed.
RunOnce ==
  /\ Step("run", "prefix")
  /\ op' = IF op = "none" THEN "run" ELSE op
  /\ UNCHANGED <<reqVars, stopVars, opStop, items, cut, pauseVars, listVars, writer, envVars,
                 report, upset>>

\* Execute: the prefix of the response, then bufferedWriter.releaseExternal.
Prefix ==
  /\ Step("prefix", "select")
  /\ writer' = [writer EXCEPT !.started = TRUE, !.waiter = FALSE]
  /\ op' = IF op = "start" THEN "woken" ELSE op
  /\ UNCHANGED <<reqVars, stopVars, opStop, items, cut, pauseVars, listVars, envVars, report,
                 upset>>

\* Execute's select, first case: all the results are out.
ExecResults ==
  /\ Step("select", "suffix")
  /\ results /\ results' = FALSE
  /\ Begin("serv", <<"completed">>)
  /\ UNCHANGED <<state, abend, timings, stopOp, gate, stopExec, lock, opVars, pauseVars, listVars,
                 writer, envVars, report, upset>>

\* ... second case: somebody stopped the request.
ExecStop ==
  /\ Step("select", IF State = "abend" THEN "suffix" ELSE "internal")
  /\ stopExec /\ stopExec' = FALSE
  /\ UNCHANGED <<state, abend, timings, stopOp, gate, results, stopVars, opVars, pauseVars,
                 listVars, writer, envVars, report, upset>>

\* ... third case: the client is gone.
ExecGone ==
  /\ Step("select", "internal")
  /\ gone
  /\ Begin("serv", <<"closed">>)
  /\ UNCHANGED <<reqVars, lock, opVars, pauseVars, listVars, writer, envVars, report, upset>>

\* A getInternal that does not wait for the operator's write to end.
BugGetInternal ==
  /\ Serving("internal") /\ sv' = "suffix"
  /\ writer' = [writer EXCEPT !.stopped = TRUE]
  /\ upset' = upset \cup (IF op = "woken" THEN {"wake"} ELSE {})
  /\ UNCHANGED <<reqVars, stopVars, opVars, pauseVars, listVars, envVars, report>>

\* bufferedWriter.getInternal: wait for the operator's write, once, and shut the
\* operator out.
getInternal ==
  /\ Serving("internal")
  /\ \/ writer.inUse /\ writer' = [writer EXCEPT !.waiter = TRUE] /\ sv' = "waitop"
     \/ ~writer.inUse /\ writer' = [writer EXCEPT !.stopped = TRUE] /\ sv' = "suffix"
  /\ upset' = upset \cup (IF op = "woken" THEN {"wake"} ELSE {})
  /\ UNCHANGED <<reqVars, stopVars, opVars, pauseVars, listVars, envVars, report>>

WokeInternal ==
  /\ Step("wokeop", "suffix")
  /\ writer' = [writer EXCEPT !.stopped = TRUE]
  /\ UNCHANGED <<reqVars, stopVars, opVars, pauseVars, listVars, envVars, report, upset>>

\* Execute's DoStatementComplete, which ends an implicit transaction, fails: Error.
StatementFails ==
  /\ Intervene
  /\ Serving("suffix")
  /\ Begin("serv", <<"fatal">>)
  /\ sv' = "undone"
  /\ UNCHANGED <<reqVars, lock, opVars, pauseVars, listVars, writer, timer, gone, report, upset>>

\* The suffix of the response, with the state as it is now.
Suffix ==
  /\ Step("suffix", "unlist") \/ Step("undone", "unlist")
  /\ report' = State
  /\ UNCHANGED <<reqVars, stopVars, opVars, pauseVars, listVars, writer, envVars, upset>>

\* ServeHTTP's deferred actives.Delete, which waits for the bucket's lock.
Unlist ==
  /\ Step("unlist", "stoptimer")
  /\ bucket = "free" /\ listed' = FALSE
  /\ UNCHANGED <<reqVars, stopVars, opVars, pauseVars, bucket, writer, envVars, report, upset>>

\* CompleteRequest: the timer is told to stop; an Expire already running goes on.
StopTimer ==
  /\ Step("stoptimer", IF timings THEN "gate" ELSE "pooled")
  /\ timer' = "off"
  /\ UNCHANGED <<reqVars, stopVars, opVars, pauseVars, listVars, writer, gone, acts, report, upset>>

\* CompleteRequest: stopGate.Wait.
CompleteGate ==
  /\ Step("gate", "add")
  /\ gate = 0
  /\ UNCHANGED <<reqVars, stopVars, opVars, pauseVars, listVars, writer, envVars, report, upset>>

\* ... stopGate.Add(1) and NotifyStop(nil).
CompleteAdd ==
  /\ Step("add", "done") /\ lock = "free"
  /\ gate' = gate + 1
  /\ stopOp' = FALSE
  /\ UNCHANGED <<state, abend, timings, stopExec, results, stopVars, opVars, pauseVars, listVars,
                 writer, envVars, report, upset>>

\* ... done, which kills a tree that has not started and waits for one that has;
\* the request goes back to the pool.
Done ==
  /\ Step("done", "pooled")
  /\ op \in {"none", "end"} /\ op' = "end"
  /\ gate' = gate - 1
  /\ timings' = FALSE
  /\ UNCHANGED <<state, abend, stopOp, stopExec, results, stopVars, opStop, items, cut, pauseVars,
                 listVars, writer, envVars, report, upset>>

Serve ==
  \/ Servicing \/ Fail \/ Failed \/ Build \/ NotifyStop \/ RunOnce
  \/ Prefix \/ ExecResults \/ ExecStop \/ ExecGone \/ getInternal \/ WokeInternal
  \/ StatementFails \/ Suffix
  \/ Unlist \/ StopTimer \/ CompleteGate \/ CompleteAdd \/ Done

-----------------------------------------------------------------------------
(***************************************************************************)
(* The operator tree: the producer of results and the Stream at its top.   *)
(***************************************************************************)

\* base.sendItem: checkPause comes first.
OpSend ==
  /\ op = "run" /\ ~opStop /\ items < MaxItems
  /\ op' = IF pauseAt THEN "paused" ELSE "get"
  /\ UNCHANGED <<reqVars, stopVars, opStop, items, cut, pauseVars, listVars, sv, writer, envVars,
                 report, upset>>

\* checkPause's pauseWg.Wait returns.
OpResume ==
  /\ op = "paused" /\ pauseWg = 0
  /\ op' = "get"
  /\ UNCHANGED <<reqVars, stopVars, opStop, items, cut, pauseVars, listVars, sv, writer, envVars,
                 report, upset>>

\* sendItemOp gives up if the operator has been stopped; Result begins with
\* bufferedWriter.getExternal, which gives up if the writer is no longer available
\* and waits, once, for the response's prefix.
getExternal ==
  /\ op = "get"
  /\ \/ /\ opStop \/ writer.stopped
        /\ op' = "close" /\ cut' = TRUE
        /\ UNCHANGED writer
     \/ /\ ~opStop /\ ~writer.stopped /\ ~writer.started
        /\ op' = "start" /\ writer' = [writer EXCEPT !.waiter = TRUE]
        /\ UNCHANGED cut
     \/ /\ ~opStop /\ ~writer.stopped /\ writer.started
        /\ op' = "write" /\ writer' = [writer EXCEPT !.inUse = TRUE]
        /\ UNCHANGED cut
  /\ UNCHANGED <<reqVars, stopVars, opStop, items, pauseVars, listVars, sv, envVars, report, upset>>

WokeExternal ==
  /\ op = "woken"
  /\ op' = "write"
  /\ writer' = [writer EXCEPT !.inUse = TRUE]
  /\ UNCHANGED <<reqVars, stopVars, opStop, items, cut, pauseVars, listVars, sv, envVars, report,
                 upset>>

\* A releaseInternal that wakes nobody.
BugReleaseInternal ==
  /\ writer' = [writer EXCEPT !.inUse = FALSE]
  /\ sv' = sv

\* bufferedWriter.releaseInternal
releaseInternal ==
  /\ writer' = [writer EXCEPT !.inUse = FALSE, !.waiter = FALSE]
  /\ sv' = IF sv = "waitop" THEN "wokeop" ELSE sv

\* Result: the value is written.
Result ==
  /\ op = "write"
  /\ releaseInternal
  /\ op' = "run" /\ items' = items + 1
  /\ UNCHANGED <<reqVars, stopVars, opStop, cut, pauseVars, listVars, envVars, report, upset>>

\* Result: the write or the flush fails.
ResultFails ==
  /\ op = "write" /\ lock = "free"
  /\ \E s \in {"closed", "fatal"} : state' = SetState(s)
  /\ releaseInternal
  /\ op' = "close" /\ cut' = TRUE
  /\ UNCHANGED <<abend, timings, stopOp, gate, stopExec, results, stopVars, opStop, items,
                 pauseVars, listVars, timer, gone, acts, report, upset>>

\* An operator, or Result for a value that is not valid JSON, calls Error with an
\* error of level EXCEPTION, or with one error too many: Stop(FATAL).
OpRaise ==
  /\ Intervene
  /\ op \in {"run", "write"}
  /\ op' = "raise"
  /\ Begin("oper", <<"fatal">>)
  /\ UNCHANGED <<reqVars, lock, opStop, items, cut, pauseVars, listVars, sv, writer, timer, gone,
                 report, upset>>

OpRaised ==
  /\ op = "raise" /\ th["oper"] = "idle"
  /\ IF writer.inUse THEN releaseInternal ELSE UNCHANGED <<writer, sv>>
  /\ op' = "close" /\ cut' = TRUE
  /\ UNCHANGED <<reqVars, stopVars, opStop, items, pauseVars, listVars, envVars, report, upset>>

\* The tree runs out of input, or finds that it has been stopped.
OpEnds ==
  /\ op = "run"
  /\ op' = "close" /\ cut' = opStop
  /\ UNCHANGED <<reqVars, stopVars, opStop, items, pauseVars, listVars, sv, writer, envVars, report,
                 upset>>

\* Stream.afterItems: CloseResults; the tree is done.
OpClose ==
  /\ op = "close"
  /\ op' = "end" /\ results' = TRUE
  /\ UNCHANGED <<state, abend, timings, stopOp, gate, stopExec, stopVars, opStop, items, cut,
                 pauseVars, listVars, sv, writer, envVars, report, upset>>

Operate ==
  \/ OpSend \/ OpResume \/ getExternal \/ WokeExternal \/ Result \/ ResultFails
  \/ OpRaise \/ OpRaised \/ OpEnds \/ OpClose

-----------------------------------------------------------------------------
(***************************************************************************)
(* The admission routine: controlActiveProcessing, over the active         *)
(* requests whose state is RUNNING.                                        *)
(***************************************************************************)

Pick(next) ==
  /\ ctl = "rest" /\ th["ctl"] = "idle"
  /\ listed /\ bucket = "free" /\ State = "running" /\ lock = "free"
  /\ ctl' = next

\* Little free memory: Context.Pause(true), which reads pauseStart first, under the
\* bucket's lock.
CtlPause ==
  /\ ~pauseAt /\ pauses < MaxPauses
  /\ Pick("add")
  /\ bucket' = "ctl" /\ pauses' = pauses + 1
  /\ UNCHANGED <<reqVars, stopVars, opVars, pauseAt, pauseWg, listed, sv, writer, envVars, report,
                 upset>>

CtlAdd ==
  /\ ctl = "add" /\ ctl' = "store"
  /\ pauseWg' = pauseWg + 1
  /\ UNCHANGED <<reqVars, stopVars, opVars, pauseAt, pauses, listVars, sv, writer, envVars, report,
                 upset>>

\* A pause that takes hold after the request has left RUNNING: those who stop it
\* may have been past their Pause(false), and the routine resumes RUNNING requests
\* only.
CtlStore ==
  /\ ctl = "store" /\ ctl' = "rest"
  /\ pauseAt' = TRUE
  /\ bucket' = "free"
  /\ upset' = upset \cup (IF State = "running" THEN {} ELSE {"late"})
  /\ UNCHANGED <<reqVars, stopVars, opVars, pauseWg, pauses, listed, sv, writer, envVars, report>>

\* Still little free memory, and everything is paused already: this request is the
\* largest.
CtlPick ==
  /\ Intervene
  /\ pauseAt
  /\ Pick("halt")
  /\ UNCHANGED <<reqVars, stopVars, opVars, pauseAt, pauseWg, pauses, listVars, sv, writer, timer,
                 gone, report, upset>>

\* httpRequest.Halt and, if the request is still running, Abort: Error, which stops,
\* and Stop(FATAL) again.
Halt ==
  /\ ctl = "halt" /\ ctl' = "rest"
  /\ \/ State = "running" /\ abend' = TRUE /\ Begin("ctl", <<"fatal", "fatal">>)
     \/ State # "running" /\ UNCHANGED <<abend, th, todo>>
  /\ UNCHANGED <<state, timings, stopOp, gate, stopExec, results, lock, opVars, pauseAt, pauseWg,
                 pauses, listVars, sv, writer, envVars, report, upset>>

\* Enough free memory: the request is picked to be resumed.
CtlResume ==
  /\ pauseAt
  /\ Pick("load")
  /\ UNCHANGED <<reqVars, stopVars, opVars, pauseAt, pauseWg, pauses, listVars, sv, writer, envVars,
                 report, upset>>

\* Context.Pause(false): the read of pauseStart ...
CtlLoad ==
  /\ ctl = "load" /\ ctl' = IF pauseAt THEN "swap" ELSE "rest"
  /\ UNCHANGED <<reqVars, stopVars, opVars, pauseAt, pauseWg, pauses, listVars, sv, writer, envVars,
                 report, upset>>

\* ... the swap and the Done.
CtlSwap ==
  /\ ctl = "swap" /\ ctl' = "rest"
  /\ Unpause
  /\ upset' = upset \cup Double(lock # "free")
  /\ UNCHANGED <<reqVars, stopVars, opVars, pauses, listVars, sv, writer, envVars, report>>

Control == CtlPause \/ CtlAdd \/ CtlStore \/ CtlPick \/ Halt \/ CtlResume \/ CtlLoad \/ CtlSwap

-----------------------------------------------------------------------------
Next ==
  \/ Serve \/ Operate \/ Control
  \/ \E t \in Stoppers : Stop(t)
  \/ Expire \/ AdminDelete \/ ClientGone

Spec == Init /\ [][Next]_vars

\* Every goroutine that can run does run, and the admission routine's ticker
\* fires.  The timer, the administrator and the client may never act.
FairSpec ==
  /\ Spec
  /\ WF_vars(Serve) /\ WF_vars(Operate) /\ WF_vars(Control)
  /\ \A t \in Stoppers : WF_vars(Stop(t))

-----------------------------------------------------------------------------
(***************************************************************************)
(* Properties.                                                             *)
(***************************************************************************)

\* A response says "completed" only if the operator tree sent everything it had:
\* no stop, refused result or failed write ended it before its time; and it never
\* says "running".  Not so for a request stopped while it waited for a servicer or
\* was being built, whose state Servicing overwrites (SetState, Execute).
HonestReport ==
  "early" \notin upset => report # "running" /\ (report = "completed" => ~cut)

\* The serving goroutine writes the end of the response only when the operator is
\* not writing a result (getExternal, getInternal).  Not so if the request was
\* aborted, when Execute does not wait; if the stop was lost or has not reached the
\* tree yet; or if the operator had been woken to write and had not run since.
WriterExclusive ==
  /\ sv \in {"suffix", "undone"} /\ th["serv"] = "idle"
  /\ ~abend /\ upset \cap {"early", "overtake", "wake"} = {}
  => ~writer.inUse

\* When the object goes back to the pool its tree has ended, and neither the
\* operator nor the administrator is still inside a Stop of it (CompleteRequest,
\* activeHttpRequests.Delete); and the state has its types.
PooledQuiet ==
  /\ TypeOK
  /\ sv = "pooled" => op \in {"none", "end"} /\ th["oper"] = "idle" /\ th["admin"] = "idle"

\* Every request comes to its end, and its servicer is free again, unless one of the
\* disturbances occurs: after "late" the tree may sleep for good, after "overtake"
\* it may wait for the stopGate that CompleteRequest holds while it waits for it.
RequestEnds == <>(sv = "pooled" \/ upset # {})

=============================================================================
