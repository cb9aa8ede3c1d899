---------------------------- MODULE SubqueryRun ----------------------------
(***************************************************************************)
(* Subqueries: operators evaluate a subquery by running an execution tree  *)
(* of its own, a Sequence of a pipeline and a Collect, and keep the trees  *)
(* they are done with in a cache of the request, to be reopened for the    *)
(* next evaluation (opContext.EvaluateSubquery, subqueryArrayMap, Sequence *)
(* and Collect).  Meanwhile the operator that evaluates can be sent a STOP *)
(* or a PAUSE, which it passes on to the tree it waits for, and at the end *)
(* of the request the cache is swept.                                      *)
(*                                                                         *)
(* The pipeline is one operator here; what it produces is abstracted to    *)
(* the evaluation it was run for, and to whether it ran to its end.        *)
(***************************************************************************)
EXTENDS Naturals, FiniteSets, OpState

CONSTANTS Evaluators,    \* operators that evaluate the subquery
          Senders,       \* STOP and PAUSE actions sent to them
          Trees,         \* execution trees: bounds how many are built
          MaxEvals       \* bounds the number of evaluations

ASSUME EvalsAssumption == MaxEvals \in Nat \ {0}

Sweeper == "sweeper"                  \* Context.done(), at the end of the request
Procs   == Evaluators \cup {Sweeper}
Bodies  == {"pipe", "collect"}        \* operators with a goroutine of their own
Ops     == Bodies \cup {"seq"}
Evals   == 1 .. MaxEvals
Nobody  == "nobody"
NoTree  == "none"

ASSUME NamesAssumption == Sweeper \notin Evaluators /\ Nobody \notin Evaluators /\ NoTree \notin Trees

VARIABLES
  st,         \* opState of each operator of each tree
  stop,       \* sendStop() was called on its exchange
  stopped,    \* it noticed
  once,       \* its body was started since it was last opened
  run,        \* where the goroutine of a body is, by the evaluation that forked it
  pipeClosed, \* the pipeline closed its exchange
  inactiveFlag, \* and that its inactive() was called since it was last opened
  whole,      \* the evaluation that the pipeline ran to its natural end for
  got,        \* the evaluation whose whole result Collect has, or 0
  built,      \* trees built so far
  cache,      \* subqueryArrayMap.entries
  swept,      \* subqueryArrayMap.closed
  pc,         \* evaluators and the sweeper
  at,         \* the tree and the operator they are at
  sleep,      \* "no", "asleep" in a Cond.Wait(), "woken" from it
  eval,       \* the evaluation an evaluator is in
  left,       \* the trees the sweeper has yet to dispose of
  snd,        \* where a sender is, in whose callback, and what it sends
  evals,      \* evaluations begun
  cur,        \* history: the evaluation a tree was last run for
  refused,    \* history: the Sequence of the current evaluation did not start
  told,       \* history: a STOP or PAUSE reached the current evaluation
  overtaken,  \* history: a Broadcast of an earlier evaluation woke somebody
  outlived    \* history: the pipeline was reopened ahead of the inactive() of an
              \* earlier evaluation

resultVars == <<pipeClosed, inactiveFlag, whole, got>>
opVars   == <<st, stop, stopped, once, resultVars>>
treeVars == <<opVars, run, built>>
procVars == <<pc, at, sleep, eval>>
histVars == <<cur, refused, told, overtaken, outlived>>
vars     == <<treeVars, cache, swept, procVars, left, snd, evals, histVars>>

Init ==
  /\ st = [t \in Trees |-> [o \in Ops |-> "CREATED"]]
  /\ stop = [t \in Trees |-> [o \in Ops |-> FALSE]]
  /\ stopped = [t \in Trees |-> [o \in Ops |-> FALSE]]
  /\ once = [t \in Trees |-> [o \in Ops |-> FALSE]]
  /\ run = [t \in Trees |-> [o \in Bodies |-> [n \in Evals |-> "none"]]]
  /\ pipeClosed = [t \in Trees |-> FALSE] /\ inactiveFlag = [t \in Trees |-> FALSE]
  /\ whole = [t \in Trees |-> 0] /\ got = [t \in Trees |-> 0]
  /\ built = {} /\ cache = {} /\ swept = FALSE
  /\ pc = [p \in Procs |-> "idle"]
  /\ at = [p \in Procs |-> <<NoTree, "seq">>]
  /\ sleep = [p \in Procs |-> "no"]
  /\ eval = [e \in Evaluators |-> 0]
  /\ left = {}
  /\ snd = [s \in Senders |-> [op |-> "ready", to |-> Nobody, action |-> "STOP"]]
  /\ evals = 0
  /\ cur = [t \in Trees |-> 0]
  /\ refused = [e \in Evaluators |-> FALSE] /\ told = [e \in Evaluators |-> FALSE]
  /\ overtaken = FALSE /\ outlived = FALSE

----------------------------------------------------------------------------
(* What every part does to an operator.                                    *)

\* baseSendAction(), on an operator of a tree.
Act(t, o, a) ==
  IF stopped[t][o] /\ ~ShortcutFallsThrough(st[t][o], a)
  THEN UNCHANGED <<st, stop>>
  ELSE /\ st' = [st EXCEPT ![t][o] = ActionNext(@, a)]
       /\ stop' = [stop EXCEPT ![t][o] = @ \/ ActionSendsStop(st[t][o])]

\* The sleepers on an operator wake up when somebody broadcasts, for whatever
\* reason; n is the evaluation the broadcast is about.
Asleep(t, o) == {p \in Procs : sleep[p] = "asleep" /\ at[p] = <<t, o>>}

Broadcast(t, o, n) ==
  /\ sleep' = [p \in Procs |-> IF p \in Asleep(t, o) THEN "woken" ELSE sleep[p]]
  /\ overtaken' = (overtaken \/ (n # cur[t] /\ Asleep(t, o) # {}))

----------------------------------------------------------------------------
(* The goroutines of a tree: n is the evaluation that forked them.         *)

Goto(t, o, n, where) == run' = [run EXCEPT ![t][o][n] = where]

\* runConsumer() of Collect: once.Do(), active(), and the pipeline is forked.
CollectStart(t, n) ==
  /\ run[t]["collect"][n] = "forked"
  /\ once' = [once EXCEPT ![t]["collect"] = TRUE]
  /\ IF once[t]["collect"]
     THEN Goto(t, "collect", n, "none") /\ UNCHANGED st
     ELSE /\ st' = [st EXCEPT ![t]["collect"] = ActiveNext(@)]
          /\ IF st[t]["collect"] = "CREATED"
             THEN run' = [run EXCEPT ![t]["collect"][n] = "body", ![t]["pipe"][n] = "forked"]
             ELSE Goto(t, "collect", n, "notifyStop")
  /\ UNCHANGED <<stop, stopped, resultVars, built, cache, swept, procVars, left, snd, evals,
                 histVars>>

\* getItem(): a stop comes before anything that is queued; the end of the
\* pipeline after all of it.
CollectStopped(t, n) ==
  /\ run[t]["collect"][n] = "body" /\ stop[t]["collect"]
  /\ stopped' = [stopped EXCEPT ![t]["collect"] = TRUE]
  /\ Goto(t, "collect", n, "notifyStop")
  /\ UNCHANGED <<st, stop, once, resultVars, built, cache, swept, procVars, left, snd,
                 evals, histVars>>

CollectEnds(t, n) ==
  /\ run[t]["collect"][n] = "body" /\ ~stop[t]["collect"] /\ pipeClosed[t]
  /\ got' = [got EXCEPT ![t] = whole[t]]
  /\ Goto(t, "collect", n, "notifyStop")
  /\ UNCHANGED <<st, stop, stopped, once, pipeClosed, inactiveFlag, whole, built, cache,
                 swept, procVars, left, snd, evals, histVars>>

\* notifyStop1(): the state is read in one critical section ...
CollectNotifyStop(t, n) ==
  /\ run[t]["collect"][n] = "notifyStop"
  /\ Goto(t, "collect", n, IF st[t]["collect"] \in {"RUNNING", "COMPLETED"} THEN "PAUSE" ELSE "STOP")
  /\ UNCHANGED <<opVars, built, cache, swept, procVars, left, snd, evals, histVars>>

\* ... and the action is sent in another.
CollectSendStop(t, n) ==
  /\ run[t]["collect"][n] \in Actions
  /\ Act(t, "pipe", run[t]["collect"][n])
  /\ Goto(t, "collect", n, "notify")
  /\ UNCHANGED <<stopped, once, resultVars, built, cache, swept, procVars, left, snd, evals,
                 histVars>>

\* notify(): the Sequence is told, and as this was its last child it closes.
CollectNotify(t, n) ==
  /\ run[t]["collect"][n] = "notify"
  /\ st' = [st EXCEPT ![t]["seq"] = InactiveNext(@)]
  /\ Goto(t, "collect", n, "seqBroadcast")
  /\ UNCHANGED <<stop, stopped, once, resultVars, built, cache, swept, procVars, left, snd,
                 evals, histVars>>

SeqBroadcast(t, n) ==
  /\ run[t]["collect"][n] = "seqBroadcast"
  /\ Broadcast(t, "seq", n)
  /\ Goto(t, "collect", n, "inactive")
  /\ UNCHANGED <<opVars, built, cache, swept, pc, at, eval, left, snd, evals, cur, refused,
                 told, outlived>>

\* RunOnce() of the pipeline.
PipeStart(t, n) ==
  /\ run[t]["pipe"][n] = "forked"
  /\ once' = [once EXCEPT ![t]["pipe"] = TRUE]
  /\ IF once[t]["pipe"]
     THEN Goto(t, "pipe", n, "none") /\ UNCHANGED st
     ELSE /\ st' = [st EXCEPT ![t]["pipe"] = ActiveNext(@)]
          /\ Goto(t, "pipe", n, IF st[t]["pipe"] = "CREATED" THEN "body" ELSE "close")
  /\ UNCHANGED <<stop, stopped, resultVars, built, cache, swept, procVars, left, snd, evals,
                 histVars>>

PipeStopped(t, n) ==
  /\ run[t]["pipe"][n] = "body" /\ stop[t]["pipe"]
  /\ stopped' = [stopped EXCEPT ![t]["pipe"] = TRUE]
  /\ Goto(t, "pipe", n, "close")
  /\ UNCHANGED <<st, stop, once, resultVars, built, cache, swept, procVars, left, snd,
                 evals, histVars>>

PipeEnds(t, n) ==
  /\ run[t]["pipe"][n] = "body" /\ ~stop[t]["pipe"]
  /\ whole' = [whole EXCEPT ![t] = n]
  /\ Goto(t, "pipe", n, "close")
  /\ UNCHANGED <<st, stop, stopped, once, pipeClosed, inactiveFlag, got, built, cache,
                 swept, procVars, left, snd, evals, histVars>>

\* close(): nothing, if inactive() was called already; or else the exchange, then
\* inactive(), then the broadcast.
PipeClose(t, n) ==
  /\ run[t]["pipe"][n] = "close"
  /\ IF inactiveFlag[t]
     THEN Goto(t, "pipe", n, "none") /\ UNCHANGED pipeClosed
     ELSE pipeClosed' = [pipeClosed EXCEPT ![t] = TRUE] /\ Goto(t, "pipe", n, "inactive")
  /\ UNCHANGED <<st, stop, stopped, once, inactiveFlag, whole, got, built, cache, swept,
                 procVars, left, snd, evals, histVars>>

Inactive(t, o, n) ==
  /\ run[t][o][n] = "inactive"
  /\ st' = [st EXCEPT ![t][o] = InactiveNext(@)]
  /\ inactiveFlag' = [inactiveFlag EXCEPT ![t] = @ \/ o = "pipe"]
  /\ Goto(t, o, n, "broadcast")
  /\ UNCHANGED <<stop, stopped, once, pipeClosed, whole, got, built, cache, swept, procVars,
                 left, snd, evals, histVars>>

\* Mutant: only an operator that terminates normally wakes its waiters.
BugBodyBroadcast(t, o, n) ==
  /\ run[t][o][n] = "broadcast"
  /\ IF st[t][o] = "COMPLETED" THEN Broadcast(t, o, n) ELSE UNCHANGED <<sleep, overtaken>>
  /\ Goto(t, o, n, "none")
  /\ UNCHANGED <<opVars, built, cache, swept, pc, at, eval, left, snd, evals, cur, refused,
                 told, outlived>>

BodyBroadcast(t, o, n) ==
  /\ run[t][o][n] = "broadcast"
  /\ Broadcast(t, o, n)
  /\ Goto(t, o, n, "none")
  /\ UNCHANGED <<opVars, built, cache, swept, pc, at, eval, left, snd, evals, cur, refused,
                 told, outlived>>

CollectStep(t, n) ==
  \/ CollectStart(t, n) \/ CollectStopped(t, n) \/ CollectEnds(t, n)
  \/ CollectNotifyStop(t, n) \/ CollectSendStop(t, n) \/ CollectNotify(t, n)
  \/ SeqBroadcast(t, n) \/ Inactive(t, "collect", n) \/ BodyBroadcast(t, "collect", n)

PipeStep(t, n) ==
  \/ PipeStart(t, n) \/ PipeStopped(t, n) \/ PipeEnds(t, n) \/ PipeClose(t, n)
  \/ Inactive(t, "pipe", n) \/ BodyBroadcast(t, "pipe", n)

----------------------------------------------------------------------------
(* EvaluateSubquery().                                                     *)

Step(p, where, tree, op) ==
  /\ pc' = [pc EXCEPT ![p] = where]
  /\ at' = [at EXCEPT ![p] = <<tree, op>>]
  /\ sleep' = [sleep EXCEPT ![p] = "no"]

Sleep(p) == sleep' = [sleep EXCEPT ![p] = "asleep"] /\ UNCHANGED <<pc, at>>

Reusable == {t \in cache : st[t]["collect"] \in {"PAUSED", "COMPLETED"}}


\* subqueryArrayMap.get(): a tree that can be reopened leaves the cache.
Begin(e) ==
  /\ pc[e] = "idle" /\ evals < MaxEvals
  /\ evals' = evals + 1
  /\ eval' = [eval EXCEPT ![e] = evals + 1]
  /\ refused' = [refused EXCEPT ![e] = FALSE] /\ told' = [told EXCEPT ![e] = FALSE]
  /\ IF ~swept /\ Reusable # {}
     THEN \E t \in Reusable : Step(e, "reopen", t, "seq") /\ cache' = cache \ {t}
     ELSE Step(e, "build", NoTree, "seq") /\ UNCHANGED cache
  /\ UNCHANGED <<treeVars, swept, left, snd, cur, overtaken, outlived>>

\* Build(), NewCollect() and NewSequence().
Build(e) ==
  /\ pc[e] = "build"
  /\ \E t \in Trees \ built : built' = built \cup {t} /\ Step(e, "park", t, "seq")
  /\ UNCHANGED <<opVars, run, cache, swept, eval, left, snd, evals, histVars>>

\* The state baseReopen() leaves an operator in.
Reopened(t, o) ==
  /\ st' = [st EXCEPT ![t][o] = "CREATED"]
  /\ stop' = [stop EXCEPT ![t][o] = FALSE]
  /\ stopped' = [stopped EXCEPT ![t][o] = FALSE]
  /\ once' = [once EXCEPT ![t][o] = FALSE]
  /\ pipeClosed' = [pipeClosed EXCEPT ![t] = @ /\ o # "pipe"]
  /\ inactiveFlag' = [inactiveFlag EXCEPT ![t] = @ /\ o # "pipe"]
  /\ whole' = [whole EXCEPT ![t] = IF o = "pipe" THEN 0 ELSE @]
  /\ got' = [got EXCEPT ![t] = IF o = "collect" THEN 0 ELSE @]
  /\ outlived' = (outlived \/ (o = "pipe" /\ \E n \in Evals : run[t][o][n] = "inactive"))

\* Sequence.reopen(): the Sequence, the pipeline, Collect.  A tree that cannot be
\* reopened is disposed of.
Reopen(e) ==
  LET t == at[e][1]  o == at[e][2] IN
  /\ pc[e] = "reopen" /\ sleep[e] # "asleep"
  /\ \/ sleep[e] = "no" /\ ReopenMustWait(st[t][o]) /\ Sleep(e) /\ UNCHANGED <<opVars, outlived>>
     \/ /\ sleep[e] = "woken" \/ ~ReopenMustWait(st[t][o])
        /\ ReopenFails(st[t][o])
        /\ Step(e, "done", t, "seq") /\ UNCHANGED <<opVars, outlived>>
     \/ /\ sleep[e] = "woken" \/ ~ReopenMustWait(st[t][o])
        /\ ~ReopenFails(st[t][o])
        /\ Reopened(t, o)
        /\ CASE o = "seq"     -> Step(e, "reopen", t, "pipe")
             [] o = "pipe"    -> Step(e, "reopen", t, "collect")
             [] o = "collect" -> Step(e, "park", t, "seq")
  /\ UNCHANGED <<run, built, cache, swept, eval, left, snd, evals, cur, refused, told,
                 overtaken>>

\* Park() takes the write lock that senders hold for reading.
Calling(e) == \E s \in Senders : snd[s].to = e /\ snd[s].op \in Ops

Park(e) ==
  /\ pc[e] = "park" /\ ~Calling(e)
  /\ Step(e, "run", at[e][1], "seq")
  /\ cur' = [cur EXCEPT ![at[e][1]] = eval[e]]
  /\ UNCHANGED <<treeVars, cache, swept, eval, left, snd, evals, refused, told, overtaken,
                 outlived>>

\* Sequence.RunOnce(): forks Collect, or closes at once if it may not start.
RunOnce(e) ==
  LET t == at[e][1] IN
  /\ pc[e] = "run"
  /\ once' = [once EXCEPT ![t]["seq"] = TRUE]
  /\ \/ /\ st[t]["seq"] = "CREATED"
        /\ st' = [st EXCEPT ![t]["seq"] = ActiveNext(@)]
        /\ run' = [run EXCEPT ![t]["collect"][eval[e]] = "forked"]
        /\ Step(e, "wait", t, "collect")
        /\ UNCHANGED refused
     \/ /\ st[t]["seq"] # "CREATED"
        /\ st' = [st EXCEPT ![t]["seq"] = InactiveNext(@)]
        /\ refused' = [refused EXCEPT ![e] = TRUE]
        /\ Step(e, "failed", t, "seq")
        /\ UNCHANGED run
  /\ UNCHANGED <<stop, stopped, resultVars, built, cache, swept, eval, left, snd, evals,
                 cur, told, overtaken, outlived>>

\* The Broadcast at the end of fail(): the tree is nobody else's.
Failed(e) ==
  /\ pc[e] = "failed"
  /\ Step(e, "wait", at[e][1], "collect")
  /\ UNCHANGED <<treeVars, cache, swept, eval, left, snd, evals, histVars>>

\* Mutant: what has not started is not waited for.
BugAwait(e) ==
  LET t == at[e][1] IN
  /\ pc[e] = "wait" /\ sleep[e] # "asleep"
  /\ \/ sleep[e] = "no" /\ st[t]["collect"] \in Operating /\ Sleep(e) /\ UNCHANGED st
     \/ /\ sleep[e] = "no" /\ st[t]["collect"] \notin Operating
        /\ Step(e, "resume", t, "collect") /\ UNCHANGED st
     \/ /\ sleep[e] = "woken"
        /\ st' = [st EXCEPT ![t]["collect"] = CompleteNext(@)]
        /\ Step(e, "resume", t, "collect")
  /\ UNCHANGED <<stop, stopped, once, resultVars, run, built, cache, swept, eval, left, snd,
                 evals, histVars>>

\* waitComplete(): one Wait, and nothing is tested again after it.
Await(e) ==
  LET t == at[e][1] IN
  /\ pc[e] = "wait" /\ sleep[e] # "asleep"
  /\ \/ sleep[e] = "no" /\ CompleteMustWait(st[t]["collect"]) /\ Sleep(e) /\ UNCHANGED st
     \/ /\ sleep[e] = "no" /\ ~CompleteMustWait(st[t]["collect"])
        /\ Step(e, "resume", t, "collect") /\ UNCHANGED st
     \/ /\ sleep[e] = "woken"
        /\ st' = [st EXCEPT ![t]["collect"] = CompleteNext(@)]
        /\ Step(e, "resume", t, "collect")
  /\ UNCHANGED <<stop, stopped, once, resultVars, run, built, cache, swept, eval, left, snd,
                 evals, histVars>>

\* Resume() waits for the senders that are in the callback.
Resume(e) ==
  /\ pc[e] = "resume" /\ ~Calling(e)
  /\ Step(e, "store", at[e][1], "collect")
  /\ UNCHANGED <<treeVars, cache, swept, eval, left, snd, evals, histVars>>

\* The result is taken.
Reusing(t) == st' = [st EXCEPT ![t]["collect"] = IF @ = "DONE" THEN "COMPLETED" ELSE @]

\* Mutant: a tree goes to the cache although the cache was swept.
BugStore(e) ==
  /\ pc[e] = "store"
  /\ Reusing(at[e][1])
  /\ cache' = cache \cup {at[e][1]} /\ Step(e, "idle", NoTree, "seq")
  /\ UNCHANGED <<stop, stopped, once, resultVars, run, built, swept, eval, left, snd, evals,
                 histVars>>

\* ValuesOnce(), and subqueryArrayMap.set().
Store(e) ==
  LET t == at[e][1] IN
  /\ pc[e] = "store"
  /\ Reusing(t)
  /\ IF swept
     THEN Step(e, "drop", t, "seq") /\ UNCHANGED cache
     ELSE cache' = cache \cup {t} /\ Step(e, "idle", NoTree, "seq")
  /\ UNCHANGED <<stop, stopped, once, resultVars, run, built, swept, eval, left, snd, evals,
                 histVars>>

----------------------------------------------------------------------------
(* Sequence.Done(), by an evaluator or by the sweeper: the Sequence, then  *)
(* the children, the last one first.  By the time Done() gets to a LATE    *)
(* child nobody is left to be notified by it.                              *)

DoneNext(p, t, o) ==
  CASE o = "seq"     -> Step(p, pc[p], t, "collect") /\ UNCHANGED left
    [] o = "collect" -> Step(p, pc[p], t, "pipe") /\ UNCHANGED left
    [] o = "pipe"    -> /\ Step(p, IF p = Sweeper THEN "sweep"
                                   ELSE IF pc[p] = "done" THEN "build" ELSE "idle", NoTree, "seq")
                        /\ left' = IF p = Sweeper THEN left \ {t} ELSE left

Done(p) ==
  LET t == at[p][1]  o == at[p][2] IN
  /\ pc[p] \in {"done", "drop"} /\ sleep[p] # "asleep"
  /\ \/ sleep[p] = "no" /\ DoneMustWait(st[t][o]) /\ Sleep(p) /\ UNCHANGED <<st, left>>
     \/ /\ sleep[p] = "woken" \/ ~DoneMustWait(st[t][o])
        /\ st' = [st EXCEPT ![t][o] = DoneSecond(DoneFirst(@))]
        /\ DoneNext(p, t, o)
  /\ UNCHANGED <<stop, stopped, once, resultVars, run, built, cache, swept, eval, snd,
                 evals, histVars>>

\* Context.done(): the cache is emptied and closed in one critical section.
Sweep ==
  /\ pc[Sweeper] = "idle" /\ ~swept
  /\ swept' = TRUE /\ cache' = {} /\ left' = cache
  /\ Step(Sweeper, "sweep", NoTree, "seq")
  /\ UNCHANGED <<treeVars, eval, snd, evals, histVars>>

SweepNext ==
  /\ pc[Sweeper] = "sweep" /\ left # {}
  /\ \E t \in left : Step(Sweeper, "done", t, "seq")
  /\ UNCHANGED <<treeVars, cache, swept, eval, left, snd, evals, histVars>>

SweepEnd ==
  /\ pc[Sweeper] = "sweep" /\ left = {}
  /\ Step(Sweeper, "end", NoTree, "seq")
  /\ UNCHANGED <<treeVars, cache, swept, eval, left, snd, evals, histVars>>

----------------------------------------------------------------------------
(* The callback given to Park(): Sequence.SendAction(), the Sequence and   *)
(* then its children, under the read lock.                                 *)

SendBegin(s) ==
  /\ snd[s].op = "ready"
  /\ \E e \in Evaluators, a \in Actions :
       /\ pc[e] \in {"run", "failed", "wait", "resume"}
       /\ snd' = [snd EXCEPT ![s] = [op |-> "seq", to |-> e, action |-> a]]
       /\ told' = [told EXCEPT ![e] = TRUE]
  /\ UNCHANGED <<treeVars, cache, swept, procVars, left, evals, cur, refused, overtaken,
                 outlived>>

Send(s) ==
  LET e == snd[s].to IN
  /\ snd[s].op \in Ops
  /\ Act(at[e][1], snd[s].op, snd[s].action)
  /\ snd' = [snd EXCEPT ![s].op = CASE @ = "seq"     -> "pipe"
                                    [] @ = "pipe"    -> "collect"
                                    [] @ = "collect" -> "sent"]
  /\ UNCHANGED <<stopped, once, resultVars, run, built, cache, swept, procVars, left, evals,
                 histVars>>

----------------------------------------------------------------------------

EvaluatorStep(e) ==
  Build(e) \/ Reopen(e) \/ Park(e) \/ RunOnce(e) \/ Failed(e) \/ Await(e) \/ Resume(e)
  \/ Store(e) \/ Done(e)

SweeperStep == Done(Sweeper) \/ SweepNext \/ SweepEnd

Next ==
  \/ \E t \in Trees, n \in Evals : CollectStep(t, n) \/ PipeStep(t, n)
  \/ \E e \in Evaluators : Begin(e) \/ EvaluatorStep(e)
  \/ Sweep \/ SweeperStep
  \/ \E s \in Senders : SendBegin(s) \/ Send(s)

Spec == Init /\ [][Next]_vars

\* Whatever can go on does; nobody has to begin an evaluation, to send an
\* action or to end the request.
FairSpec ==
  /\ Spec
  /\ \A t \in Trees, n \in Evals : WF_vars(CollectStep(t, n)) /\ WF_vars(PipeStep(t, n))
  /\ \A e \in Evaluators : WF_vars(EvaluatorStep(e))
  /\ \A s \in Senders : WF_vars(Send(s))
  /\ WF_vars(SweeperStep)

----------------------------------------------------------------------------
(* Properties.                                                             *)

Waits == {"no", "asleep", "woken"}
Places == {"idle", "reopen", "build", "park", "run", "failed", "wait", "resume", "store",
           "done", "drop", "sweep", "end"}
Wheres == {"none", "forked", "body", "notifyStop", "STOP", "PAUSE", "notify", "seqBroadcast",
           "close", "inactive", "broadcast"}

\* Types of the trees, the goroutines that run them and those that wait.
TypeOK ==
  /\ st \in [Trees -> [Ops -> OpStates]]
  /\ stop \in [Trees -> [Ops -> BOOLEAN]] /\ stopped \in [Trees -> [Ops -> BOOLEAN]]
  /\ once \in [Trees -> [Ops -> BOOLEAN]]
  /\ run \in [Trees -> [Bodies -> [Evals -> Wheres]]]
  /\ pipeClosed \in [Trees -> BOOLEAN] /\ inactiveFlag \in [Trees -> BOOLEAN]
  /\ whole \in [Trees -> 0 .. MaxEvals] /\ got \in [Trees -> 0 .. MaxEvals]
  /\ built \subseteq Trees /\ cache \subseteq built /\ left \subseteq built /\ swept \in BOOLEAN
  /\ pc \in [Procs -> Places] /\ at \in [Procs -> (Trees \cup {NoTree}) \X Ops]
  /\ sleep \in [Procs -> Waits]
  /\ eval \in [Evaluators -> 0 .. MaxEvals] /\ evals \in 0 .. MaxEvals
  /\ cur \in [Trees -> 0 .. MaxEvals]
  /\ refused \in [Evaluators -> BOOLEAN] /\ told \in [Evaluators -> BOOLEAN]
  /\ overtaken \in BOOLEAN /\ outlived \in BOOLEAN
  /\ snd \in [Senders -> [op : Ops \cup {"ready", "sent"}, to : Evaluators \cup {Nobody},
                           action : Actions]]

\* "Await completion" (EvaluateSubquery): an evaluation that nobody stopped ends
\* up with everything that the pipeline, run for that evaluation and for no
\* earlier one, produces.
ResultsComplete ==
  \A e \in Evaluators : pc[e] = "store" /\ ~told[e] => got[at[e][1]] = eval[e]

\* The same, as long as no Broadcast that an earlier evaluation still owed has
\* woken anybody, and no inactive() that it still owed comes to a pipeline that was
\* PAUSED and has been reopened.
PromptResults == overtaken \/ outlived \/ ResultsComplete


\* MB-71026: no tree is orphaned by an evaluation that ends after the cache has
\* been swept.  Once the sweeper and the evaluators are through, each operator
\* of each tree has been disposed of.
NoOrphan ==
  (pc[Sweeper] = "end" /\ \A e \in Evaluators : pc[e] = "idle")
    => \A t \in built, o \in Ops : overtaken \/ st[t][o] \in Disposed

\* An evaluator that waits for Collect is woken.
EvaluationReturns == \A e \in Evaluators : (pc[e] = "wait") ~> (pc[e] # "wait")

\* It is woken if the Sequence got to start, whatever is sent to the tree
\* afterwards.
StartedReturns ==
  \A e \in Evaluators : (pc[e] = "wait" /\ ~refused[e]) ~> (pc[e] # "wait" \/ outlived)

\* A tree taken from the cache never holds its evaluator up: what baseReopen()
\* waits for, an operator still running or one that may yet start, ends.
ReopenReturns == \A e \in Evaluators : (pc[e] = "reopen") ~> (pc[e] # "reopen" \/ outlived)

\* The end of the request is not held up by trees in the cache.
SweepReturns == (pc[Sweeper] = "sweep") ~> (pc[Sweeper] = "end" \/ outlived)

\* Nobody waits for ever on a tree whose Sequence got to start: neither the
\* evaluator that runs it, nor the one that reopens it, nor the sweeper.  Not so
\* for a pipeline reopened ahead of the inactive() of its earlier run, which then
\* takes itself for closed (close(), inactiveFlag).
NobodyHeldUp == StartedReturns /\ ReopenReturns /\ SweepReturns

=============================================================================
