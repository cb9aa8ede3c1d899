------------------------- MODULE RequestLifeProofs -------------------------
(***************************************************************************)
(* What holds of a request whatever the bounds on its pauses, on the acts  *)
(* against it and on its results: its types, what its response says, that  *)
(* two writers do not meet, and that a pooled request is left alone.       *)
(***************************************************************************)
EXTENDS RequestLife, TLAPS

----------------------------------------------------------------------------
(* The invariant.                                                          *)

\* Before there is a stopOperator, and from then to the end of the response.
Unbuilt == {"queued", "build", "notify"}
Running == {"run", "prefix", "select", "internal", "waitop", "wokeop", "suffix", "undone"}

\* After the serving goroutine deleted the request from the active ones.
Leaving == {"stoptimer", "gate", "add", "done", "pooled"}

\* Inside a Stop that has set the state; with the operator that it is to stop.
Inside  == {"take", "unpause", "gate", "add", "send", "signal"}
Sending == {"gate", "add", "send"}

\* Which states a thread stops with, and when it may.
Plans ==
  /\ th["serv"] # "idle" =>
       \/ sv = "internal" /\ todo["serv"] = <<"closed">>
       \/ sv = "suffix" /\ todo["serv"] = <<"completed">>
       \/ sv \in {"failed", "undone", "unlist"} /\ todo["serv"] = <<"fatal">>
  /\ th["oper"] # "idle" => op = "raise" /\ todo["oper"] = <<"fatal">>
  /\ th["timer"] # "idle" => timer = "off" /\ todo["timer"] \in {<<"fatal", "timeout">>, <<"timeout">>}
  /\ th["admin"] # "idle" => todo["admin"] = <<"stopped">>
  /\ th["ctl"] # "idle" => ctl = "rest" /\ todo["ctl"] \in {<<"fatal", "fatal">>, <<"fatal">>}
  /\ sv \in {"queued", "build"} => timer = "none"

\* Who holds the mutex of the request and the lock of its bucket; an entry that
\* the serving goroutine has deleted is not found again.
Locks ==
  /\ \A t \in Stoppers : th[t] = "unpause" <=> lock = t
  /\ bucket = "admin" <=> th["admin"] # "idle"
  /\ bucket = "ctl" <=> ctl \in {"add", "store"}
  /\ sv \in Leaving => ~ listed /\ bucket # "admin"

\* pauseWg counts the pause in force, as long as no two threads end the same one.
Pausing ==
  /\ ctl \in {"add", "store"} => ~ pauseAt
  /\ "double" \notin upset =>
       /\ lock # "free" \/ ctl = "swap" => pauseAt
       /\ pauseWg = IF pauseAt \/ ctl = "store" THEN 1 ELSE 0

\* One thread at most has the operator, once it was there to be taken.
Gating ==
  /\ \A t, u \in Stoppers : th[t] \in Sending /\ th[u] \in Sending => t = u
  /\ stopOp \/ sv \in Unbuilt => \A t \in Stoppers : th[t] \notin Sending
  /\ sv \in Unbuilt => ~ stopOp
  /\ gate = (IF \E t \in Stoppers : th[t] = "send" THEN 1 ELSE 0) + (IF sv = "done" THEN 1 ELSE 0)

\* There is nothing to stop before the operator tree is built and made known, nor if
\* it never is; and no tree is at work before it is run, or when the request is pooled.
Treeless == sv \in Unbuilt \/ (~ timings /\ sv # "pooled")

Bare ==
  /\ Treeless => ~ stopOp /\ op = "none" /\ \A t \in Stoppers : th[t] \notin Sending
  /\ ~ timings => sv \in {"queued", "build", "failed", "unlist", "stoptimer", "pooled"}
  /\ sv \in {"run", "pooled"} => op \in {"none", "end"}

\* What the operator tree has in hand.
Tree ==
  /\ results => op = "end"
  /\ op = "write" => writer.inUse
  /\ writer.inUse => op \in {"write", "raise"}
  /\ op = "start" => ~ writer.started
  /\ writer.stopped => writer.started
  /\ sv \in Running \ {"run", "prefix"} => writer.started
  /\ op \in {"paused", "get", "start", "woken", "write"} => items < MaxItems
  /\ cut => op \in {"close", "end"}

\* The request has been given a reason to end other than that it completed.
Causes  == Stopped \cup {"fatal"}
Settled == state \in Causes

\* Whoever is past the SetState of a Stop has left such a reason behind, but for the
\* serving goroutine when all the results are out.
Caused ==
  /\ \A t \in Stoppers \ {"serv"} : th[t] \in Inside => sv \notin Unbuilt /\ Settled
  /\ th["serv"] \in Inside => Settled \/ (state = "completed" /\ op = "end")
  /\ sv \in {"internal", "waitop", "wokeop"} /\ th["serv"] # "set" => Settled
  /\ op = "raise" /\ th["oper"] # "set" => Settled

\* What a Stop brings about is brought about for such a reason.
Effects ==
  /\ sv \in Unbuilt => ~ opStop /\ ~ stopExec /\ ~ writer.stopped
  /\ opStop => Settled \/ op = "end"
  /\ cut => Settled
  /\ stopExec /\ sv \in {"run", "prefix", "select"} => Settled
  /\ writer.stopped => Settled

\* The state of a request whose response is to be ended.
Ended ==
  /\ state = "completed" => op = "end"
  /\ sv = "failed" => state = "fatal"
  /\ sv = "suffix" /\ th["serv"] # "idle" => op = "end"
  /\ sv = "undone" \/ (sv = "suffix" /\ th["serv"] # "set") => abend \/ Settled \/ state = "completed"

\* What the response has said.
Told == report # "running" /\ (report = "completed" => op = "end" /\ ~ cut)

Honest == "early" \notin upset => Caused /\ Effects /\ Ended /\ Told

\* The stop is on its way to the tree, or has reached it, before the serving
\* goroutine hears of it.
Reaching ==
  /\ \A t \in Stoppers : th[t] \in Sending \cup {"signal"} => ~ stopOp
  /\ sv \in Running => stopOp \/ opStop \/ \E t \in Stoppers : th[t] \in Sending
  /\ stopExec /\ sv \in Running => opStop
  /\ sv \in {"internal", "waitop", "wokeop"} /\ th["serv"] = "idle" => opStop

\* So a tree that has been waited for writes no more, nor does one shut out.
Waiting ==
  /\ sv = "waitop" => writer.inUse
  /\ sv = "wokeop" => ~ writer.inUse /\ op \notin {"woken", "write"}
  /\ writer.stopped => ~ writer.inUse /\ op \notin {"woken", "write"}
  /\ sv \in {"suffix", "undone"} => abend \/ op = "end" \/ writer.stopped

Quiet     == upset \cap {"early", "overtake", "wake"} = {}
Exclusive == Quiet => Reaching /\ Waiting

----------------------------------------------------------------------------
(* Sequences of states, and the threads.                                   *)

LEMMA ShortSequences ==
  /\ \A x : Len(<<x>>) = 1 /\ Head(<<x>>) = x /\ Tail(<<x>>) = <<>> /\ <<x>> # <<>>
  /\ \A x : /\ Len(<<"fatal", x>>) # 1 /\ <<"fatal", x>> # <<>>
            /\ Head(<<"fatal", x>>) = "fatal" /\ Tail(<<"fatal", x>>) = <<x>>
OBVIOUS

LEMMA ThreadTypes ==
  ASSUME TypeOK
  PROVE  /\ th \in [Stoppers -> {"idle", "set", "take", "unpause", "gate", "add", "send", "signal"}]
         /\ todo \in [Stoppers -> Seq(States)]
         /\ Stoppers = {"serv", "oper", "timer", "admin", "ctl"}
BY Zenon DEF TypeOK, Stoppers

LEMMA IdleThreads ==
  ASSUME TypeOK, NEW t \in Stoppers
  PROVE  todo[t] = <<>> <=> th[t] = "idle"
BY Zenon DEF TypeOK

LEMMA Goes ==
  ASSUME TypeOK, NEW t \in Stoppers, NEW pc, Goto(t, pc)
  PROVE  th'[t] = pc /\ \A u \in Stoppers \ {t} : th'[u] = th[u]
BY ThreadTypes, Zenon DEF Goto

LEMMA Begins ==
  ASSUME TypeOK, NEW t \in Stoppers, NEW states, Begin(t, states)
  PROVE  /\ th'[t] = "set" /\ \A u \in Stoppers \ {t} : th'[u] = th[u]
         /\ todo'[t] = states /\ \A u \in Stoppers \ {t} : todo'[u] = todo[u]
BY ThreadTypes, Goes, Zenon DEF Begin

\* What the next state of a thread inside Stop is.
LEMMA Heads ==
  ASSUME Plans, NEW t \in Stoppers, th[t] # "idle"
  PROVE  /\ todo[t] # <<>>
         /\ t # "serv" => Head(todo[t]) \in {"fatal", "timeout", "stopped"}
         /\ t = "oper" => Head(todo[t]) = "fatal"
         /\ t = "serv" => \/ sv = "internal" /\ Head(todo[t]) = "closed"
                          \/ sv = "suffix" /\ Head(todo[t]) = "completed"
                          \/ sv \in {"failed", "undone", "unlist"} /\ Head(todo[t]) = "fatal"
         /\ Len(todo[t]) = 1 => Tail(todo[t]) = <<>>
         /\ Len(todo[t]) # 1 => \/ t = "timer" /\ Tail(todo[t]) = <<"timeout">>
                                \/ t = "ctl" /\ Tail(todo[t]) = <<"fatal">>
<1>1. t \in {"serv", "oper", "timer", "admin", "ctl"}
  BY DEF Stoppers
<1>2. CASE t = "serv"
  BY <1>2, ShortSequences, Zenon DEF Plans
<1>3. CASE t = "oper"
  BY <1>3, ShortSequences, Zenon DEF Plans
<1>4. CASE t = "timer"
  <2>1. todo[t] = <<"fatal", "timeout">> \/ todo[t] = <<"timeout">>
    BY <1>4, Zenon DEF Plans
  <2>2. CASE todo[t] = <<"fatal", "timeout">>
    BY <1>4, <2>2, ShortSequences, Zenon
  <2>3. CASE todo[t] = <<"timeout">>
    BY <1>4, <2>3, ShortSequences, Zenon
  <2> QED
    BY <2>1, <2>2, <2>3, Zenon
<1>5. CASE t = "admin"
  BY <1>5, ShortSequences, Zenon DEF Plans
<1>6. CASE t = "ctl"
  <2>1. todo[t] = <<"fatal", "fatal">> \/ todo[t] = <<"fatal">>
    BY <1>6, Zenon DEF Plans
  <2>2. CASE todo[t] = <<"fatal", "fatal">>
    BY <1>6, <2>2, ShortSequences, Zenon
  <2>3. CASE todo[t] = <<"fatal">>
    BY <1>6, <2>3, ShortSequences, Zenon
  <2> QED
    BY <2>1, <2>2, <2>3, Zenon
<1> QED
  BY <1>1, <1>2, <1>3, <1>4, <1>5, <1>6, Zenon

----------------------------------------------------------------------------
(* The threads inside Stop.                                                *)

\* Every step of Stop but the last.
StopOn(t) ==
  StopSet(t) \/ StopTake(t) \/ StopUnpause(t) \/ StopGate(t) \/ StopAdd(t) \/ StopSend(t)

\* Where a step of Stop takes its thread.
LEMMA StopsOn ==
  ASSUME TypeOK, NEW t \in Stoppers, StopOn(t)
  PROVE  /\ th[t] # "idle" /\ th'[t] # "idle" /\ \A u \in Stoppers \ {t} : th'[u] = th[u]
         /\ UNCHANGED <<todo, sv, timer, ctl, listVars, abend, timings, writer, report>>
         /\ op' = op \/ op = "none"
<1>1. CASE StopSet(t)
  <2>1. th[t] = "set" /\ Goto(t, "take")
    BY <1>1, Zenon DEF StopSet
  <2>2. UNCHANGED <<todo, sv, timer, ctl, listVars, abend, timings, writer, report>>
    BY <1>1, Zenon DEF StopSet, opVars, pauseVars, envVars
  <2>3. op' = op \/ op = "none"
    BY <1>1, Zenon DEF StopSet, opVars
  <2>4. th'[t] = "take" /\ \A u \in Stoppers \ {t} : th'[u] = th[u]
    BY <2>1, Goes, Zenon
  <2> QED
    BY <2>1, <2>2, <2>3, <2>4, Zenon
<1>2. CASE StopTake(t)
  <2>1. th[t] = "take" /\ (Goto(t, "unpause") \/ Goto(t, "gate") \/ Goto(t, "signal"))
    BY <1>2, Zenon DEF StopTake, Take
  <2>2. UNCHANGED <<todo, sv, timer, ctl, listVars, abend, timings, writer, report>>
    BY <1>2, Zenon DEF StopTake, opVars, pauseVars, envVars
  <2>3. op' = op \/ op = "none"
    BY <1>2, Zenon DEF StopTake, opVars
  <2>4. /\ th'[t] = "unpause" \/ th'[t] = "gate" \/ th'[t] = "signal"
        /\ \A u \in Stoppers \ {t} : th'[u] = th[u]
    BY <2>1, Goes, Zenon
  <2> QED
    BY <2>1, <2>2, <2>3, <2>4, Zenon
<1>3. CASE StopUnpause(t)
  <2>1. th[t] = "unpause" /\ (Goto(t, "gate") \/ Goto(t, "signal"))
    BY <1>3, Zenon DEF StopUnpause, Take
  <2>2. UNCHANGED <<todo, sv, timer, ctl, listVars, abend, timings, writer, report>>
    BY <1>3, Zenon DEF StopUnpause, opVars, envVars
  <2>3. op' = op \/ op = "none"
    BY <1>3, Zenon DEF StopUnpause, opVars
  <2>4. (th'[t] = "gate" \/ th'[t] = "signal") /\ \A u \in Stoppers \ {t} : th'[u] = th[u]
    BY <2>1, Goes, Zenon
  <2> QED
    BY <2>1, <2>2, <2>3, <2>4, Zenon
<1>4. CASE StopGate(t)
  <2>1. th[t] = "gate" /\ Goto(t, "add")
    BY <1>4, Zenon DEF StopGate
  <2>2. UNCHANGED <<todo, sv, timer, ctl, listVars, abend, timings, writer, report>>
    BY <1>4, Zenon DEF StopGate, reqVars, opVars, pauseVars, envVars
  <2>3. op' = op \/ op = "none"
    BY <1>4, Zenon DEF StopGate, opVars
  <2>4. th'[t] = "add" /\ \A u \in Stoppers \ {t} : th'[u] = th[u]
    BY <2>1, Goes, Zenon
  <2> QED
    BY <2>1, <2>2, <2>3, <2>4, Zenon
<1>5. CASE StopAdd(t)
  <2>1. th[t] = "add" /\ Goto(t, "send")
    BY <1>5, Zenon DEF StopAdd
  <2>2. UNCHANGED <<todo, sv, timer, ctl, listVars, abend, timings, writer, report>>
    BY <1>5, Zenon DEF StopAdd, opVars, pauseVars
  <2>3. op' = op \/ op = "none"
    BY <1>5, Zenon DEF StopAdd, opVars
  <2>4. th'[t] = "send" /\ \A u \in Stoppers \ {t} : th'[u] = th[u]
    BY <2>1, Goes, Zenon
  <2> QED
    BY <2>1, <2>2, <2>3, <2>4, Zenon
<1>6. CASE StopSend(t)
  <2>1. th[t] = "send" /\ Goto(t, "signal")
    BY <1>6, Zenon DEF StopSend
  <2>2. UNCHANGED <<todo, sv, timer, ctl, listVars, abend, timings, writer, report>>
    BY <1>6, Zenon DEF StopSend, pauseVars, envVars
  <2>3. op' = op \/ op = "none"
    BY <1>6, Zenon DEF StopSend
  <2>4. th'[t] = "signal" /\ \A u \in Stoppers \ {t} : th'[u] = th[u]
    BY <2>1, Goes, Zenon
  <2> QED
    BY <2>1, <2>2, <2>3, <2>4, Zenon
<1> QED
  BY <1>1, <1>2, <1>3, <1>4, <1>5, <1>6, Zenon DEF StopOn

LEMMA Signals ==
  ASSUME TypeOK, NEW t \in Stoppers, StopSignal(t)
  PROVE  /\ th[t] = "signal" /\ \A u \in Stoppers \ {t} : th'[u] = th[u] /\ todo'[u] = todo[u]
         /\ UNCHANGED <<sv, op, timer, ctl, lock>>
<1>1. th[t] = "signal" /\ (Goto(t, "idle") \/ Goto(t, "set"))
  BY Zenon DEF StopSignal
<1>2. UNCHANGED <<sv, op, timer, ctl, lock>>
  BY Zenon DEF StopSignal, opVars, pauseVars, envVars
<1>3. \A u \in Stoppers \ {t} : todo'[u] = todo[u]
  BY ThreadTypes, Zenon DEF StopSignal
<1>4. \A u \in Stoppers \ {t} : th'[u] = th[u]
  BY <1>1, Goes, Zenon
<1> QED
  BY <1>1, <1>2, <1>3, <1>4, Zenon

\* A thread leaves Stop, or enters it for the next of its states.
LEMMA SignalsTo ==
  ASSUME TypeOK, Plans, NEW t \in Stoppers, StopSignal(t)
  PROVE  \/ th'[t] = "idle" /\ todo'[t] = <<>>
         \/ t = "timer" /\ th'[t] = "set" /\ todo'[t] = <<"timeout">>
         \/ t = "ctl" /\ th'[t] = "set" /\ todo'[t] = <<"fatal">>
<1>1. th[t] = "signal" /\ Goto(t, IF Len(todo[t]) = 1 THEN "idle" ELSE "set")
  BY Zenon DEF StopSignal
<1>2. todo'[t] = Tail(todo[t])
  BY ThreadTypes, Zenon DEF StopSignal
<1>3. CASE Len(todo[t]) = 1
  <2>1. Goto(t, "idle") /\ Tail(todo[t]) = <<>>
    BY <1>1, <1>3, Heads, Zenon
  <2>2. th'[t] = "idle"
    BY <2>1, Goes, Zenon
  <2> QED
    BY <1>2, <2>1, <2>2, Zenon
<1>4. CASE Len(todo[t]) # 1
  <2>1. Goto(t, "set") /\ (\/ t = "timer" /\ Tail(todo[t]) = <<"timeout">>
                           \/ t = "ctl" /\ Tail(todo[t]) = <<"fatal">>)
    BY <1>1, <1>4, Heads, Zenon
  <2>2. th'[t] = "set"
    BY <2>1, Goes, Zenon
  <2> QED
    BY <1>2, <2>1, <2>2, Zenon
<1> QED
  BY <1>3, <1>4, Zenon

LEMMA SignalsOut ==
  ASSUME TypeOK, Plans, NEW t \in Stoppers, StopSignal(t)
  PROVE  th'[t] = "idle" \/ (t # "admin" /\ th'[t] = "set")
<1>1. CASE th'[t] # "idle"
  <2>1. \/ t = "timer" /\ th'[t] = "set"
        \/ t = "ctl" /\ th'[t] = "set"
    BY <1>1, SignalsTo, Zenon
  <2> QED
    BY <2>1, Zenon
<1> QED
  BY <1>1, Zenon

----------------------------------------------------------------------------
(* The plans of the threads.                                               *)

\* The steps of the serving goroutine by which it does not enter Stop.
ServeOn ==
  \/ Servicing \/ Build \/ NotifyStop \/ RunOnce \/ Prefix \/ ExecStop \/ getInternal \/ WokeInternal
  \/ Suffix \/ Unlist \/ StopTimer \/ CompleteGate \/ CompleteAdd \/ Done

LEMMA ServesOn ==
  ASSUME ServeOn
  PROVE  /\ th["serv"] = "idle" /\ UNCHANGED <<th, todo, lock, ctl>>
         /\ op' = op \/ op \in {"none", "start", "end"}
<1>1. CASE Servicing \/ Build \/ NotifyStop
  BY <1>1, Zenon DEF Servicing, Build, NotifyStop, Step, Serving, stopVars, opVars, pauseVars
<1>2. CASE RunOnce \/ Prefix \/ ExecStop
  BY <1>2, Zenon DEF RunOnce, Prefix, ExecStop, Step, Serving, stopVars, opVars, pauseVars
<1>3. CASE getInternal \/ WokeInternal \/ Suffix \/ Unlist
  BY <1>3, Zenon DEF getInternal, WokeInternal, Suffix, Unlist, Step, Serving, stopVars, opVars,
     pauseVars
<1>4. CASE StopTimer \/ CompleteGate \/ CompleteAdd \/ Done
  BY <1>4, Zenon DEF StopTimer, CompleteGate, CompleteAdd, Done, Step, Serving, stopVars, opVars,
     pauseVars
<1> QED
  BY <1>1, <1>2, <1>3, <1>4, Zenon DEF ServeOn

\* The steps of the serving goroutine by which it enters Stop.
LEMMA ServesBegin ==
  ASSUME TypeOK, Fail \/ Failed \/ ExecResults \/ ExecGone \/ StatementFails
  PROVE  /\ th["serv"] = "idle" /\ th'["serv"] = "set"
         /\ \A u \in Stoppers \ {"serv"} : th'[u] = th[u] /\ todo'[u] = todo[u]
         /\ UNCHANGED <<lock, ctl, op, timer>>
         /\ \/ sv' = "internal" /\ todo'["serv"] = <<"closed">>
            \/ sv' = "suffix" /\ todo'["serv"] = <<"completed">>
            \/ sv' \in {"failed", "undone", "unlist"} /\ todo'["serv"] = <<"fatal">>
<1>1. "serv" \in Stoppers
  BY Zenon DEF Stoppers
<1>2. th["serv"] = "idle" /\ UNCHANGED <<lock, ctl, op, timer>>
  BY Zenon DEF Fail, Failed, ExecResults, ExecGone, StatementFails, Step, Serving, opVars, pauseVars,
     envVars
<1>3. \/ Begin("serv", <<"closed">>) /\ sv' = "internal"
      \/ Begin("serv", <<"completed">>) /\ sv' = "suffix"
      \/ Begin("serv", <<"fatal">>) /\ sv' \in {"failed", "undone", "unlist"}
  BY Zenon DEF Fail, Failed, ExecResults, ExecGone, StatementFails, Step
<1>4. CASE Begin("serv", <<"closed">>) /\ sv' = "internal"
  BY <1>1, <1>2, <1>4, Begins, Zenon
<1>5. CASE Begin("serv", <<"completed">>) /\ sv' = "suffix"
  BY <1>1, <1>2, <1>5, Begins, Zenon
<1>6. CASE Begin("serv", <<"fatal">>) /\ sv' \in {"failed", "undone", "unlist"}
  BY <1>1, <1>2, <1>6, Begins, Zenon
<1> QED
  BY <1>3, <1>4, <1>5, <1>6, Zenon

\* The steps of the operator tree by which it does not enter Stop.
OperateOn ==
  \/ OpSend \/ OpResume \/ getExternal \/ WokeExternal \/ Result \/ ResultFails \/ OpRaised \/ OpEnds
  \/ OpClose

LEMMA OperatesOn ==
  ASSUME OperateOn
  PROVE  /\ UNCHANGED <<th, todo, lock, ctl, timer>>
         /\ op # "raise" \/ th["oper"] = "idle"
         /\ op \notin {"none", "end", "start"} /\ op' # "raise" /\ op' # "none"
         /\ sv' = sv \/ (sv = "waitop" /\ sv' = "wokeop")
<1>1. CASE OpSend \/ OpResume \/ getExternal \/ WokeExternal
  BY <1>1, Zenon DEF OpSend, OpResume, getExternal, WokeExternal, stopVars, pauseVars, envVars
<1>2. CASE Result \/ ResultFails
  BY <1>2, Zenon DEF Result, ResultFails, releaseInternal, stopVars, pauseVars, envVars
<1>3. CASE OpRaised \/ OpEnds \/ OpClose
  BY <1>3, Zenon DEF OpRaised, OpEnds, OpClose, releaseInternal, stopVars, pauseVars, envVars
<1> QED
  BY <1>1, <1>2, <1>3, Zenon DEF OperateOn

LEMMA OperatorBegins ==
  ASSUME TypeOK, OpRaise
  PROVE  /\ op \in {"run", "write"} /\ op' = "raise"
         /\ th'["oper"] = "set" /\ todo'["oper"] = <<"fatal">>
         /\ \A u \in Stoppers \ {"oper"} : th'[u] = th[u] /\ todo'[u] = todo[u]
         /\ UNCHANGED <<lock, ctl, timer, sv>>
<1>1. "oper" \in Stoppers /\ Begin("oper", <<"fatal">>)
  BY Zenon DEF Stoppers, OpRaise
<1>2. op \in {"run", "write"} /\ op' = "raise" /\ UNCHANGED <<lock, ctl, timer, sv>>
  BY Zenon DEF OpRaise, pauseVars
<1> QED
  BY <1>1, <1>2, Begins, Zenon

\* The admission routine; it enters Stop in Halt.
LEMMA Controls ==
  ASSUME TypeOK, Plans, Control
  PROVE  /\ UNCHANGED <<lock, timer, sv, op>>
         /\ th["ctl"] = "idle"
         /\ \A u \in Stoppers \ {"ctl"} : th'[u] = th[u] /\ todo'[u] = todo[u]
         /\ \/ UNCHANGED <<th, todo>>
            \/ /\ Halt /\ ctl = "halt" /\ ctl' = "rest"
               /\ th'["ctl"] = "set" /\ todo'["ctl"] = <<"fatal", "fatal">>
<1>1. CASE CtlPause \/ CtlPick \/ CtlResume
  BY <1>1, Zenon DEF CtlPause, CtlPick, CtlResume, Pick, stopVars, opVars, envVars
<1>2. CASE CtlAdd \/ CtlStore
  BY <1>2, Zenon DEF CtlAdd, CtlStore, Plans, stopVars, opVars, envVars
<1>3. CASE CtlLoad \/ CtlSwap
  BY <1>3, Zenon DEF CtlLoad, CtlSwap, Plans, stopVars, opVars, envVars
<1>4. CASE Halt
  <2>1. /\ UNCHANGED <<lock, timer, sv, op>> /\ ctl = "halt" /\ ctl' = "rest" /\ th["ctl"] = "idle"
        /\ Begin("ctl", <<"fatal", "fatal">>) \/ UNCHANGED <<th, todo>>
    BY <1>4, Zenon DEF Halt, Plans, opVars, envVars
  <2>2. "ctl" \in Stoppers
    BY Zenon DEF Stoppers
  <2>3. CASE Begin("ctl", <<"fatal", "fatal">>)
    BY <1>4, <2>1, <2>2, <2>3, Begins, Zenon
  <2> QED
    BY <2>1, <2>3, Zenon
<1> QED
  BY <1>1, <1>2, <1>3, <1>4, Zenon DEF Control

LEMMA Intrudes ==
  ASSUME TypeOK, NEW t \in {"timer", "admin"}, NEW states,
         \/ Expire /\ t = "timer" /\ states = <<"fatal", "timeout">>
         \/ AdminDelete /\ t = "admin" /\ states = <<"stopped">>
  PROVE  /\ th'[t] = "set" /\ todo'[t] = states
         /\ \A u \in Stoppers \ {t} : th'[u] = th[u] /\ todo'[u] = todo[u]
         /\ UNCHANGED <<lock, ctl, sv, op>>
<1>1. t \in Stoppers
  BY Zenon DEF Stoppers
<1>2. Begin(t, states) /\ UNCHANGED <<lock, ctl, sv, op>>
  BY Zenon DEF Expire, AdminDelete, opVars, pauseVars
<1> QED
  BY <1>1, <1>2, Begins, Zenon

\* The admission routine, and those who only enter Stop or go away, leave the response
\* and the tree alone.
LEMMA ControlFrame ==
  ASSUME Control \/ Expire \/ AdminDelete \/ ClientGone
  PROVE  UNCHANGED <<state, timings, stopOp, gate, stopExec, results, op, opStop, items, cut, sv, writer,
                     report>>
<1>1. CASE CtlPause \/ CtlAdd \/ CtlStore
  BY <1>1, Zenon DEF CtlPause, CtlAdd, CtlStore, reqVars, opVars
<1>2. CASE CtlPick \/ Halt \/ CtlResume
  BY <1>2, Zenon DEF CtlPick, Halt, CtlResume, reqVars, opVars
<1>3. CASE CtlLoad \/ CtlSwap
  BY <1>3, Zenon DEF CtlLoad, CtlSwap, reqVars, opVars
<1>4. CASE Expire \/ AdminDelete \/ ClientGone
  BY <1>4, Zenon DEF Expire, AdminDelete, ClientGone, reqVars, opVars
<1> QED
  BY <1>1, <1>2, <1>3, <1>4, Zenon DEF Control

LEMMA NextCases ==
  ASSUME Next
  PROVE  \/ \E t \in Stoppers : StopOn(t) \/ StopSignal(t)
         \/ ServeOn \/ Fail \/ Failed \/ ExecResults \/ ExecGone \/ StatementFails
         \/ OperateOn \/ OpRaise \/ Control \/ Expire \/ AdminDelete \/ ClientGone
BY Zenon DEF Next, Stop, StopOn, Serve, ServeOn, Operate, OperateOn

LEMMA PlansStep ==
  ASSUME TypeOK, Plans, Next
  PROVE  Plans'
<1>0. Stoppers = {"serv", "oper", "timer", "admin", "ctl"}
  BY Zenon DEF Stoppers
<1>1. ASSUME NEW t \in Stoppers, StopOn(t)
      PROVE  Plans'
  <2>1. \A u \in Stoppers : th'[u] # "idle" => th[u] # "idle"
    BY <1>1, StopsOn, Zenon
  <2>2. UNCHANGED <<todo, sv, timer, ctl>> /\ (op' = op \/ op = "none")
    BY <1>1, StopsOn, Zenon
  <2> QED
    BY <1>0, <2>1, <2>2, Zenon DEF Plans
<1>2. ASSUME NEW t \in Stoppers, StopSignal(t)
      PROVE  Plans'
  <2>1. UNCHANGED <<sv, op, timer, ctl>>
    BY <1>2, Signals, Zenon
  <2>2. \A u \in Stoppers : th'[u] # "idle" => th[u] # "idle"
    BY <1>2, Signals, Zenon
  <2>3. \A u \in Stoppers : th'[u] # "idle" =>
          \/ todo'[u] = todo[u]
          \/ u = "timer" /\ todo'[u] = <<"timeout">>
          \/ u = "ctl" /\ todo'[u] = <<"fatal">>
    BY <1>2, Signals, SignalsTo, Zenon
  <2> QED
    BY <1>0, <2>1, <2>2, <2>3, Zenon DEF Plans
<1>3. CASE ServeOn
  <2>1. th["serv"] = "idle" /\ UNCHANGED <<th, todo, ctl>> /\ (op' = op \/ op # "raise")
    BY <1>3, ServesOn, Zenon
  <2>2. \/ UNCHANGED timer /\ (sv' \in {"queued", "build"} => sv \in {"queued", "build"})
        \/ sv = "build" /\ sv' \notin {"queued", "build"}
        \/ timer' = "off" /\ sv' \notin {"queued", "build"}
    BY <1>3, Zenon DEF ServeOn, Servicing, Build, NotifyStop, RunOnce, Prefix, ExecStop, getInternal,
       WokeInternal, Suffix, Unlist, StopTimer, CompleteGate, CompleteAdd, Done, Step, Serving, envVars
  <2> QED
    BY <2>1, <2>2, Zenon DEF Plans
<1>4. CASE Fail \/ Failed \/ ExecResults \/ ExecGone \/ StatementFails
  BY <1>0, <1>4, ServesBegin, Zenon DEF Plans
<1>5. CASE OperateOn
  BY <1>0, <1>5, OperatesOn, Zenon DEF Plans
<1>6. CASE OpRaise
  BY <1>0, <1>6, OperatorBegins, Zenon DEF Plans
<1>7. CASE Control
  BY <1>0, <1>7, Controls, Zenon DEF Plans
<1>8. CASE Expire
  <2>1. /\ th'["timer"] = "set" /\ todo'["timer"] = <<"fatal", "timeout">>
        /\ \A u \in Stoppers \ {"timer"} : th'[u] = th[u] /\ todo'[u] = todo[u]
        /\ UNCHANGED <<ctl, sv, op>>
    BY <1>8, Intrudes, Zenon
  <2>2. timer = "set" /\ timer' = "off"
    BY <1>8, Zenon DEF Expire
  <2> QED
    BY <1>0, <2>1, <2>2, Zenon DEF Plans
<1>9. CASE AdminDelete
  <2>1. /\ th'["admin"] = "set" /\ todo'["admin"] = <<"stopped">>
        /\ \A u \in Stoppers \ {"admin"} : th'[u] = th[u] /\ todo'[u] = todo[u]
        /\ UNCHANGED <<ctl, sv, op>>
    BY <1>9, Intrudes, Zenon
  <2>2. timer' = timer
    BY <1>9, Zenon DEF AdminDelete
  <2> QED
    BY <1>0, <2>1, <2>2, Zenon DEF Plans
<1>10. CASE ClientGone
  BY <1>10, Zenon DEF ClientGone, Plans, stopVars, opVars, pauseVars
<1> QED
  BY <1>1, <1>2, <1>3, <1>4, <1>5, <1>6, <1>7, <1>8, <1>9, <1>10, NextCases, Zenon

----------------------------------------------------------------------------
(* The locks.                                                              *)

\* What a step of Stop does with the mutex of the request.
LEMMA MutexStop ==
  ASSUME TypeOK, Locks, NEW t \in Stoppers, StopOn(t), NEW u \in Stoppers
  PROVE  th'[u] = "unpause" <=> lock' = u
<1>0. "free" \notin Stoppers
  BY Zenon DEF Stoppers
<1>1. CASE StopSet(t)
  <2>1. Goto(t, "take") /\ th[t] = "set" /\ lock' = lock
    BY <1>1, Zenon DEF StopSet
  <2>2. th'[t] = "take" /\ \A v \in Stoppers \ {t} : th'[v] = th[v]
    BY <2>1, Goes, Zenon
  <2> QED
    BY <2>1, <2>2, Zenon DEF Locks
<1>2. CASE StopTake(t)
  <2>1. /\ th[t] = "take" /\ lock = "free"
        /\ \/ Goto(t, "unpause") /\ lock' = t
           \/ (Goto(t, "gate") \/ Goto(t, "signal")) /\ lock' = lock
    BY <1>2, Zenon DEF StopTake, Take
  <2>2. CASE Goto(t, "unpause") /\ lock' = t
    <3>1. th'[t] = "unpause" /\ \A v \in Stoppers \ {t} : th'[v] = th[v]
      BY <2>2, Goes, Zenon
    <3> QED
      BY <1>0, <2>1, <2>2, <3>1, Zenon DEF Locks
  <2>3. CASE (Goto(t, "gate") \/ Goto(t, "signal")) /\ lock' = lock
    <3>1. (th'[t] = "gate" \/ th'[t] = "signal") /\ \A v \in Stoppers \ {t} : th'[v] = th[v]
      BY <2>3, Goes, Zenon
    <3> QED
      BY <1>0, <2>1, <2>3, <3>1, Zenon DEF Locks
  <2> QED
    BY <2>1, <2>2, <2>3, Zenon
<1>3. CASE StopUnpause(t)
  <2>1. th[t] = "unpause" /\ (Goto(t, "gate") \/ Goto(t, "signal")) /\ lock' = "free"
    BY <1>3, Zenon DEF StopUnpause, Take
  <2>2. (th'[t] = "gate" \/ th'[t] = "signal") /\ \A v \in Stoppers \ {t} : th'[v] = th[v]
    BY <2>1, Goes, Zenon
  <2> QED
    BY <1>0, <2>1, <2>2, Zenon DEF Locks
<1>4. CASE StopGate(t) \/ StopAdd(t) \/ StopSend(t)
  <2>1. /\ th[t] # "unpause" /\ lock' = lock
        /\ Goto(t, "add") \/ Goto(t, "send") \/ Goto(t, "signal")
    BY <1>4, Zenon DEF StopGate, StopAdd, StopSend
  <2>2. /\ th'[t] = "add" \/ th'[t] = "send" \/ th'[t] = "signal"
        /\ \A v \in Stoppers \ {t} : th'[v] = th[v]
    BY <2>1, Goes, Zenon
  <2> QED
    BY <2>1, <2>2, Zenon DEF Locks
<1> QED
  BY <1>1, <1>2, <1>3, <1>4, Zenon DEF StopOn

LEMMA LocksStep ==
  ASSUME TypeOK, Plans, Locks, Next
  PROVE  Locks'
<1>0. Stoppers = {"serv", "oper", "timer", "admin", "ctl"}
  BY Zenon DEF Stoppers
<1>1. ASSUME NEW t \in Stoppers, StopOn(t)
      PROVE  Locks'
  <2>1. \A u \in Stoppers : th'[u] # "idle" <=> th[u] # "idle"
    BY <1>1, StopsOn, Zenon
  <2>2. UNCHANGED <<sv, ctl, bucket, listed>>
    BY <1>1, StopsOn, Zenon DEF listVars
  <2>3. \A u \in Stoppers : th'[u] = "unpause" <=> lock' = u
    BY <1>1, MutexStop, Zenon
  <2> QED
    BY <1>0, <2>1, <2>2, <2>3, Zenon DEF Locks
<1>2. ASSUME NEW t \in Stoppers, StopSignal(t)
      PROVE  Locks'
  <2>1. /\ th[t] = "signal" /\ \A u \in Stoppers \ {t} : th'[u] = th[u]
        /\ UNCHANGED <<sv, ctl, lock>>
    BY <1>2, Signals, Zenon
  <2>0. th'[t] = "idle" \/ (t # "admin" /\ th'[t] = "set")
    BY <1>2, SignalsOut, Zenon
  <2>2. \/ t = "admin" /\ listed' = FALSE /\ bucket' = "free"
        \/ t # "admin" /\ UNCHANGED <<listed, bucket>>
    BY <1>2, Zenon DEF StopSignal, listVars
  <2>3. \A u \in Stoppers : th'[u] = "unpause" <=> lock' = u
    BY <2>0, <2>1, Zenon DEF Locks
  <2>4. /\ bucket' = "admin" <=> th'["admin"] # "idle"
        /\ bucket' = "ctl" <=> ctl' \in {"add", "store"}
        /\ sv' \in Leaving => ~ listed' /\ bucket' # "admin"
    BY <1>0, <2>0, <2>1, <2>2 DEF Locks
  <2> QED
    BY <2>3, <2>4, Zenon DEF Locks
<1>3. CASE ServeOn
  <2>1. UNCHANGED <<th, lock, ctl>>
    BY <1>3, ServesOn, Zenon
  <2>2. /\ bucket' = bucket
        /\ \/ listed' = listed /\ (sv' \in Leaving => sv \in Leaving)
           \/ ~ listed' /\ bucket = "free"
    BY <1>3, Zenon DEF ServeOn, Servicing, Build, NotifyStop, RunOnce, Prefix, ExecStop, getInternal,
       Leaving, WokeInternal, Suffix, Unlist, StopTimer, CompleteGate, CompleteAdd, Done, Step, Serving,
       listVars
  <2> QED
    BY <2>1, <2>2 DEF Locks
<1>4. CASE Fail \/ Failed \/ ExecResults \/ ExecGone \/ StatementFails
  <2>1. UNCHANGED <<listed, bucket>>
    BY <1>4, Zenon DEF Fail, Failed, ExecResults, ExecGone, StatementFails, listVars
  <2>2. sv' \notin Leaving /\ UNCHANGED <<lock, ctl>>
    BY <1>4, ServesBegin, Zenon DEF Leaving
  <2>3. \A u \in Stoppers : (th'[u] = "unpause" <=> th[u] = "unpause") /\ (u # "serv" => th'[u] = th[u])
    BY <1>4, ServesBegin, Zenon
  <2> QED
    BY <1>0, <2>1, <2>2, <2>3, Zenon DEF Locks
<1>5. CASE OperateOn
  <2>1. UNCHANGED <<th, lock, ctl>> /\ (sv' = sv \/ sv' = "wokeop")
    BY <1>5, OperatesOn, Zenon
  <2>2. UNCHANGED <<listed, bucket>>
    BY <1>5, Zenon DEF OperateOn, OpSend, OpResume, getExternal, WokeExternal, Result, ResultFails,
       OpRaised, OpEnds, OpClose, listVars
  <2> QED
    BY <2>1, <2>2, Zenon DEF Locks, Leaving
<1>6. CASE OpRaise
  <2>1. UNCHANGED <<listed, bucket>>
    BY <1>6, Zenon DEF OpRaise, listVars
  <2>2. UNCHANGED <<sv, lock, ctl>>
    BY <1>6, OperatorBegins, Zenon
  <2>3. \A u \in Stoppers : (th'[u] = "unpause" <=> th[u] = "unpause") /\ (u # "oper" => th'[u] = th[u])
    BY <1>0, <1>6, OperatorBegins, Zenon DEF Plans
  <2> QED
    BY <1>0, <2>1, <2>2, <2>3, Zenon DEF Locks
<1>7. CASE Control
  <2>1. UNCHANGED <<lock, sv>>
    BY <1>7, Controls, Zenon
  <2>2. \A u \in Stoppers : (th'[u] = "unpause" <=> th[u] = "unpause") /\ (u # "ctl" => th'[u] = th[u])
    BY <1>7, Controls, Zenon
  <2>3. \/ bucket' = bucket /\ (ctl \in {"add", "store"} <=> ctl' \in {"add", "store"})
        \/ bucket = "free" /\ listed /\ bucket' = "ctl" /\ ctl' = "add"
        \/ bucket' = "free" /\ ctl = "store" /\ ctl' = "rest"
    BY <1>7, Zenon DEF Control, CtlPause, CtlAdd, CtlStore, CtlPick, Halt, CtlResume, CtlLoad, CtlSwap,
       Pick, listVars
  <2>4. listed' = listed
    BY <1>7, Zenon DEF Control, CtlPause, CtlAdd, CtlStore, CtlPick, Halt, CtlResume, CtlLoad, CtlSwap,
       listVars
  <2> QED
    BY <1>0, <2>1, <2>2, <2>3, <2>4, Zenon DEF Locks
<1>8. CASE Expire
  <2>1. UNCHANGED <<listed, bucket>> /\ timer = "set"
    BY <1>8, Zenon DEF Expire, listVars
  <2>2. /\ th'["timer"] = "set" /\ UNCHANGED <<lock, ctl, sv>>
        /\ \A u \in Stoppers \ {"timer"} : th'[u] = th[u]
    BY <1>8, Intrudes, Zenon
  <2>3. \A u \in Stoppers : (th'[u] = "unpause" <=> th[u] = "unpause") /\ (u # "timer" => th'[u] = th[u])
    BY <2>1, <2>2, Zenon DEF Plans
  <2> QED
    BY <1>0, <2>1, <2>2, <2>3, Zenon DEF Locks
<1>9. CASE AdminDelete
  <2>1. listed /\ bucket = "free" /\ bucket' = "admin"
    BY <1>9, Zenon DEF AdminDelete
  <2>2. /\ th'["admin"] = "set" /\ UNCHANGED <<lock, ctl, sv>>
        /\ \A u \in Stoppers \ {"admin"} : th'[u] = th[u]
    BY <1>9, Intrudes, Zenon
  <2>3. \A u \in Stoppers : th'[u] = "unpause" <=> th[u] = "unpause"
    BY <2>1, <2>2, Zenon DEF Locks
  <2> QED
    BY <2>1, <2>2, <2>3, Zenon DEF Locks
<1>10. CASE ClientGone
  BY <1>10, Zenon DEF ClientGone, Locks, stopVars, listVars, pauseVars
<1> QED
  BY <1>1, <1>2, <1>3, <1>4, <1>5, <1>6, <1>7, <1>8, <1>9, <1>10, NextCases, Zenon

----------------------------------------------------------------------------
(* Pauses.                                                                 *)

\* Disturbances are never forgotten.
LEMMA UpsetGrows ==
  ASSUME Next
  PROVE  upset \subseteq upset'
<1>1. ASSUME NEW t \in Stoppers, StopOn(t) \/ StopSignal(t)
      PROVE  upset \subseteq upset'
  BY <1>1, Zenon DEF StopOn, StopSet, StopTake, StopUnpause, StopGate, StopAdd, StopSend, StopSignal
<1>2. CASE ServeOn
  BY <1>2, Zenon DEF ServeOn, Servicing, Build, NotifyStop, RunOnce, Prefix, ExecStop, getInternal,
     WokeInternal, Suffix, Unlist, StopTimer, CompleteGate, CompleteAdd, Done
<1>3. CASE Fail \/ Failed \/ ExecResults \/ ExecGone \/ StatementFails
  BY <1>3, Zenon DEF Fail, Failed, ExecResults, ExecGone, StatementFails
<1>4. CASE OperateOn \/ OpRaise
  BY <1>4, Zenon DEF OperateOn, OpSend, OpResume, getExternal, WokeExternal, Result, ResultFails,
     OpRaise, OpRaised, OpEnds, OpClose
<1>5. CASE Control
  BY <1>5, Zenon DEF Control, CtlPause, CtlAdd, CtlStore, CtlPick, Halt, CtlResume, CtlLoad, CtlSwap
<1>6. CASE Expire \/ AdminDelete \/ ClientGone
  BY <1>6, Zenon DEF Expire, AdminDelete, ClientGone
<1> QED
  BY <1>1, <1>2, <1>3, <1>4, <1>5, <1>6, NextCases, Zenon

LEMMA PausingKept ==
  ASSUME Pausing, upset \subseteq upset', UNCHANGED <<ctl, pauseAt, pauseWg, lock>>
  PROVE  Pausing'
BY Zenon DEF Pausing

LEMMA PausingStop ==
  ASSUME TypeOK, Locks, Pausing, Next, NEW t \in Stoppers, StopOn(t)
  PROVE  Pausing'
<1>1. CASE StopSet(t) \/ StopGate(t) \/ StopAdd(t) \/ StopSend(t)
  <2>1. UNCHANGED <<ctl, pauseAt, pauseWg, lock>>
    BY <1>1, Zenon DEF StopSet, StopGate, StopAdd, StopSend, pauseVars
  <2> QED
    BY <2>1, UpsetGrows, PausingKept, Zenon
<1>2. CASE StopTake(t)
  <2>1. UNCHANGED <<ctl, pauseAt, pauseWg>> /\ (pauseAt \/ lock' = lock)
    BY <1>2, Zenon DEF StopTake, pauseVars
  <2> QED
    BY <2>1, UpsetGrows, Zenon DEF Pausing
<1>3. CASE StopUnpause(t)
  <2>1. /\ lock = t /\ lock' = "free" /\ ~ pauseAt' /\ pauseWg' = pauseWg - 1 /\ ctl' = ctl
        /\ "double" \notin upset' => ctl # "swap" /\ "double" \notin upset
    BY <1>3, Zenon DEF StopUnpause, Unpause, Double, Locks
  <2>2. "free" \notin Stoppers
    BY Zenon DEF Stoppers
  <2>3. "double" \notin upset' => pauseAt /\ ctl \notin {"add", "store"} /\ pauseWg = 1
    BY <2>1, <2>2, Zenon DEF Pausing
  <2>4. pauseWg = 1 => pauseWg - 1 = 0
    OBVIOUS
  <2> QED
    BY <2>1, <2>3, <2>4, Zenon DEF Pausing
<1> QED
  BY <1>1, <1>2, <1>3, Zenon DEF StopOn

LEMMA PausingControl ==
  ASSUME Pausing, Control, Next
  PROVE  Pausing'
<1>1. CASE CtlPause
  <2>1. /\ ~ pauseAt /\ lock = "free" /\ ctl = "rest" /\ ctl' = "add"
        /\ UNCHANGED <<pauseAt, pauseWg, lock, upset>>
    BY <1>1, Zenon DEF CtlPause, Pick, stopVars
  <2> QED
    BY <2>1, Zenon DEF Pausing
<1>2. CASE CtlAdd
  <2>1. ctl = "add" /\ ctl' = "store" /\ pauseWg' = pauseWg + 1 /\ UNCHANGED <<pauseAt, lock, upset>>
    BY <1>2, Zenon DEF CtlAdd, stopVars
  <2>2. 0 + 1 = 1
    OBVIOUS
  <2> QED
    BY <2>1, <2>2, Zenon DEF Pausing
<1>3. CASE CtlStore
  <2>1. ctl = "store" /\ ctl' = "rest" /\ pauseAt' /\ UNCHANGED <<pauseWg, lock>>
    BY <1>3, Zenon DEF CtlStore, stopVars
  <2> QED
    BY <2>1, UpsetGrows, Zenon DEF Pausing
<1>4. CASE CtlPick \/ Halt \/ CtlResume \/ CtlLoad
  <2>1. /\ ctl \in {"rest", "halt", "load"} /\ ctl' \in {"rest", "halt", "load", "swap"}
        /\ ctl' = "swap" => pauseAt
        /\ UNCHANGED <<pauseAt, pauseWg, lock, upset>>
    BY <1>4, Zenon DEF CtlPick, Halt, CtlResume, CtlLoad, Pick, stopVars
  <2> QED
    BY <2>1, Zenon DEF Pausing
<1>5. CASE CtlSwap
  <2>1. /\ ctl = "swap" /\ ctl' = "rest" /\ ~ pauseAt' /\ pauseWg' = pauseWg - 1 /\ lock' = lock
        /\ "double" \notin upset' => lock = "free" /\ "double" \notin upset
    BY <1>5, Zenon DEF CtlSwap, Unpause, Double, stopVars
  <2>2. pauseWg = 1 => pauseWg - 1 = 0
    OBVIOUS
  <2> QED
    BY <2>1, <2>2, Zenon DEF Pausing
<1> QED
  BY <1>1, <1>2, <1>3, <1>4, <1>5, Zenon DEF Control

LEMMA PausingStep ==
  ASSUME TypeOK, Locks, Pausing, Next
  PROVE  Pausing'
<1>1. CASE \E t \in Stoppers : StopSignal(t)
  <2>1. UNCHANGED <<ctl, pauseAt, pauseWg, lock>>
    BY <1>1, Zenon DEF StopSignal, pauseVars
  <2> QED
    BY <2>1, UpsetGrows, PausingKept, Zenon
<1>2. CASE ServeOn
  <2>1. UNCHANGED <<ctl, pauseAt, pauseWg, lock>>
    BY <1>2, Zenon DEF ServeOn, Servicing, Build, NotifyStop, RunOnce, Prefix, ExecStop, getInternal,
       WokeInternal, Suffix, Unlist, StopTimer, CompleteGate, CompleteAdd, Done, stopVars, pauseVars
  <2> QED
    BY <2>1, UpsetGrows, PausingKept, Zenon
<1>3. CASE Fail \/ Failed \/ ExecResults \/ ExecGone \/ StatementFails
  <2>1. UNCHANGED <<ctl, pauseAt, pauseWg, lock>>
    BY <1>3, Zenon DEF Fail, Failed, ExecResults, ExecGone, StatementFails, pauseVars
  <2> QED
    BY <2>1, UpsetGrows, PausingKept, Zenon
<1>4. CASE OperateOn \/ OpRaise
  <2>1. UNCHANGED <<ctl, pauseAt, pauseWg, lock>>
    BY <1>4, Zenon DEF OperateOn, OpSend, OpResume, getExternal, WokeExternal, Result, ResultFails,
       OpRaise, OpRaised, OpEnds, OpClose, stopVars, pauseVars
  <2> QED
    BY <2>1, UpsetGrows, PausingKept, Zenon
<1>5. CASE Expire \/ AdminDelete \/ ClientGone
  <2>1. UNCHANGED <<ctl, pauseAt, pauseWg, lock>>
    BY <1>5, Zenon DEF Expire, AdminDelete, ClientGone, stopVars, pauseVars
  <2> QED
    BY <2>1, UpsetGrows, PausingKept, Zenon
<1> QED
  BY <1>1, <1>2, <1>3, <1>4, <1>5, PausingStop, PausingControl, NextCases, Zenon

----------------------------------------------------------------------------
(* The stop gate.                                                          *)

ServeBegin == Fail \/ Failed \/ ExecResults \/ ExecGone \/ StatementFails

\* A step that is not one of Stop leaves every thread alone, or lets one enter Stop.
LEMMA Enters ==
  ASSUME TypeOK, Plans, Locks,
         ServeOn \/ ServeBegin \/ OperateOn \/ OpRaise \/ Control \/ Expire \/ AdminDelete \/ ClientGone,
         NEW u \in Stoppers
  PROVE  th'[u] = th[u] \/ (th[u] = "idle" /\ th'[u] = "set")
<1>1. CASE ServeOn
  BY <1>1, ServesOn, Zenon
<1>2. CASE ServeBegin
  BY <1>2, ServesBegin, Zenon DEF ServeBegin
<1>3. CASE OperateOn
  BY <1>3, OperatesOn, Zenon
<1>4. CASE OpRaise
  <2>1. th["oper"] = "idle"
    BY <1>4, Zenon DEF OpRaise, Plans
  <2> QED
    BY <1>4, <2>1, OperatorBegins, Zenon
<1>5. CASE Control
  BY <1>5, Controls, Zenon
<1>6. CASE Expire
  <2>1. th["timer"] = "idle"
    BY <1>6, Zenon DEF Expire, Plans
  <2> QED
    BY <1>6, <2>1, Intrudes, Zenon
<1>7. CASE AdminDelete
  <2>1. th["admin"] = "idle"
    BY <1>7, Zenon DEF AdminDelete, Locks
  <2> QED
    BY <1>7, <2>1, Intrudes, Zenon
<1>8. CASE ClientGone
  BY <1>8, Zenon DEF ClientGone, stopVars
<1> QED
  BY <1>1, <1>2, <1>3, <1>4, <1>5, <1>6, <1>7, <1>8, Zenon

LEMMA GatingKept ==
  ASSUME Gating, stopOp' => stopOp, gate' = gate,
         sv' \in Unbuilt => sv \in Unbuilt, sv' = "done" <=> sv = "done",
         \A u \in Stoppers : /\ th'[u] \in Sending <=> th[u] \in Sending
                             /\ th'[u] = "send" <=> th[u] = "send"
  PROVE  Gating'
<1>1. (\E t \in Stoppers : th'[t] = "send") <=> (\E t \in Stoppers : th[t] = "send")
  BY Zenon
<1>2. gate' = (IF \E t \in Stoppers : th'[t] = "send" THEN 1 ELSE 0) + (IF sv' = "done" THEN 1 ELSE 0)
  BY <1>1 DEF Gating
<1>3. (\A t, u \in Stoppers : th'[t] \in Sending /\ th'[u] \in Sending => t = u)
  BY Zenon DEF Gating
<1>4. /\ stopOp' \/ sv' \in Unbuilt => \A t \in Stoppers : th'[t] \notin Sending
      /\ sv' \in Unbuilt => ~ stopOp'
  BY Zenon DEF Gating
<1> QED
  BY <1>2, <1>3, <1>4, Zenon DEF Gating

\* Stop takes the operator, or finds none.
LEMMA Takes ==
  ASSUME TypeOK, Gating, NEW t \in Stoppers, th[t] \in {"take", "unpause"}, Take(t), UNCHANGED <<gate, sv>>
  PROVE  Gating'
<1>1. CASE stopOp
  <2>1. ~ stopOp' /\ Goto(t, "gate")
    BY <1>1, Zenon DEF Take
  <2>2. th'[t] = "gate" /\ \A u \in Stoppers \ {t} : th'[u] = th[u] /\ th[u] \notin Sending
    BY <1>1, <2>1, Goes, Zenon DEF Gating
  <2>3. \A u \in Stoppers : (th'[u] \in Sending => u = t) /\ th'[u] # "send" /\ th[u] # "send"
    BY <2>2, Zenon DEF Sending
  <2>4. gate' = (IF \E u \in Stoppers : th'[u] = "send" THEN 1 ELSE 0) + (IF sv' = "done" THEN 1 ELSE 0)
    BY <2>3 DEF Gating
  <2>5. sv' \notin Unbuilt
    BY <1>1, Zenon DEF Gating
  <2> QED
    BY <2>1, <2>3, <2>4, <2>5, Zenon DEF Gating
<1>2. CASE ~ stopOp
  <2>1. ~ stopOp' /\ Goto(t, "signal")
    BY <1>2, Zenon DEF Take
  <2>2. th'[t] = "signal" /\ \A u \in Stoppers \ {t} : th'[u] = th[u]
    BY <2>1, Goes, Zenon
  <2> QED
    BY <2>1, <2>2, GatingKept, Zenon DEF Sending
<1> QED
  BY <1>1, <1>2, Zenon

LEMMA GatingStop ==
  ASSUME TypeOK, Gating, NEW t \in Stoppers, StopOn(t)
  PROVE  Gating'
<1>1. CASE StopSet(t)
  <2>1. th[t] = "set" /\ Goto(t, "take") /\ UNCHANGED <<stopOp, gate, sv>>
    BY <1>1, Zenon DEF StopSet
  <2>2. th'[t] = "take" /\ \A u \in Stoppers \ {t} : th'[u] = th[u]
    BY <2>1, Goes, Zenon
  <2> QED
    BY <2>1, <2>2, GatingKept, Zenon DEF Sending
<1>2. CASE StopTake(t)
  <2>1. th[t] = "take" /\ UNCHANGED <<gate, sv>> /\ (Take(t) \/ (Goto(t, "unpause") /\ UNCHANGED stopOp))
    BY <1>2, Zenon DEF StopTake
  <2>2. CASE Goto(t, "unpause") /\ UNCHANGED stopOp
    <3>1. th'[t] = "unpause" /\ \A u \in Stoppers \ {t} : th'[u] = th[u]
      BY <2>2, Goes, Zenon
    <3> QED
      BY <2>1, <2>2, <3>1, GatingKept, Zenon DEF Sending
  <2> QED
    BY <2>1, <2>2, Takes, Zenon
<1>3. CASE StopUnpause(t)
  <2>1. th[t] = "unpause" /\ UNCHANGED <<gate, sv>> /\ Take(t)
    BY <1>3, Zenon DEF StopUnpause
  <2> QED
    BY <2>1, Takes, Zenon
<1>4. CASE StopGate(t)
  <2>1. th[t] = "gate" /\ Goto(t, "add") /\ UNCHANGED <<stopOp, gate, sv>>
    BY <1>4, Zenon DEF StopGate, reqVars
  <2>2. th'[t] = "add" /\ \A u \in Stoppers \ {t} : th'[u] = th[u]
    BY <2>1, Goes, Zenon
  <2> QED
    BY <2>1, <2>2, GatingKept, Zenon DEF Sending
<1>5. CASE StopAdd(t)
  <2>1. th[t] = "add" /\ Goto(t, "send") /\ gate' = gate + 1 /\ UNCHANGED <<stopOp, sv>>
    BY <1>5, Zenon DEF StopAdd
  <2>2. th'[t] = "send" /\ \A u \in Stoppers \ {t} : th'[u] = th[u] /\ th[u] \notin Sending
    BY <2>1, Goes, Zenon DEF Gating, Sending
  <2>3. \A u \in Stoppers : (th'[u] \in Sending => u = t) /\ th[u] # "send"
    BY <2>1, <2>2, Zenon DEF Sending
  <2>4. gate' = (IF \E u \in Stoppers : th'[u] = "send" THEN 1 ELSE 0) + (IF sv' = "done" THEN 1 ELSE 0)
    BY <2>1, <2>2, <2>3 DEF Gating
  <2>5. ~ stopOp' /\ sv' \notin Unbuilt
    BY <2>1, Zenon DEF Gating, Sending
  <2> QED
    BY <2>3, <2>4, <2>5, Zenon DEF Gating
<1>6. CASE StopSend(t)
  <2>1. th[t] = "send" /\ Goto(t, "signal") /\ gate' = gate - 1 /\ UNCHANGED <<stopOp, sv>>
    BY <1>6, Zenon DEF StopSend
  <2>2. th'[t] = "signal" /\ \A u \in Stoppers \ {t} : th'[u] = th[u] /\ th[u] \notin Sending
    BY <2>1, Goes, Zenon DEF Gating, Sending
  <2>3. \A u \in Stoppers : th'[u] \notin Sending /\ th'[u] # "send"
    BY <2>2, Zenon DEF Sending
  <2>4. gate' = (IF \E u \in Stoppers : th'[u] = "send" THEN 1 ELSE 0) + (IF sv' = "done" THEN 1 ELSE 0)
    BY <2>1, <2>3 DEF Gating
  <2>5. ~ stopOp' /\ sv' \notin Unbuilt
    BY <2>1, Zenon DEF Gating, Sending
  <2> QED
    BY <2>3, <2>4, <2>5, Zenon DEF Gating
<1> QED
  BY <1>1, <1>2, <1>3, <1>4, <1>5, <1>6, Zenon DEF StopOn

LEMMA GatingServe ==
  ASSUME Gating, ServeOn
  PROVE  Gating'
<1>0. th' = th
  BY ServesOn, Zenon
<1>1. CASE NotifyStop
  <2>1. sv = "notify" /\ sv' = "run" /\ gate' = gate
    BY <1>1, Zenon DEF NotifyStop, Step, Serving
  <2>2. \A t \in Stoppers : th'[t] \notin Sending /\ th[t] # "send" /\ th'[t] # "send"
    BY <1>0, <2>1, Zenon DEF Gating, Unbuilt, Sending
  <2>3. gate' = (IF \E u \in Stoppers : th'[u] = "send" THEN 1 ELSE 0) + (IF sv' = "done" THEN 1 ELSE 0)
    BY <2>1, <2>2 DEF Gating
  <2>4. sv' \notin Unbuilt
    BY <2>1, Zenon DEF Unbuilt
  <2> QED
    BY <2>2, <2>3, <2>4, Zenon DEF Gating
<1>2. CASE CompleteAdd
  <2>1. sv = "add" /\ sv' = "done" /\ gate' = gate + 1 /\ ~ stopOp'
    BY <1>2, Zenon DEF CompleteAdd, Step, Serving
  <2>2. gate' = (IF \E u \in Stoppers : th'[u] = "send" THEN 1 ELSE 0) + (IF sv' = "done" THEN 1 ELSE 0)
    BY <1>0, <2>1 DEF Gating
  <2>3. sv' \notin Unbuilt
    BY <2>1, Zenon DEF Unbuilt
  <2> QED
    BY <1>0, <2>1, <2>2, <2>3, Zenon DEF Gating
<1>3. CASE Done
  <2>1. sv = "done" /\ sv' = "pooled" /\ gate' = gate - 1 /\ stopOp' = stopOp
    BY <1>3, Zenon DEF Done, Step, Serving
  <2>2. gate' = (IF \E u \in Stoppers : th'[u] = "send" THEN 1 ELSE 0) + (IF sv' = "done" THEN 1 ELSE 0)
    BY <1>0, <2>1 DEF Gating
  <2>3. sv' \notin Unbuilt
    BY <2>1, Zenon DEF Unbuilt
  <2> QED
    BY <1>0, <2>1, <2>2, <2>3, Zenon DEF Gating
<1>4. CASE \/ Servicing \/ Build \/ RunOnce \/ Prefix \/ ExecStop \/ getInternal
           \/ WokeInternal \/ Suffix \/ Unlist \/ StopTimer \/ CompleteGate
  <2>1. UNCHANGED <<stopOp, gate>>
    BY <1>4, Zenon DEF Servicing, Build, RunOnce, Prefix, ExecStop, getInternal, WokeInternal, Suffix,
       Unlist, StopTimer, CompleteGate, reqVars
  <2>2. (sv' \in Unbuilt => sv \in Unbuilt) /\ sv' # "done" /\ sv # "done"
    BY <1>4, Zenon DEF Servicing, Build, RunOnce, Prefix, ExecStop, getInternal, WokeInternal, Suffix,
       Unlist, StopTimer, CompleteGate, Step, Serving, Unbuilt
  <2> QED
    BY <1>0, <2>1, <2>2, GatingKept, Zenon
<1> QED
  BY <1>1, <1>2, <1>3, <1>4, Zenon DEF ServeOn

LEMMA GatingStep ==
  ASSUME TypeOK, Plans, Locks, Gating, Next
  PROVE  Gating'
<1>1. ASSUME NEW t \in Stoppers, StopSignal(t)
      PROVE  Gating'
  <2>1. th[t] = "signal" /\ \A u \in Stoppers \ {t} : th'[u] = th[u]
    BY <1>1, Signals, Zenon
  <2>2. th'[t] = "idle" \/ (t # "admin" /\ th'[t] = "set")
    BY <1>1, SignalsOut, Zenon
  <2>3. UNCHANGED <<stopOp, gate, sv>>
    BY <1>1, Zenon DEF StopSignal
  <2> QED
    BY <2>1, <2>2, <2>3, GatingKept, Zenon DEF Sending
<1>2. CASE ServeBegin \/ OperateOn \/ OpRaise \/ Control \/ Expire \/ AdminDelete \/ ClientGone
  <2>1. \A u \in Stoppers : th'[u] = th[u] \/ (th[u] = "idle" /\ th'[u] = "set")
    BY <1>2, Enters, Zenon
  <2>2. UNCHANGED <<stopOp, gate>>
    <3>1. CASE ServeBegin
      BY <3>1, Zenon DEF ServeBegin, Fail, Failed, ExecResults, ExecGone, StatementFails, reqVars
    <3>2. CASE OperateOn \/ OpRaise
      BY <3>2, Zenon DEF OperateOn, OpSend, OpResume, getExternal, WokeExternal, Result, ResultFails,
         OpRaise, OpRaised, OpEnds, OpClose, reqVars
    <3>3. CASE Control
      BY <3>3, Zenon DEF Control, CtlPause, CtlAdd, CtlStore, CtlPick, Halt, CtlResume, CtlLoad, CtlSwap,
         reqVars
    <3>4. CASE Expire \/ AdminDelete \/ ClientGone
      BY <3>4, Zenon DEF Expire, AdminDelete, ClientGone, reqVars
    <3> QED
      BY <1>2, <3>1, <3>2, <3>3, <3>4, Zenon
  <2>3. (sv' \in Unbuilt => sv \in Unbuilt) /\ (sv' = "done" <=> sv = "done")
    <3>1. CASE ServeBegin
      BY <3>1, Zenon DEF ServeBegin, Fail, Failed, ExecResults, ExecGone, StatementFails, Step, Serving,
         Unbuilt
    <3>2. CASE OperateOn
      BY <3>2, OperatesOn, Zenon DEF Unbuilt
    <3>3. CASE OpRaise \/ Control \/ Expire \/ AdminDelete \/ ClientGone
      BY <3>3, OperatorBegins, Controls, Intrudes, Zenon DEF ClientGone
    <3> QED
      BY <1>2, <3>1, <3>2, <3>3, Zenon
  <2> QED
    BY <2>1, <2>2, <2>3, GatingKept, Zenon DEF Sending
<1> QED
  BY <1>1, <1>2, GatingStop, GatingServe, NextCases, Zenon DEF ServeBegin

----------------------------------------------------------------------------
(* Types.                                                                  *)

LEMMA StateTypes ==
  ASSUME TypeOK
  PROVE  /\ \A new \in States : SetState(new) \in States
         /\ State \in States \cup {"abend"}
         /\ {"running", "completed", "fatal", "stopped", "timeout", "closed"} \subseteq States
BY Zenon DEF TypeOK, SetState, State, States, Stopped

LEMMA ThreadsStop ==
  ASSUME TypeOK, Plans, NEW t \in Stoppers, StopOn(t) \/ StopSignal(t)
  PROVE  /\ th' \in [Stoppers -> {"idle", "set", "take", "unpause", "gate", "add", "send", "signal"}]
         /\ todo' \in [Stoppers -> Seq(States)]
         /\ \A u \in Stoppers : todo'[u] = <<>> <=> th'[u] = "idle"
<1> DEFINE Places == {"idle", "set", "take", "unpause", "gate", "add", "send", "signal"}
<1>1. \A pc \in Places : Goto(t, pc) => th' \in [Stoppers -> Places]
  BY ThreadTypes, Zenon DEF Goto
<1>2. \E pc \in Places : Goto(t, pc)
  BY Zenon DEF StopOn, StopSet, StopTake, Take, StopUnpause, StopGate, StopAdd, StopSend, StopSignal
<1>3. CASE StopOn(t)
  <2>1. todo' = todo /\ \A u \in Stoppers : th'[u] = "idle" <=> th[u] = "idle"
    BY <1>3, StopsOn, Zenon
  <2> QED
    BY <1>1, <1>2, <2>1, Zenon DEF TypeOK
<1>4. CASE StopSignal(t)
  <2>1. todo[t] # <<>>
    BY <1>4, Heads, Zenon DEF StopSignal
  <2>2. Tail(todo[t]) \in Seq(States)
    BY <2>1, ThreadTypes
  <2>3. todo' \in [Stoppers -> Seq(States)]
    BY <1>4, <2>2, ThreadTypes, Zenon DEF StopSignal
  <2>4. todo'[t] = <<>> <=> th'[t] = "idle"
    <3>1. <<"timeout">> # <<>> /\ <<"fatal">> # <<>>
      BY ShortSequences, Zenon
    <3> QED
      BY <1>4, <3>1, SignalsTo, Zenon
  <2>5. \A u \in Stoppers \ {t} : todo'[u] = <<>> <=> th'[u] = "idle"
    BY <1>4, Signals, IdleThreads, Zenon
  <2> QED
    BY <1>1, <1>2, <2>3, <2>4, <2>5, Zenon
<1> QED
  BY <1>3, <1>4, Zenon

LEMMA ThreadsBegin ==
  ASSUME TypeOK, NEW t \in Stoppers, NEW states \in Seq(States), states # <<>>, Begin(t, states)
  PROVE  /\ th' \in [Stoppers -> {"idle", "set", "take", "unpause", "gate", "add", "send", "signal"}]
         /\ todo' \in [Stoppers -> Seq(States)]
         /\ \A u \in Stoppers : todo'[u] = <<>> <=> th'[u] = "idle"
<1>1. th' \in [Stoppers -> {"idle", "set", "take", "unpause", "gate", "add", "send", "signal"}]
  BY ThreadTypes, Zenon DEF Begin, Goto
<1>2. todo' \in [Stoppers -> Seq(States)]
  BY ThreadTypes, Zenon DEF Begin
<1>3. /\ th'[t] = "set" /\ todo'[t] # <<>>
      /\ \A u \in Stoppers \ {t} : th'[u] = th[u] /\ todo'[u] = todo[u]
  BY Begins, Zenon
<1> QED
  BY <1>1, <1>2, <1>3, Zenon DEF TypeOK

LEMMA PlansTyped ==
  /\ <<"fatal">> \in Seq(States) /\ <<"fatal">> # <<>>
  /\ <<"closed">> \in Seq(States) /\ <<"closed">> # <<>>
  /\ <<"completed">> \in Seq(States) /\ <<"completed">> # <<>>
  /\ <<"stopped">> \in Seq(States) /\ <<"stopped">> # <<>>
  /\ <<"fatal", "timeout">> \in Seq(States) /\ <<"fatal", "timeout">> # <<>>
  /\ <<"fatal", "fatal">> \in Seq(States) /\ <<"fatal", "fatal">> # <<>>
BY DEF States, Stopped

LEMMA ThreadsType ==
  ASSUME TypeOK, Plans, Next
  PROVE  /\ th' \in [Stoppers -> {"idle", "set", "take", "unpause", "gate", "add", "send", "signal"}]
         /\ todo' \in [Stoppers -> Seq(States)]
         /\ \A u \in Stoppers : todo'[u] = <<>> <=> th'[u] = "idle"
<1> DEFINE Goal ==
      /\ th' \in [Stoppers -> {"idle", "set", "take", "unpause", "gate", "add", "send", "signal"}]
      /\ todo' \in [Stoppers -> Seq(States)]
      /\ \A u \in Stoppers : todo'[u] = <<>> <=> th'[u] = "idle"
<1>0. /\ "serv" \in Stoppers /\ "oper" \in Stoppers /\ "timer" \in Stoppers
      /\ "admin" \in Stoppers /\ "ctl" \in Stoppers
  BY Zenon DEF Stoppers
<1>1. CASE UNCHANGED <<th, todo>>
  BY <1>1, Zenon DEF TypeOK
<1>2. CASE ServeBegin
  <2>1. Begin("serv", <<"closed">>) \/ Begin("serv", <<"completed">>) \/ Begin("serv", <<"fatal">>)
    BY <1>2, Zenon DEF ServeBegin, Fail, Failed, ExecResults, ExecGone, StatementFails
  <2> QED
    BY <1>0, <2>1, PlansTyped, ThreadsBegin, Zenon
<1>3. CASE OpRaise
  <2>1. Begin("oper", <<"fatal">>)
    BY <1>3, Zenon DEF OpRaise
  <2> QED
    BY <1>0, <2>1, PlansTyped, ThreadsBegin, Zenon
<1>4. CASE Expire
  <2>1. Begin("timer", <<"fatal", "timeout">>)
    BY <1>4, Zenon DEF Expire
  <2> QED
    BY <1>0, <2>1, PlansTyped, ThreadsBegin, Zenon
<1>5. CASE AdminDelete
  <2>1. Begin("admin", <<"stopped">>)
    BY <1>5, Zenon DEF AdminDelete
  <2> QED
    BY <1>0, <2>1, PlansTyped, ThreadsBegin, Zenon
<1>6. CASE Control
  <2>1. Begin("ctl", <<"fatal", "fatal">>) \/ UNCHANGED <<th, todo>>
    BY <1>6, Zenon DEF Control, CtlPause, CtlAdd, CtlStore, CtlPick, Halt, CtlResume, CtlLoad, CtlSwap,
       stopVars
  <2> QED
    BY <1>0, <1>1, <2>1, PlansTyped, ThreadsBegin, Zenon
<1>7. CASE ServeOn \/ OperateOn \/ ClientGone
  BY <1>1, <1>7, ServesOn, OperatesOn, Zenon DEF ClientGone, stopVars
<1> HIDE DEF Goal
<1> QED
  BY <1>2, <1>3, <1>4, <1>5, <1>6, <1>7, NextCases, ThreadsStop, Zenon DEF ServeBegin, Goal

\* The bufferedWriter, with some of its flags changed.
Writers == [started : BOOLEAN, stopped : BOOLEAN, inUse : BOOLEAN, waiter : BOOLEAN]

LEMMA WriterStarts ==
  ASSUME TypeOK, writer' = [writer EXCEPT !.started = TRUE, !.waiter = FALSE]
  PROVE  /\ writer' \in Writers /\ writer'.started
         /\ writer'.stopped = writer.stopped /\ writer'.inUse = writer.inUse
BY DEF TypeOK, Writers

LEMMA WriterWaits ==
  ASSUME TypeOK, writer' = [writer EXCEPT !.waiter = TRUE]
  PROVE  /\ writer' \in Writers /\ writer'.started = writer.started
         /\ writer'.stopped = writer.stopped /\ writer'.inUse = writer.inUse
BY DEF TypeOK, Writers

LEMMA WriterStops ==
  ASSUME TypeOK, writer' = [writer EXCEPT !.stopped = TRUE]
  PROVE  /\ writer' \in Writers /\ writer'.started = writer.started
         /\ writer'.stopped /\ writer'.inUse = writer.inUse
BY DEF TypeOK, Writers

LEMMA WriterTaken ==
  ASSUME TypeOK, writer' = [writer EXCEPT !.inUse = TRUE]
  PROVE  /\ writer' \in Writers /\ writer'.started = writer.started
         /\ writer'.stopped = writer.stopped /\ writer'.inUse
BY DEF TypeOK, Writers

LEMMA WriterReleased ==
  ASSUME TypeOK, releaseInternal
  PROVE  /\ writer' \in Writers /\ writer'.started = writer.started
         /\ writer'.stopped = writer.stopped /\ ~ writer'.inUse
BY DEF TypeOK, Writers, releaseInternal

\* The state, but for the threads and the counters of the two wait groups.
Holders == Stoppers \cup {"free"}
Ops     == {"none", "run", "paused", "get", "start", "woken", "write", "raise", "close", "end"}
Ctls    == {"rest", "add", "store", "halt", "load", "swap"}
Buckets == {"free", "admin", "ctl"}
Timers  == {"none", "set", "off"}
Reports == States \cup {"none", "abend"}

Service ==
  /\ state \in States /\ abend \in BOOLEAN /\ timings \in BOOLEAN /\ sv \in Servicer /\ lock \in Holders
  /\ stopOp \in BOOLEAN /\ stopExec \in BOOLEAN /\ results \in BOOLEAN
Operators ==
  op \in Ops /\ opStop \in BOOLEAN /\ items \in 0..MaxItems /\ cut \in BOOLEAN /\ writer \in Writers
Surroundings ==
  /\ pauseAt \in BOOLEAN /\ pauses \in 0..MaxPauses /\ ctl \in Ctls
  /\ listed \in BOOLEAN /\ bucket \in Buckets
  /\ timer \in Timers /\ gone \in BOOLEAN /\ acts \in 0..MaxStops /\ report \in Reports
  /\ upset \subseteq Disturbances
Rest == Service /\ Operators /\ Surroundings

LEMMA ServicerMembers ==
  /\ "queued" \in Servicer /\ "build" \in Servicer /\ "notify" \in Servicer /\ "run" \in Servicer
  /\ "prefix" \in Servicer /\ "select" \in Servicer /\ "internal" \in Servicer /\ "waitop" \in Servicer
  /\ "wokeop" \in Servicer /\ "suffix" \in Servicer /\ "undone" \in Servicer /\ "failed" \in Servicer
  /\ "unlist" \in Servicer /\ "stoptimer" \in Servicer /\ "gate" \in Servicer /\ "add" \in Servicer
  /\ "done" \in Servicer /\ "pooled" \in Servicer
BY Zenon DEF Servicer

LEMMA OpsMembers ==
  /\ "none" \in Ops /\ "run" \in Ops /\ "paused" \in Ops /\ "get" \in Ops /\ "start" \in Ops
  /\ "woken" \in Ops /\ "write" \in Ops /\ "raise" \in Ops /\ "close" \in Ops /\ "end" \in Ops
BY Zenon DEF Ops

LEMMA CtlsMembers ==
  /\ "rest" \in Ctls /\ "add" \in Ctls /\ "store" \in Ctls /\ "halt" \in Ctls /\ "load" \in Ctls
  /\ "swap" \in Ctls
BY Zenon DEF Ctls

LEMMA BucketsMembers ==
  /\ "free" \in Buckets /\ "admin" \in Buckets /\ "ctl" \in Buckets
BY Zenon DEF Buckets

LEMMA TimersMembers ==
  /\ "none" \in Timers /\ "set" \in Timers /\ "off" \in Timers
BY Zenon DEF Timers

LEMMA HolderMembers == "free" \in Holders /\ \A t \in Stoppers : t \in Holders
BY Zenon DEF Holders

LEMMA ReportType ==
  ASSUME TypeOK
  PROVE  State \in Reports
BY StateTypes, Zenon DEF Reports

LEMMA ActsType ==
  ASSUME TypeOK, Intervene
  PROVE  acts' \in 0..MaxStops
BY BoundsAssumption DEF TypeOK, Intervene

LEMMA PausesType ==
  ASSUME TypeOK, pauses < MaxPauses
  PROVE  pauses + 1 \in 0..MaxPauses
BY BoundsAssumption DEF TypeOK

LEMMA ItemsType ==
  ASSUME TypeOK, Tree, op = "write"
  PROVE  items + 1 \in 0..MaxItems
BY BoundsAssumption DEF TypeOK, Tree

LEMMA Upsets ==
  /\ \A t : Early(t) \subseteq Disturbances /\ Overtaking(t) \subseteq Disturbances
  /\ \A b \in BOOLEAN : Double(b) \subseteq Disturbances
  /\ {"late"} \subseteq Disturbances /\ {"wake"} \subseteq Disturbances /\ {} \subseteq Disturbances
BY Zenon DEF Early, Overtaking, Double, Disturbances

LEMMA RestServe ==
  ASSUME TypeOK, Rest, Serve
  PROVE  Rest'
<1>1. CASE Servicing
  <2>1. Service'
    BY <1>1, StateTypes, ServicerMembers, Zenon DEF Rest, Service, Servicing, Serving, stopVars
  <2>2. Operators'
    BY <1>1, Zenon DEF Rest, Operators, Servicing, opVars
  <2>3. Surroundings'
    BY <1>1, Zenon DEF Rest, Surroundings, Servicing, pauseVars, listVars, envVars
  <2> QED
    BY <2>1, <2>2, <2>3, Zenon DEF Rest
<1>2. CASE Fail
  <2>1. Service'
    BY <1>2, StateTypes, ServicerMembers, Zenon DEF Rest, Service, Fail, Serving
  <2>2. Operators'
    BY <1>2, Zenon DEF Rest, Operators, Fail, opVars
  <2>3. Surroundings'
    BY <1>2, Zenon DEF Rest, Surroundings, Fail, pauseVars, listVars, envVars
  <2> QED
    BY <2>1, <2>2, <2>3, Zenon DEF Rest
<1>3. CASE Failed
  <2>1. Service'
    BY <1>3, ServicerMembers, Zenon DEF Rest, Service, Failed, Serving, reqVars
  <2>2. Operators'
    BY <1>3, Zenon DEF Rest, Operators, Failed, opVars
  <2>3. Surroundings'
    BY <1>3, ReportType, Zenon DEF Rest, Surroundings, Failed, pauseVars, listVars, envVars
  <2> QED
    BY <2>1, <2>2, <2>3, Zenon DEF Rest
<1>4. CASE Build
  <2>1. Service'
    BY <1>4, ServicerMembers, Zenon DEF Rest, Service, Build, Step, Serving, stopVars
  <2>2. Operators'
    BY <1>4, Zenon DEF Rest, Operators, Build, opVars
  <2>3. Surroundings'
    BY <1>4, TimersMembers, Zenon DEF Rest, Surroundings, Build, pauseVars, listVars
  <2> QED
    BY <2>1, <2>2, <2>3, Zenon DEF Rest
<1>5. CASE NotifyStop
  <2>1. Service'
    BY <1>5, ServicerMembers, Zenon DEF Rest, Service, NotifyStop, Step, Serving, stopVars
  <2>2. Operators'
    BY <1>5, Zenon DEF Rest, Operators, NotifyStop, opVars
  <2>3. Surroundings'
    BY <1>5, Zenon DEF Rest, Surroundings, NotifyStop, pauseVars, listVars, envVars
  <2> QED
    BY <2>1, <2>2, <2>3, Zenon DEF Rest
<1>6. CASE RunOnce
  <2>1. Service'
    BY <1>6, ServicerMembers, Zenon DEF Rest, Service, RunOnce, Step, Serving, reqVars, stopVars
  <2>2. Operators'
    BY <1>6, OpsMembers, Zenon DEF Rest, Operators, RunOnce
  <2>3. Surroundings'
    BY <1>6, Zenon DEF Rest, Surroundings, RunOnce, pauseVars, listVars, envVars
  <2> QED
    BY <2>1, <2>2, <2>3, Zenon DEF Rest
<1>7. CASE Prefix
  <2>1. Service'
    BY <1>7, ServicerMembers, Zenon DEF Rest, Service, Prefix, Step, Serving, reqVars, stopVars
  <2>2. Operators'
    BY <1>7, WriterStarts, OpsMembers, Zenon DEF Rest, Operators, Prefix
  <2>3. Surroundings'
    BY <1>7, Zenon DEF Rest, Surroundings, Prefix, pauseVars, listVars, envVars
  <2> QED
    BY <2>1, <2>2, <2>3, Zenon DEF Rest
<1>8. CASE ExecResults
  <2>1. Service'
    BY <1>8, ServicerMembers, Zenon DEF Rest, Service, ExecResults, Step, Serving
  <2>2. Operators'
    BY <1>8, Zenon DEF Rest, Operators, ExecResults, opVars
  <2>3. Surroundings'
    BY <1>8, Zenon DEF Rest, Surroundings, ExecResults, pauseVars, listVars, envVars
  <2> QED
    BY <2>1, <2>2, <2>3, Zenon DEF Rest
<1>9. CASE ExecStop
  <2>1. Service'
    BY <1>9, ServicerMembers, Zenon DEF Rest, Service, ExecStop, Step, Serving, stopVars
  <2>2. Operators'
    BY <1>9, Zenon DEF Rest, Operators, ExecStop, opVars
  <2>3. Surroundings'
    BY <1>9, Zenon DEF Rest, Surroundings, ExecStop, pauseVars, listVars, envVars
  <2> QED
    BY <2>1, <2>2, <2>3, Zenon DEF Rest
<1>10. CASE ExecGone
  <2>1. Service'
    BY <1>10, ServicerMembers, Zenon DEF Rest, Service, ExecGone, Step, Serving, reqVars
  <2>2. Operators'
    BY <1>10, Zenon DEF Rest, Operators, ExecGone, opVars
  <2>3. Surroundings'
    BY <1>10, Zenon DEF Rest, Surroundings, ExecGone, pauseVars, listVars, envVars
  <2> QED
    BY <2>1, <2>2, <2>3, Zenon DEF Rest
<1>11. CASE getInternal
  <2>1. writer' \in Writers
    BY <1>11, WriterWaits, WriterStops, Zenon DEF getInternal
  <2>2. sv' \in Servicer
    BY <1>11, ServicerMembers, Zenon DEF getInternal
  <2>3. upset' \subseteq Disturbances
    BY <1>11, Upsets, Zenon DEF getInternal, Rest, Surroundings
  <2>4. UNCHANGED <<reqVars, stopVars, opVars, pauseVars, listVars, envVars, report>>
    BY <1>11, Zenon DEF getInternal
  <2> QED
    <3>1. Service'
      BY <2>1, <2>2, <2>3, <2>4, Zenon DEF Rest, Service, reqVars, stopVars
    <3>2. Operators'
      BY <2>1, <2>2, <2>3, <2>4, Zenon DEF Rest, Operators, opVars
    <3>3. Surroundings'
      BY <2>1, <2>2, <2>3, <2>4, Zenon DEF Rest, Surroundings, pauseVars, listVars, envVars
    <3> QED
      BY <3>1, <3>2, <3>3, Zenon DEF Rest
<1>12. CASE WokeInternal
  <2>1. Service'
    BY <1>12, ServicerMembers, Zenon DEF Rest, Service, WokeInternal, Step, Serving, reqVars, stopVars
  <2>2. Operators'
    BY <1>12, WriterStops, Zenon DEF Rest, Operators, WokeInternal, opVars
  <2>3. Surroundings'
    BY <1>12, Zenon DEF Rest, Surroundings, WokeInternal, pauseVars, listVars, envVars
  <2> QED
    BY <2>1, <2>2, <2>3, Zenon DEF Rest
<1>13. CASE StatementFails
  <2>1. Service'
    BY <1>13, ServicerMembers, Zenon DEF Rest, Service, StatementFails, Serving, reqVars
  <2>2. Operators'
    BY <1>13, Zenon DEF Rest, Operators, StatementFails, opVars
  <2>3. Surroundings'
    BY <1>13, ActsType, Zenon DEF Rest, Surroundings, StatementFails, pauseVars, listVars
  <2> QED
    BY <2>1, <2>2, <2>3, Zenon DEF Rest
<1>14. CASE Suffix
  <2>1. Service'
    BY <1>14, ServicerMembers, Zenon DEF Rest, Service, Suffix, Step, Serving, reqVars, stopVars
  <2>2. Operators'
    BY <1>14, Zenon DEF Rest, Operators, Suffix, opVars
  <2>3. Surroundings'
    BY <1>14, ReportType, Zenon DEF Rest, Surroundings, Suffix, pauseVars, listVars, envVars
  <2> QED
    BY <2>1, <2>2, <2>3, Zenon DEF Rest
<1>15. CASE Unlist
  <2>1. Service'
    BY <1>15, ServicerMembers, Zenon DEF Rest, Service, Unlist, Step, Serving, reqVars, stopVars
  <2>2. Operators'
    BY <1>15, Zenon DEF Rest, Operators, Unlist, opVars
  <2>3. Surroundings'
    BY <1>15, Zenon DEF Rest, Surroundings, Unlist, pauseVars, envVars
  <2> QED
    BY <2>1, <2>2, <2>3, Zenon DEF Rest
<1>16. CASE StopTimer
  <2>1. Service'
    BY <1>16, ServicerMembers, Zenon DEF Rest, Service, StopTimer, Step, Serving, reqVars, stopVars
  <2>2. Operators'
    BY <1>16, Zenon DEF Rest, Operators, StopTimer, opVars
  <2>3. Surroundings'
    BY <1>16, TimersMembers, Zenon DEF Rest, Surroundings, StopTimer, pauseVars, listVars
  <2> QED
    BY <2>1, <2>2, <2>3, Zenon DEF Rest
<1>17. CASE CompleteGate
  <2>1. Service'
    BY <1>17, ServicerMembers, Zenon DEF Rest, Service, CompleteGate, Step, Serving, reqVars, stopVars
  <2>2. Operators'
    BY <1>17, Zenon DEF Rest, Operators, CompleteGate, opVars
  <2>3. Surroundings'
    BY <1>17, Zenon DEF Rest, Surroundings, CompleteGate, pauseVars, listVars, envVars
  <2> QED
    BY <2>1, <2>2, <2>3, Zenon DEF Rest
<1>18. CASE CompleteAdd
  <2>1. Service'
    BY <1>18, ServicerMembers, Zenon DEF Rest, Service, CompleteAdd, Step, Serving, stopVars
  <2>2. Operators'
    BY <1>18, Zenon DEF Rest, Operators, CompleteAdd, opVars
  <2>3. Surroundings'
    BY <1>18, Zenon DEF Rest, Surroundings, CompleteAdd, pauseVars, listVars, envVars
  <2> QED
    BY <2>1, <2>2, <2>3, Zenon DEF Rest
<1>19. CASE Done
  <2>1. Service'
    BY <1>19, ServicerMembers, Zenon DEF Rest, Service, Done, Step, Serving, stopVars
  <2>2. Operators'
    BY <1>19, OpsMembers, Zenon DEF Rest, Operators, Done
  <2>3. Surroundings'
    BY <1>19, Zenon DEF Rest, Surroundings, Done, pauseVars, listVars, envVars
  <2> QED
    BY <2>1, <2>2, <2>3, Zenon DEF Rest
<1> QED
  BY <1>1, <1>2, <1>3, <1>4, <1>5, <1>6, <1>7, <1>8, <1>9, <1>10, <1>11, <1>12, <1>13, <1>14, <1>15,
     <1>16, <1>17, <1>18, <1>19, Zenon DEF Serve

LEMMA RestOperate ==
  ASSUME TypeOK, Rest, Tree, Operate
  PROVE  Rest'
<1>1. CASE OpSend
  <2>1. Service'
    BY <1>1, Zenon DEF Rest, Service, OpSend, reqVars, stopVars
  <2>2. Operators'
    BY <1>1, OpsMembers, Zenon DEF Rest, Operators, OpSend
  <2>3. Surroundings'
    BY <1>1, Zenon DEF Rest, Surroundings, OpSend, pauseVars, listVars, envVars
  <2> QED
    BY <2>1, <2>2, <2>3, Zenon DEF Rest
<1>2. CASE OpResume
  <2>1. Service'
    BY <1>2, Zenon DEF Rest, Service, OpResume, reqVars, stopVars
  <2>2. Operators'
    BY <1>2, OpsMembers, Zenon DEF Rest, Operators, OpResume
  <2>3. Surroundings'
    BY <1>2, Zenon DEF Rest, Surroundings, OpResume, pauseVars, listVars, envVars
  <2> QED
    BY <2>1, <2>2, <2>3, Zenon DEF Rest
<1>3. CASE getExternal
  <2>1. writer' \in Writers
    BY <1>3, WriterWaits, WriterTaken, Zenon DEF getExternal, Rest, Operators
  <2>2. op' \in Ops /\ cut' \in BOOLEAN
    BY <1>3, OpsMembers, Zenon DEF getExternal, Rest, Operators
  <2>3. UNCHANGED <<reqVars, stopVars, opStop, items, pauseVars, listVars, sv, envVars, report, upset>>
    BY <1>3, Zenon DEF getExternal
  <2> QED
    <3>1. Service'
      BY <2>1, <2>2, <2>3, Zenon DEF Rest, Service, reqVars, stopVars
    <3>2. Operators'
      BY <2>1, <2>2, <2>3, Zenon DEF Rest, Operators
    <3>3. Surroundings'
      BY <2>1, <2>2, <2>3, Zenon DEF Rest, Surroundings, pauseVars, listVars, envVars
    <3> QED
      BY <3>1, <3>2, <3>3, Zenon DEF Rest
<1>4. CASE WokeExternal
  <2>1. Service'
    BY <1>4, Zenon DEF Rest, Service, WokeExternal, reqVars, stopVars
  <2>2. Operators'
    BY <1>4, WriterTaken, OpsMembers, Zenon DEF Rest, Operators, WokeExternal
  <2>3. Surroundings'
    BY <1>4, Zenon DEF Rest, Surroundings, WokeExternal, pauseVars, listVars, envVars
  <2> QED
    BY <2>1, <2>2, <2>3, Zenon DEF Rest
<1>5. CASE Result
  <2>1. Service'
    BY <1>5, ServicerMembers, Zenon DEF Rest, Service, Result, releaseInternal, reqVars, stopVars
  <2>2. Operators'
    BY <1>5, WriterReleased, ItemsType, OpsMembers, Zenon DEF Rest, Operators, Result
  <2>3. Surroundings'
    BY <1>5, Zenon DEF Rest, Surroundings, Result, pauseVars, listVars, envVars
  <2> QED
    BY <2>1, <2>2, <2>3, Zenon DEF Rest
<1>6. CASE ResultFails
  <2>1. Service'
    BY <1>6, StateTypes, ServicerMembers, Zenon DEF Rest, Service, ResultFails, releaseInternal, stopVars
  <2>2. Operators'
    BY <1>6, WriterReleased, OpsMembers, Zenon DEF Rest, Operators, ResultFails
  <2>3. Surroundings'
    BY <1>6, Zenon DEF Rest, Surroundings, ResultFails, pauseVars, listVars
  <2> QED
    BY <2>1, <2>2, <2>3, Zenon DEF Rest
<1>7. CASE OpRaise
  <2>1. Service'
    BY <1>7, Zenon DEF Rest, Service, OpRaise, reqVars
  <2>2. Operators'
    BY <1>7, OpsMembers, Zenon DEF Rest, Operators, OpRaise
  <2>3. Surroundings'
    BY <1>7, ActsType, Zenon DEF Rest, Surroundings, OpRaise, pauseVars, listVars
  <2> QED
    BY <2>1, <2>2, <2>3, Zenon DEF Rest
<1>8. CASE OpRaised
  <2>1. Service'
    BY <1>8, ServicerMembers, Zenon DEF Rest, Service, OpRaised, releaseInternal, reqVars, stopVars
  <2>2. Operators'
    BY <1>8, WriterReleased, OpsMembers, Zenon DEF Rest, Operators, OpRaised
  <2>3. Surroundings'
    BY <1>8, Zenon DEF Rest, Surroundings, OpRaised, pauseVars, listVars, envVars
  <2> QED
    BY <2>1, <2>2, <2>3, Zenon DEF Rest
<1>9. CASE OpEnds
  <2>1. Service'
    BY <1>9, Zenon DEF Rest, Service, OpEnds, reqVars, stopVars
  <2>2. Operators'
    BY <1>9, OpsMembers, Zenon DEF Rest, Operators, OpEnds
  <2>3. Surroundings'
    BY <1>9, Zenon DEF Rest, Surroundings, OpEnds, pauseVars, listVars, envVars
  <2> QED
    BY <2>1, <2>2, <2>3, Zenon DEF Rest
<1>10. CASE OpClose
  <2>1. Service'
    BY <1>10, Zenon DEF Rest, Service, OpClose, stopVars
  <2>2. Operators'
    BY <1>10, OpsMembers, Zenon DEF Rest, Operators, OpClose
  <2>3. Surroundings'
    BY <1>10, Zenon DEF Rest, Surroundings, OpClose, pauseVars, listVars, envVars
  <2> QED
    BY <2>1, <2>2, <2>3, Zenon DEF Rest
<1> QED
  BY <1>1, <1>2, <1>3, <1>4, <1>5, <1>6, <1>7, <1>8, <1>9, <1>10, Zenon DEF Operate

LEMMA RestControl ==
  ASSUME TypeOK, Rest, Control \/ Expire \/ AdminDelete \/ ClientGone
  PROVE  Rest'
<1>1. CASE CtlPause
  <2>1. Service'
    BY <1>1, Zenon DEF Rest, Service, CtlPause, reqVars, stopVars
  <2>2. Operators'
    BY <1>1, Zenon DEF Rest, Operators, CtlPause, opVars
  <2>3. Surroundings'
    BY <1>1, PausesType, CtlsMembers, BucketsMembers, Zenon DEF Rest, Surroundings, CtlPause, Pick,
       envVars
  <2> QED
    BY <2>1, <2>2, <2>3, Zenon DEF Rest
<1>2. CASE CtlAdd
  <2>1. Service'
    BY <1>2, Zenon DEF Rest, Service, CtlAdd, reqVars, stopVars
  <2>2. Operators'
    BY <1>2, Zenon DEF Rest, Operators, CtlAdd, opVars
  <2>3. Surroundings'
    BY <1>2, CtlsMembers, Zenon DEF Rest, Surroundings, CtlAdd, listVars, envVars
  <2> QED
    BY <2>1, <2>2, <2>3, Zenon DEF Rest
<1>3. CASE CtlStore
  <2>1. Service'
    BY <1>3, Zenon DEF Rest, Service, CtlStore, reqVars, stopVars
  <2>2. Operators'
    BY <1>3, Zenon DEF Rest, Operators, CtlStore, opVars
  <2>3. Surroundings'
    BY <1>3, Upsets, CtlsMembers, BucketsMembers, Zenon DEF Rest, Surroundings, CtlStore, envVars
  <2> QED
    BY <2>1, <2>2, <2>3, Zenon DEF Rest
<1>4. CASE CtlPick
  <2>1. Service'
    BY <1>4, Zenon DEF Rest, Service, CtlPick, reqVars, stopVars
  <2>2. Operators'
    BY <1>4, Zenon DEF Rest, Operators, CtlPick, opVars
  <2>3. Surroundings'
    BY <1>4, ActsType, CtlsMembers, Zenon DEF Rest, Surroundings, CtlPick, Pick, listVars
  <2> QED
    BY <2>1, <2>2, <2>3, Zenon DEF Rest
<1>5. CASE Halt
  <2>1. Service'
    BY <1>5, Zenon DEF Rest, Service, Halt
  <2>2. Operators'
    BY <1>5, Zenon DEF Rest, Operators, Halt, opVars
  <2>3. Surroundings'
    BY <1>5, CtlsMembers, Zenon DEF Rest, Surroundings, Halt, listVars, envVars
  <2> QED
    BY <2>1, <2>2, <2>3, Zenon DEF Rest
<1>6. CASE CtlResume
  <2>1. Service'
    BY <1>6, Zenon DEF Rest, Service, CtlResume, reqVars, stopVars
  <2>2. Operators'
    BY <1>6, Zenon DEF Rest, Operators, CtlResume, opVars
  <2>3. Surroundings'
    BY <1>6, CtlsMembers, Zenon DEF Rest, Surroundings, CtlResume, Pick, listVars, envVars
  <2> QED
    BY <2>1, <2>2, <2>3, Zenon DEF Rest
<1>7. CASE CtlLoad
  <2>1. Service'
    BY <1>7, Zenon DEF Rest, Service, CtlLoad, reqVars, stopVars
  <2>2. Operators'
    BY <1>7, Zenon DEF Rest, Operators, CtlLoad, opVars
  <2>3. Surroundings'
    BY <1>7, CtlsMembers, Zenon DEF Rest, Surroundings, CtlLoad, listVars, envVars
  <2> QED
    BY <2>1, <2>2, <2>3, Zenon DEF Rest
<1>8. CASE CtlSwap
  <2>1. Service'
    BY <1>8, Zenon DEF Rest, Service, CtlSwap, reqVars, stopVars
  <2>2. Operators'
    BY <1>8, Zenon DEF Rest, Operators, CtlSwap, opVars
  <2>3. Surroundings'
    BY <1>8, Upsets, CtlsMembers, Zenon DEF Rest, Surroundings, CtlSwap, Unpause, listVars, envVars
  <2> QED
    BY <2>1, <2>2, <2>3, Zenon DEF Rest
<1>9. CASE Expire
  <2>1. Service'
    BY <1>9, Zenon DEF Rest, Service, Expire, reqVars
  <2>2. Operators'
    BY <1>9, Zenon DEF Rest, Operators, Expire, opVars
  <2>3. Surroundings'
    BY <1>9, ActsType, TimersMembers, Zenon DEF Rest, Surroundings, Expire, pauseVars, listVars
  <2> QED
    BY <2>1, <2>2, <2>3, Zenon DEF Rest
<1>10. CASE AdminDelete
  <2>1. Service'
    BY <1>10, Zenon DEF Rest, Service, AdminDelete, reqVars
  <2>2. Operators'
    BY <1>10, Zenon DEF Rest, Operators, AdminDelete, opVars
  <2>3. Surroundings'
    BY <1>10, ActsType, BucketsMembers, Zenon DEF Rest, Surroundings, AdminDelete, pauseVars
  <2> QED
    BY <2>1, <2>2, <2>3, Zenon DEF Rest
<1>11. CASE ClientGone
  <2>1. Service'
    BY <1>11, Zenon DEF Rest, Service, ClientGone, reqVars, stopVars
  <2>2. Operators'
    BY <1>11, Zenon DEF Rest, Operators, ClientGone, opVars
  <2>3. Surroundings'
    BY <1>11, ActsType, Zenon DEF Rest, Surroundings, ClientGone, pauseVars, listVars
  <2> QED
    BY <2>1, <2>2, <2>3, Zenon DEF Rest
<1> QED
  BY <1>1, <1>2, <1>3, <1>4, <1>5, <1>6, <1>7, <1>8, <1>9, <1>10, <1>11, Zenon DEF Control

LEMMA RestStop ==
  ASSUME TypeOK, Plans, Rest, NEW t \in Stoppers, Stop(t)
  PROVE  Rest'
<1>1. CASE StopSet(t)
  <2>1. Head(todo[t]) \in {"fatal", "timeout", "stopped", "closed", "completed"}
    BY <1>1, Heads, Zenon DEF StopSet
  <2>2. Head(todo[t]) \in States
    BY <2>1, Zenon DEF States, Stopped
  <2>3. state' \in States
    BY <1>1, <2>2, StateTypes, Zenon DEF StopSet
  <2> QED
    <3>1. Service'
      BY <1>1, <2>3, Zenon DEF Rest, Service, StopSet
    <3>2. Operators'
      BY <1>1, <2>3, Zenon DEF Rest, Operators, StopSet, opVars
    <3>3. Surroundings'
      BY <1>1, <2>3, Upsets, Zenon DEF Rest, Surroundings, StopSet, pauseVars, listVars, envVars
    <3> QED
      BY <3>1, <3>2, <3>3, Zenon DEF Rest
<1>2. CASE StopTake(t)
  <2>1. Service'
    BY <1>2, HolderMembers, Zenon DEF Rest, Service, StopTake, Take
  <2>2. Operators'
    BY <1>2, Zenon DEF Rest, Operators, StopTake, opVars
  <2>3. Surroundings'
    BY <1>2, Upsets, Zenon DEF Rest, Surroundings, StopTake, pauseVars, listVars, envVars
  <2> QED
    BY <2>1, <2>2, <2>3, Zenon DEF Rest
<1>3. CASE StopUnpause(t)
  <2>1. Service'
    BY <1>3, HolderMembers, Zenon DEF Rest, Service, StopUnpause, Take
  <2>2. Operators'
    BY <1>3, Zenon DEF Rest, Operators, StopUnpause, opVars
  <2>3. Surroundings'
    BY <1>3, Upsets, Zenon DEF Rest, Surroundings, StopUnpause, Unpause, listVars, envVars
  <2> QED
    BY <2>1, <2>2, <2>3, Zenon DEF Rest
<1>4. CASE StopGate(t)
  <2>1. Service'
    BY <1>4, Zenon DEF Rest, Service, StopGate, reqVars
  <2>2. Operators'
    BY <1>4, Zenon DEF Rest, Operators, StopGate, opVars
  <2>3. Surroundings'
    BY <1>4, Zenon DEF Rest, Surroundings, StopGate, pauseVars, listVars, envVars
  <2> QED
    BY <2>1, <2>2, <2>3, Zenon DEF Rest
<1>5. CASE StopAdd(t)
  <2>1. Service'
    BY <1>5, Zenon DEF Rest, Service, StopAdd
  <2>2. Operators'
    BY <1>5, Zenon DEF Rest, Operators, StopAdd, opVars
  <2>3. Surroundings'
    BY <1>5, Zenon DEF Rest, Surroundings, StopAdd, pauseVars, listVars
  <2> QED
    BY <2>1, <2>2, <2>3, Zenon DEF Rest
<1>6. CASE StopSend(t)
  <2>1. Service'
    BY <1>6, Zenon DEF Rest, Service, StopSend
  <2>2. Operators'
    BY <1>6, OpsMembers, Zenon DEF Rest, Operators, StopSend
  <2>3. Surroundings'
    BY <1>6, Zenon DEF Rest, Surroundings, StopSend, pauseVars, listVars, envVars
  <2> QED
    BY <2>1, <2>2, <2>3, Zenon DEF Rest
<1>7. CASE StopSignal(t)
  <2>1. Service'
    BY <1>7, Zenon DEF Rest, Service, StopSignal
  <2>2. Operators'
    BY <1>7, Zenon DEF Rest, Operators, StopSignal, opVars
  <2>3. Surroundings'
    BY <1>7, Upsets, BucketsMembers, Zenon DEF Rest, Surroundings, StopSignal, pauseVars, listVars,
       envVars
  <2> QED
    BY <2>1, <2>2, <2>3, Zenon DEF Rest
<1> QED
  BY <1>1, <1>2, <1>3, <1>4, <1>5, <1>6, <1>7, Zenon DEF Stop

LEMMA WaitGroupType ==
  ASSUME TypeOK, Next
  PROVE  pauseWg' \in Int
<1>1. pauseWg' = pauseWg \/ pauseWg' = pauseWg + 1 \/ pauseWg' = pauseWg - 1
  <2>1. ASSUME NEW t \in Stoppers, StopOn(t) \/ StopSignal(t)
        PROVE  pauseWg' = pauseWg \/ pauseWg' = pauseWg - 1
    BY <2>1, Zenon DEF StopOn, StopSet, StopTake, StopUnpause, StopGate, StopAdd, StopSend, StopSignal,
       Unpause, pauseVars
  <2>2. CASE ServeOn
    BY <2>2, Zenon DEF ServeOn, Servicing, Build, NotifyStop, RunOnce, Prefix, ExecStop, getInternal,
       WokeInternal, Suffix, Unlist, StopTimer, CompleteGate, CompleteAdd, Done, pauseVars
  <2>3. CASE Fail \/ Failed \/ ExecResults \/ ExecGone \/ StatementFails
    BY <2>3, Zenon DEF Fail, Failed, ExecResults, ExecGone, StatementFails, pauseVars
  <2>4. CASE OperateOn \/ OpRaise
    BY <2>4, Zenon DEF OperateOn, OpSend, OpResume, getExternal, WokeExternal, Result, ResultFails,
       OpRaise, OpRaised, OpEnds, OpClose, pauseVars
  <2>5. CASE Control
    BY <2>5, Zenon DEF Control, CtlPause, CtlAdd, CtlStore, CtlPick, Halt, CtlResume, CtlLoad, CtlSwap,
       Unpause, pauseVars
  <2>6. CASE Expire \/ AdminDelete \/ ClientGone
    BY <2>6, Zenon DEF Expire, AdminDelete, ClientGone, pauseVars
  <2> QED
    BY <2>1, <2>2, <2>3, <2>4, <2>5, <2>6, NextCases, Zenon
<1>2. pauseWg \in Int
  BY Zenon DEF TypeOK
<1> QED
  BY <1>1, <1>2

LEMMA TypeStep ==
  ASSUME TypeOK, Plans, Locks, Pausing, Gating, Tree, Next
  PROVE  TypeOK'
<1>1. Rest
  BY Zenon DEF TypeOK, Rest, Service, Operators, Surroundings, Holders, Ops, Ctls, Buckets, Timers,
     Reports, Writers
<1>2. Rest'
  BY <1>1, RestServe, RestOperate, RestControl, RestStop, Zenon DEF Next
<1>3. Gating' /\ Pausing'
  BY GatingStep, PausingStep, Zenon
<1>4. gate' \in 0..2
  BY <1>3 DEF Gating
<1>5. "double" \notin upset' => pauseWg' \in {0, 1}
  BY <1>3, Zenon DEF Pausing
<1> QED
  BY <1>2, <1>4, <1>5, WaitGroupType, ThreadsType, Zenon DEF TypeOK, Rest, Service, Operators,
     Surroundings, Holders, Ops, Ctls, Buckets, Timers, Reports, Writers

----------------------------------------------------------------------------
(* The operator tree.                                                      *)

LEMMA BareStop ==
  ASSUME TypeOK, Bare, NEW t \in Stoppers, StopOn(t)
  PROVE  Bare'
<1>1. UNCHANGED <<sv, timings>> /\ (op' = op \/ op = "none") /\ \A u \in Stoppers \ {t} : th'[u] = th[u]
  BY StopsOn, Zenon
<1>2. Treeless' <=> Treeless
  BY <1>1, Zenon DEF Treeless
<1>3. stopOp' => stopOp
  BY Zenon DEF StopOn, StopSet, StopTake, Take, StopUnpause, StopGate, StopAdd, StopSend, reqVars
<1>4. ASSUME ~ stopOp, th[t] \notin Sending
      PROVE  th'[t] \notin Sending /\ op' = op
  <2>1. /\ Goto(t, "take") \/ Goto(t, "unpause") \/ Goto(t, "signal")
        /\ op' = op
    BY <1>4, Zenon DEF StopOn, StopSet, StopTake, Take, StopUnpause, StopGate, StopAdd, StopSend,
       Sending, opVars
  <2>2. th'[t] = "take" \/ th'[t] = "unpause" \/ th'[t] = "signal"
    BY <2>1, Goes, Zenon
  <2> QED
    BY <2>1, <2>2, Zenon DEF Sending
<1>5. Treeless => ~ stopOp' /\ op' = "none" /\ \A u \in Stoppers : th'[u] \notin Sending
  BY <1>1, <1>3, <1>4, Zenon DEF Bare
<1>6. sv' \in {"run", "pooled"} => op' \in {"none", "end"}
  <2>1. CASE op' = op
    BY <1>1, <2>1, Zenon DEF Bare
  <2>2. CASE op' # op
    <3>1. StopSend(t)
      BY <2>2, Zenon DEF StopOn, StopSet, StopTake, StopUnpause, StopGate, StopAdd, opVars
    <3> QED
      BY <2>2, <3>1, Zenon DEF StopSend
  <2> QED
    BY <2>1, <2>2, Zenon
<1>7. ~ timings' => sv' \in {"queued", "build", "failed", "unlist", "stoptimer", "pooled"}
  BY <1>1, Zenon DEF Bare
<1> QED
  BY <1>2, <1>5, <1>6, <1>7, Zenon DEF Bare

\* A step with the same tree, or one that leaves a request without one as it is.
LEMMA BareKept ==
  ASSUME Bare, op' = op, stopOp' => stopOp, Treeless' => Treeless,
         ~ timings' => sv' \in {"queued", "build", "failed", "unlist", "stoptimer", "pooled"},
         sv' \in {"run", "pooled"} => Treeless \/ sv' = sv,
         \A u \in Stoppers : th'[u] \in Sending => th[u] \in Sending
  PROVE  Bare'
BY Zenon DEF Bare

LEMMA BareServe ==
  ASSUME Bare, ServeOn
  PROVE  Bare'
<1>0. th' = th
  BY ServesOn, Zenon
<1>1. CASE Servicing
  <2>1. sv = "queued" /\ sv' = "build" /\ UNCHANGED <<op, stopOp, timings>>
    BY <1>1, Zenon DEF Servicing, Serving, opVars
  <2> QED
    BY <1>0, <2>1, BareKept, Zenon DEF Treeless, Unbuilt
<1>2. CASE Build
  <2>1. sv = "build" /\ sv' \in {"failed", "notify"} /\ timings' /\ UNCHANGED <<op, stopOp>>
    BY <1>2, Zenon DEF Build, Step, Serving, opVars
  <2> QED
    BY <1>0, <2>1, BareKept, Zenon DEF Treeless, Unbuilt
<1>3. CASE NotifyStop
  <2>1. sv = "notify" /\ sv' = "run" /\ UNCHANGED <<op, timings>>
    BY <1>3, Zenon DEF NotifyStop, Step, Serving, opVars
  <2>2. timings /\ op = "none"
    BY <2>1, Zenon DEF Bare, Treeless, Unbuilt
  <2> QED
    BY <2>1, <2>2, Zenon DEF Bare, Treeless, Unbuilt
<1>4. CASE RunOnce
  <2>1. sv = "run" /\ sv' = "prefix" /\ UNCHANGED timings
    BY <1>4, Zenon DEF RunOnce, Step, Serving, reqVars
  <2>2. timings
    BY <2>1, Zenon DEF Bare
  <2> QED
    BY <2>1, <2>2, Zenon DEF Bare, Treeless, Unbuilt
<1>5. CASE Prefix
  <2>1. sv = "prefix" /\ sv' = "select" /\ UNCHANGED timings
    BY <1>5, Zenon DEF Prefix, Step, Serving, reqVars
  <2>2. timings
    BY <2>1, Zenon DEF Bare
  <2> QED
    BY <2>1, <2>2, Zenon DEF Bare, Treeless, Unbuilt
<1>6. CASE ExecStop \/ getInternal \/ WokeInternal \/ CompleteGate
  <2>1. UNCHANGED <<op, timings>> /\ sv \in {"select", "internal", "wokeop", "gate"} /\ stopOp' = stopOp
    BY <1>6, Zenon DEF ExecStop, getInternal, WokeInternal, CompleteGate, Step, Serving, reqVars, opVars
  <2>2. sv' \in {"internal", "waitop", "suffix", "add"}
    BY <1>6, Zenon DEF ExecStop, getInternal, WokeInternal, CompleteGate, Step
  <2>3. timings
    BY <2>1, Zenon DEF Bare
  <2> QED
    BY <2>1, <2>2, <2>3, Zenon DEF Bare, Treeless, Unbuilt
<1>7. CASE Suffix \/ Unlist
  <2>1. /\ UNCHANGED <<op, timings, stopOp>>
        /\ sv \in {"suffix", "undone", "unlist"} /\ sv' \in {"unlist", "stoptimer"}
    BY <1>7, Zenon DEF Suffix, Unlist, Step, Serving, reqVars, opVars
  <2> QED
    BY <1>0, <2>1, BareKept, Zenon DEF Treeless, Unbuilt
<1>8. CASE StopTimer
  <2>1. /\ UNCHANGED <<op, timings, stopOp>> /\ sv = "stoptimer" /\ sv' \in {"gate", "pooled"}
        /\ timings <=> sv' = "gate"
    BY <1>8, Zenon DEF StopTimer, Step, Serving, reqVars, opVars
  <2> QED
    BY <1>0, <2>1, BareKept, Zenon DEF Treeless, Unbuilt
<1>9. CASE CompleteAdd
  <2>1. sv = "add" /\ sv' = "done" /\ UNCHANGED <<op, timings>>
    BY <1>9, Zenon DEF CompleteAdd, Step, Serving, opVars
  <2>2. timings
    BY <2>1, Zenon DEF Bare
  <2> QED
    BY <2>1, <2>2, Zenon DEF Bare, Treeless, Unbuilt
<1>10. CASE Done
  <2>1. sv' = "pooled" /\ op' = "end"
    BY <1>10, Zenon DEF Done, Step
  <2> QED
    BY <2>1, Zenon DEF Bare, Treeless, Unbuilt
<1> QED
  BY <1>1, <1>2, <1>3, <1>4, <1>5, <1>6, <1>7, <1>8, <1>9, <1>10, Zenon DEF ServeOn

LEMMA BareStep ==
  ASSUME TypeOK, Plans, Locks, Bare, Next
  PROVE  Bare'
<1>1. ASSUME NEW t \in Stoppers, StopSignal(t)
      PROVE  Bare'
  <2>1. th[t] = "signal" /\ UNCHANGED <<op, sv>> /\ \A u \in Stoppers \ {t} : th'[u] = th[u]
    BY <1>1, Signals, Zenon
  <2>2. th'[t] = "idle" \/ (t # "admin" /\ th'[t] = "set")
    BY <1>1, SignalsOut, Zenon
  <2>3. UNCHANGED <<stopOp, timings>>
    BY <1>1, Zenon DEF StopSignal
  <2>4. \A u \in Stoppers : th'[u] \in Sending => th[u] \in Sending
    BY <2>1, <2>2, Zenon DEF Sending
  <2>5. ~ timings' => sv' \in {"queued", "build", "failed", "unlist", "stoptimer", "pooled"}
    BY <2>1, <2>3, Zenon DEF Bare
  <2> QED
    BY <2>1, <2>3, <2>4, <2>5, BareKept, Zenon DEF Treeless
<1>2. CASE ServeBegin
  <2>1. \A u \in Stoppers : th'[u] \in Sending => th[u] \in Sending
    BY <1>2, Enters, Zenon DEF Sending
  <2>2. UNCHANGED <<op, stopOp>>
    BY <1>2, Zenon DEF ServeBegin, Fail, Failed, ExecResults, ExecGone, StatementFails, opVars, reqVars
  <2>3. \/ sv \in {"queued", "build"} /\ sv' = "failed"
        \/ sv = "failed" /\ sv' = "unlist" /\ timings' = timings
        \/ sv \in {"select", "suffix"} /\ sv' \in {"suffix", "internal", "undone"} /\ timings' = timings
    BY <1>2, Zenon DEF ServeBegin, Fail, Failed, ExecResults, ExecGone, StatementFails, Step, Serving,
       reqVars
  <2>4. sv \in {"select", "suffix"} => timings
    BY Zenon DEF Bare
  <2>5. CASE sv \in {"queued", "build"} /\ sv' = "failed"
    <3>1. Treeless /\ sv' \notin {"run", "pooled"}
      BY <2>5, Zenon DEF Treeless, Unbuilt
    <3> QED
      BY <2>1, <2>2, <2>5, <3>1, BareKept, Zenon
  <2>6. CASE sv = "failed" /\ sv' = "unlist" /\ timings' = timings
    <3>1. (Treeless' => Treeless) /\ sv' \notin {"run", "pooled"}
      BY <2>6, Zenon DEF Treeless, Unbuilt
    <3> QED
      BY <2>1, <2>2, <2>6, <3>1, BareKept, Zenon
  <2>7. CASE sv \in {"select", "suffix"} /\ sv' \in {"suffix", "internal", "undone"} /\ timings' = timings
    <3>1. timings' /\ ~ Treeless' /\ sv' \notin {"run", "pooled"}
      BY <2>4, <2>7, Zenon DEF Treeless, Unbuilt
    <3> QED
      BY <2>1, <2>2, <3>1, BareKept, Zenon
  <2> QED
    BY <2>3, <2>5, <2>6, <2>7, Zenon
<1>3. CASE OperateOn \/ OpRaise
  <2>1. /\ op \notin {"none", "end"} /\ (sv' = sv \/ sv' = "wokeop")
        /\ UNCHANGED timings
    BY <1>3, OperatesOn, OperatorBegins, Zenon DEF OperateOn, OpSend, OpResume, getExternal,
       WokeExternal, Result, ResultFails, OpRaise, OpRaised, OpEnds, OpClose, reqVars
  <2>2. sv \notin Unbuilt /\ sv \notin {"run", "pooled"} /\ timings
    BY <2>1, Zenon DEF Bare, Treeless
  <2> QED
    BY <2>1, <2>2, Zenon DEF Bare, Treeless, Unbuilt
<1>4. CASE Control \/ Expire \/ AdminDelete \/ ClientGone
  <2>1. \A u \in Stoppers : th'[u] \in Sending => th[u] \in Sending
    BY <1>4, Enters, Zenon DEF Sending
  <2>2. UNCHANGED <<stopOp, timings, sv, op>>
    BY <1>4, ControlFrame, Zenon
  <2>3. ~ timings' => sv' \in {"queued", "build", "failed", "unlist", "stoptimer", "pooled"}
    BY <2>2, Zenon DEF Bare
  <2> QED
    BY <2>1, <2>2, <2>3, BareKept, Zenon DEF Treeless
<1> QED
  BY <1>1, <1>2, <1>3, <1>4, BareStop, BareServe, NextCases, Zenon DEF ServeBegin

\* A step that leaves the tree, its results and its writer as they are.
LEMMA TreeKept ==
  ASSUME Tree, UNCHANGED <<op, items, cut, writer>>, results' => results,
         sv' \in Running \ {"run", "prefix"} => writer.started
  PROVE  Tree'
BY Zenon DEF Tree

LEMMA TreeStop ==
  ASSUME Tree, NEW t \in Stoppers, StopOn(t) \/ StopSignal(t)
  PROVE  Tree'
<1>1. UNCHANGED <<sv, writer, items>>
  BY Zenon DEF StopOn, StopSet, StopTake, StopUnpause, StopGate, StopAdd, StopSend, StopSignal, opVars
<1>2. CASE UNCHANGED <<op, cut, results>>
  BY <1>1, <1>2, TreeKept, Zenon DEF Tree
<1>3. CASE op = "none" /\ op' = "end" /\ results' /\ cut'
  <2>1. ~ writer.inUse
    BY <1>3, Zenon DEF Tree
  <2> QED
    BY <1>1, <1>3, <2>1, Zenon DEF Tree
<1> QED
  BY <1>2, <1>3, Zenon DEF StopOn, StopSet, StopTake, StopUnpause, StopGate, StopAdd, StopSend,
     StopSignal, opVars, reqVars

LEMMA TreeServe ==
  ASSUME TypeOK, Bare, Tree, ServeOn
  PROVE  Tree'
<1>1. CASE Servicing \/ Build \/ NotifyStop
  <2>1. sv' \notin Running \ {"run", "prefix"}
    BY <1>1, Zenon DEF Servicing, Build, NotifyStop, Step, Running
  <2>2. UNCHANGED <<op, items, cut, writer, results>>
    BY <1>1, Zenon DEF Servicing, Build, NotifyStop, opVars
  <2> QED
    BY <2>1, <2>2, TreeKept, Zenon
<1>2. CASE RunOnce
  <2>1. sv' = "prefix" /\ sv = "run" /\ UNCHANGED <<items, cut, writer, results>>
    BY <1>2, Zenon DEF RunOnce, Step, Serving, reqVars
  <2>2. CASE op = "none"
    <3>1. op' = "run" /\ ~ results /\ ~ writer.inUse /\ ~ cut
      BY <1>2, <2>2, Zenon DEF RunOnce, Tree
    <3> QED
      BY <2>1, <3>1, Zenon DEF Tree
  <2>3. CASE op # "none"
    BY <1>2, <2>1, <2>3, TreeKept, Zenon DEF RunOnce
  <2> QED
    BY <2>2, <2>3, Zenon
<1>3. CASE Prefix
  <2>1. writer'.started /\ writer'.inUse = writer.inUse /\ UNCHANGED <<items, cut, results>>
    BY <1>3, WriterStarts, Zenon DEF Prefix, reqVars
  <2>2. CASE op = "start"
    <3>1. op' = "woken" /\ ~ results /\ ~ writer.inUse /\ ~ cut /\ items < MaxItems
      BY <1>3, <2>2, Zenon DEF Prefix, Tree
    <3> QED
      BY <2>1, <3>1, Zenon DEF Tree
  <2>3. CASE op # "start"
    <3>1. op' = op
      BY <1>3, <2>3, Zenon DEF Prefix
    <3> QED
      BY <2>1, <2>3, <3>1, Zenon DEF Tree
  <2> QED
    BY <2>2, <2>3, Zenon
<1>4. CASE ExecStop
  <2>1. sv = "select"
    BY <1>4, Zenon DEF ExecStop, Step, Serving
  <2>2. writer.started
    BY <2>1, Zenon DEF Tree, Running
  <2> QED
    BY <1>4, <2>2, TreeKept, Zenon DEF ExecStop, opVars
<1>5. CASE getInternal \/ WokeInternal
  <2>1. sv \in {"internal", "wokeop"} /\ UNCHANGED <<op, items, cut, results>>
    BY <1>5, Zenon DEF getInternal, WokeInternal, Step, Serving, reqVars, opVars
  <2>2. writer.started
    BY <2>1, Zenon DEF Tree, Running
  <2>3. writer' = [writer EXCEPT !.waiter = TRUE] \/ writer' = [writer EXCEPT !.stopped = TRUE]
    BY <1>5, Zenon DEF getInternal, WokeInternal
  <2>4. writer'.started /\ writer'.inUse = writer.inUse
    BY <2>2, <2>3, WriterWaits, WriterStops, Zenon
  <2>5. op' # "start"
    BY <2>1, <2>2, Zenon DEF Tree
  <2> QED
    BY <2>1, <2>4, <2>5, Zenon DEF Tree
<1>6. CASE Suffix \/ Unlist \/ StopTimer \/ CompleteGate \/ CompleteAdd
  <2>1. sv' \notin Running
    BY <1>6, Zenon DEF Suffix, Unlist, StopTimer, CompleteGate, CompleteAdd, Step, Running
  <2>2. UNCHANGED <<op, items, cut, writer, results>>
    BY <1>6, Zenon DEF Suffix, Unlist, StopTimer, CompleteGate, CompleteAdd, opVars, reqVars
  <2> QED
    BY <2>1, <2>2, TreeKept, Zenon
<1>7. CASE Done
  <2>1. op \in {"none", "end"} /\ op' = "end" /\ sv' = "pooled" /\ UNCHANGED <<items, cut, results, writer>>
    BY <1>7, Zenon DEF Done, Step
  <2>2. ~ writer.inUse
    BY <2>1, Zenon DEF Tree
  <2> QED
    BY <2>1, <2>2, Zenon DEF Tree, Running
<1> QED
  BY <1>1, <1>2, <1>3, <1>4, <1>5, <1>6, <1>7, Zenon DEF ServeOn

\* The tree goes on, and has no more results or fewer writers than it had.
LEMMA TreeGoes ==
  ASSUME Tree, op \notin {"end", "close"}, ~ results', ~ cut', op' \in {"get", "run"},
         ~ writer'.inUse, writer'.started = writer.started, writer'.stopped = writer.stopped,
         op' = "get" => items' < MaxItems,
         sv' \in Running \ {"run", "prefix"} => sv \in Running \ {"run", "prefix"}
  PROVE  Tree'
BY Zenon DEF Tree

LEMMA TreeCloses ==
  ASSUME Tree, ~ results' \/ op' = "end", op' \in {"close", "end"},
         ~ writer'.inUse, writer'.started = writer.started, writer'.stopped = writer.stopped,
         sv' \in Running \ {"run", "prefix"} => sv \in Running \ {"run", "prefix"}
  PROVE  Tree'
BY Zenon DEF Tree

LEMMA TreeOperate ==
  ASSUME TypeOK, Tree, OperateOn
  PROVE  Tree'
<1>0. op \notin {"none", "end", "start"} /\ (sv' = sv \/ (sv = "waitop" /\ sv' = "wokeop"))
  BY OperatesOn, Zenon
<1>1. ~ results /\ (sv' \in Running \ {"run", "prefix"} => sv \in Running \ {"run", "prefix"})
  BY <1>0, Zenon DEF Tree, Running
<1>2. CASE OpSend
  <2>1. /\ op = "run" /\ (op' = "paused" \/ op' = "get")
        /\ UNCHANGED <<items, cut, writer, results, sv>> /\ items < MaxItems
    BY <1>2, Zenon DEF OpSend, reqVars
  <2>2. ~ writer.inUse /\ ~ cut
    BY <2>1, Zenon DEF Tree
  <2>3. CASE op' = "get"
    BY <1>1, <2>1, <2>2, <2>3, TreeGoes, Zenon
  <2>4. CASE op' = "paused"
    BY <1>1, <2>1, <2>2, <2>4, Zenon DEF Tree
  <2> QED
    BY <2>1, <2>3, <2>4, Zenon
<1>3. CASE OpResume
  <2>1. op = "paused" /\ op' = "get" /\ UNCHANGED <<items, cut, writer, results, sv>>
    BY <1>3, Zenon DEF OpResume, reqVars
  <2>2. ~ writer.inUse /\ ~ cut /\ items < MaxItems
    BY <2>1, Zenon DEF Tree
  <2> QED
    BY <1>1, <2>1, <2>2, TreeGoes, Zenon
<1>4. CASE getExternal
  <2>1. op = "get" /\ UNCHANGED <<items, results, sv>>
    BY <1>4, Zenon DEF getExternal, reqVars
  <2>2. ~ writer.inUse /\ ~ cut /\ items < MaxItems
    BY <2>1, Zenon DEF Tree
  <2>3. CASE op' = "close" /\ UNCHANGED writer
    BY <1>1, <2>1, <2>2, <2>3, TreeCloses, Zenon
  <2>4. CASE op' = "start" /\ ~ writer.started /\ cut' = cut /\ writer' = [writer EXCEPT !.waiter = TRUE]
    <3>1. ~ writer'.started /\ ~ writer'.inUse /\ writer'.stopped = writer.stopped
      BY <2>2, <2>4, WriterWaits, Zenon
    <3> QED
      BY <1>1, <2>1, <2>2, <2>4, <3>1, Zenon DEF Tree
  <2>5. CASE op' = "write" /\ writer.started /\ cut' = cut /\ writer' = [writer EXCEPT !.inUse = TRUE]
    <3>1. writer'.started /\ writer'.inUse
      BY <2>5, WriterTaken, Zenon
    <3> QED
      BY <1>1, <2>1, <2>2, <2>5, <3>1, Zenon DEF Tree
  <2> QED
    BY <1>4, <2>3, <2>4, <2>5, Zenon DEF getExternal
<1>5. CASE WokeExternal
  <2>1. /\ op = "woken" /\ op' = "write" /\ UNCHANGED <<items, cut, results, sv>>
        /\ writer' = [writer EXCEPT !.inUse = TRUE]
    BY <1>5, Zenon DEF WokeExternal, reqVars
  <2>2. ~ cut /\ items < MaxItems
    BY <2>1, Zenon DEF Tree
  <2>3. writer'.started = writer.started /\ writer'.inUse /\ writer'.stopped = writer.stopped
    BY <2>1, WriterTaken, Zenon
  <2> QED
    BY <1>1, <2>1, <2>2, <2>3, Zenon DEF Tree
<1>6. CASE Result
  <2>1. op = "write" /\ op' = "run" /\ UNCHANGED <<cut, results>> /\ releaseInternal
    BY <1>6, Zenon DEF Result, reqVars
  <2>2. ~ cut
    BY <2>1, Zenon DEF Tree
  <2> QED
    BY <1>1, <2>1, <2>2, WriterReleased, TreeGoes, Zenon
<1>7. CASE ResultFails
  BY <1>1, <1>7, WriterReleased, TreeCloses, Zenon DEF ResultFails
<1>8. CASE OpRaised
  <2>1. op' = "close" /\ results' = results
    BY <1>8, Zenon DEF OpRaised, reqVars
  <2>2. ~ writer'.inUse /\ writer'.started = writer.started /\ writer'.stopped = writer.stopped
    BY <1>8, WriterReleased, Zenon DEF OpRaised
  <2> QED
    BY <1>1, <2>1, <2>2, TreeCloses, Zenon
<1>9. CASE OpEnds
  <2>1. op = "run" /\ op' = "close" /\ UNCHANGED <<writer, results>>
    BY <1>9, Zenon DEF OpEnds, reqVars
  <2>2. ~ writer.inUse
    BY <2>1, Zenon DEF Tree
  <2> QED
    BY <1>1, <2>1, <2>2, TreeCloses, Zenon
<1>10. CASE OpClose
  <2>1. op = "close" /\ op' = "end" /\ UNCHANGED writer
    BY <1>10, Zenon DEF OpClose
  <2>2. ~ writer.inUse
    BY <2>1, Zenon DEF Tree
  <2> QED
    BY <1>1, <2>1, <2>2, TreeCloses, Zenon
<1> QED
  BY <1>2, <1>3, <1>4, <1>5, <1>6, <1>7, <1>8, <1>9, <1>10, Zenon DEF OperateOn

LEMMA TreeStep ==
  ASSUME TypeOK, Bare, Tree, Next
  PROVE  Tree'
<1>1. CASE ServeBegin
  <2>1. UNCHANGED <<op, items, cut, writer>> /\ (results' = results \/ ~ results')
    <3>1. CASE Fail \/ Failed \/ ExecResults
      BY <3>1, Zenon DEF Fail, Failed, ExecResults, reqVars, opVars
    <3>2. CASE ExecGone \/ StatementFails
      BY <3>2, Zenon DEF ExecGone, StatementFails, reqVars, opVars
    <3> QED
      BY <1>1, <3>1, <3>2, Zenon DEF ServeBegin
  <2>2. \/ sv' \in {"failed", "unlist"}
        \/ sv \in {"select", "suffix"}
    BY <1>1, Zenon DEF ServeBegin, Fail, Failed, ExecResults, ExecGone, StatementFails, Step, Serving
  <2>3. sv' \in Running \ {"run", "prefix"} => writer.started
    BY <2>2, Zenon DEF Tree, Running
  <2>4. results' => results
    BY <2>1, Zenon
  <2> QED
    BY <2>1, <2>3, <2>4, TreeKept, Zenon
<1>2. CASE OpRaise
  <2>1. op \in {"run", "write"} /\ op' = "raise" /\ UNCHANGED <<sv, writer, results, cut>>
    BY <1>2, Zenon DEF OpRaise, reqVars
  <2>2. ~ results /\ ~ cut
    BY <2>1, Zenon DEF Tree
  <2> QED
    BY <2>1, <2>2, Zenon DEF Tree
<1>3. CASE Control \/ Expire \/ AdminDelete \/ ClientGone
  <2>1. UNCHANGED <<op, items, cut, writer, results, sv>>
    BY <1>3, ControlFrame, Zenon
  <2> QED
    BY <2>1, TreeKept, Zenon DEF Tree
<1> QED
  BY <1>1, <1>2, <1>3, TreeStop, TreeServe, TreeOperate, NextCases, Zenon DEF ServeBegin

----------------------------------------------------------------------------
(* Who changes what.                                                       *)

LEMMA EntersInside ==
  ASSUME TypeOK, Plans, Locks, Next, NEW t \in Stoppers
  PROVE  /\ th'[t] \in Inside => th[t] \in Inside \/ StopSet(t)
         /\ th[t] = "set" => th'[t] = "set" \/ StopSet(t)
<1>1. ASSUME NEW u \in Stoppers, StopOn(u)
      PROVE  th'[t] = th[t] \/ StopSet(t) \/ th[t] \in Inside
  <2>1. CASE u # t
    BY <1>1, <2>1, StopsOn, Zenon
  <2>2. CASE u = t
    BY <1>1, <2>2, Zenon DEF StopOn, StopTake, StopUnpause, StopGate, StopAdd, StopSend, Inside
  <2> QED
    BY <2>1, <2>2, Zenon
<1>2. ASSUME NEW u \in Stoppers, StopSignal(u)
      PROVE  th'[t] = th[t] \/ (th[t] = "signal" /\ (th'[t] = "idle" \/ th'[t] = "set"))
  BY <1>2, Signals, SignalsOut, Zenon
<1>3. \/ th'[t] = th[t] \/ StopSet(t) \/ th[t] \in Inside
      \/ (th[t] = "idle" /\ th'[t] = "set")
  BY <1>1, <1>2, Enters, NextCases, Zenon DEF ServeBegin, Inside
<1> QED
  BY <1>3, Zenon DEF Inside

LEMMA SetStates ==
  /\ \A new \in Causes : SetState(new) \in Causes
  /\ Settled => SetState("completed") = state
  /\ SetState("completed") \in Causes \/ SetState("completed") = "completed"
  /\ SetState("fatal") = "fatal"
  /\ state = "fatal" => \A new : SetState(new) = "fatal"
  /\ {"fatal", "timeout", "stopped", "closed"} \subseteq Causes
  /\ "completed" \notin Causes /\ "running" \notin Causes
BY Zenon DEF SetState, Causes, Settled, Stopped

\* What the SetState of a Stop does.
LEMMA StopSets ==
  ASSUME Plans, NEW t \in Stoppers, StopSet(t)
  PROVE  /\ th[t] = "set" /\ UNCHANGED <<sv, op, abend>>
         /\ \/ state' \in Causes
            \/ t = "serv" /\ sv = "suffix" /\ state' = "completed" /\ ~ Settled
<1>1. th[t] = "set" /\ state' = SetState(Head(todo[t])) /\ UNCHANGED <<sv, op, abend>>
  BY Zenon DEF StopSet, opVars
<1>2. CASE Head(todo[t]) \in Causes
  BY <1>1, <1>2, SetStates, Zenon
<1>3. CASE t = "serv" /\ sv = "suffix" /\ Head(todo[t]) = "completed"
  <2>1. state' = SetState("completed")
    BY <1>1, <1>3, Zenon
  <2> QED
    BY <1>1, <1>3, <2>1, SetStates, Zenon DEF Settled
<1>4. Head(todo[t]) \in Causes \/ (t = "serv" /\ sv = "suffix" /\ Head(todo[t]) = "completed")
  <2>1. CASE t = "serv"
    <3>1. \/ Head(todo[t]) = "closed"
          \/ sv = "suffix" /\ Head(todo[t]) = "completed"
          \/ Head(todo[t]) = "fatal"
      BY <1>1, <2>1, Heads, Zenon
    <3> QED
      BY <2>1, <3>1, SetStates, Zenon
  <2>2. CASE t # "serv"
    <3>1. Head(todo[t]) \in {"fatal", "timeout", "stopped"}
      BY <1>1, <2>2, Heads, Zenon
    <3> QED
      BY <3>1, SetStates, Zenon
  <2> QED
    BY <2>1, <2>2, Zenon
<1> QED
  BY <1>1, <1>2, <1>3, <1>4, Zenon

LEMMA StateStep ==
  ASSUME Plans, Next
  PROVE  \/ state' = state
         \/ Servicing
         \/ state' \in Causes
         \/ StopSet("serv") /\ sv = "suffix" /\ state' = "completed" /\ ~ Settled
<1>1. ASSUME NEW t \in Stoppers, StopOn(t) \/ StopSignal(t)
      PROVE  state' = state \/ StopSet(t)
  BY <1>1, Zenon DEF StopOn, StopTake, StopUnpause, StopGate, StopAdd, StopSend, StopSignal, reqVars
<1>2. CASE ServeOn
  BY <1>2, Zenon DEF ServeOn, Build, NotifyStop, RunOnce, Prefix, ExecStop, getInternal, WokeInternal,
     Suffix, Unlist, StopTimer, CompleteGate, CompleteAdd, Done, reqVars
<1>3. CASE ServeBegin
  <2>1. state' = state \/ state' = SetState("fatal")
    BY <1>3, Zenon DEF ServeBegin, Fail, Failed, ExecResults, ExecGone, StatementFails, reqVars
  <2> QED
    BY <2>1, SetStates, Zenon
<1>4. CASE OperateOn \/ OpRaise
  <2>1. state' = state \/ state' = SetState("closed") \/ state' = SetState("fatal")
    BY <1>4, Zenon DEF OperateOn, OpSend, OpResume, getExternal, WokeExternal, Result, ResultFails,
       OpRaised, OpRaise, OpEnds, OpClose, reqVars
  <2> QED
    BY <2>1, SetStates, Zenon
<1>5. CASE Control \/ Expire \/ AdminDelete \/ ClientGone
  BY <1>5, ControlFrame, Zenon
<1> QED
  BY <1>1, <1>2, <1>3, <1>4, <1>5, StopSets, NextCases, Zenon DEF ServeBegin

\* No reason is forgotten once the request is in service.
LEMMA SettledStays ==
  ASSUME Plans, Next, sv # "queued"
  PROVE  /\ Settled => Settled'
         /\ state = "completed" => state' = "completed" \/ Settled'
<1>1. ~ Servicing
  BY Zenon DEF Servicing, Serving
<1> QED
  BY <1>1, StateStep, Zenon DEF Settled

LEMMA FatalStays ==
  ASSUME Next, state = "fatal", ~ Servicing
  PROVE  state' = "fatal"
<1>1. ASSUME NEW t \in Stoppers, StopOn(t) \/ StopSignal(t)
      PROVE  state' = state \/ state' = SetState(Head(todo[t]))
  BY <1>1, Zenon DEF StopOn, StopSet, StopTake, StopUnpause, StopGate, StopAdd, StopSend, StopSignal,
     reqVars
<1>2. CASE ServeOn
  BY <1>2, Zenon DEF ServeOn, Build, NotifyStop, RunOnce, Prefix, ExecStop, getInternal, WokeInternal,
     Suffix, Unlist, StopTimer, CompleteGate, CompleteAdd, Done, reqVars
<1>3. CASE ServeBegin
  <2>1. state' = state \/ state' = SetState("fatal")
    BY <1>3, Zenon DEF ServeBegin, Fail, Failed, ExecResults, ExecGone, StatementFails, reqVars
  <2> QED
    BY <2>1, SetStates, Zenon
<1>4. CASE OperateOn \/ OpRaise
  <2>1. state' = state \/ state' = SetState("closed") \/ state' = SetState("fatal")
    BY <1>4, Zenon DEF OperateOn, OpSend, OpResume, getExternal, WokeExternal, Result, ResultFails,
       OpRaised, OpRaise, OpEnds, OpClose, reqVars
  <2> QED
    BY <2>1, SetStates, Zenon
<1>5. CASE Control \/ Expire \/ AdminDelete \/ ClientGone
  BY <1>5, ControlFrame, Zenon
<1> QED
  BY <1>1, <1>2, <1>3, <1>4, <1>5, SetStates, NextCases, Zenon DEF ServeBegin

\* How the serving goroutine gets into a Stop.
LEMMA EntersStop ==
  ASSUME TypeOK, Plans, Locks, Next, th'["serv"] # "idle"
  PROVE  th["serv"] # "idle" \/ ExecResults \/ (ServeBegin /\ sv' # "suffix")
<1>0. "serv" \in Stoppers
  BY Zenon DEF Stoppers
<1>1. ASSUME NEW t \in Stoppers, StopOn(t) \/ StopSignal(t)
      PROVE  th["serv"] # "idle"
  <2>1. CASE t = "serv"
    <3>1. StopOn(t) \/ th[t] = "signal"
      BY <1>1, Signals, Zenon
    <3> QED
      BY <2>1, <3>1, StopsOn, Zenon
  <2>2. CASE t # "serv"
    BY <1>0, <1>1, <2>2, StopsOn, Signals, Zenon
  <2> QED
    BY <2>1, <2>2, Zenon
<1>2. CASE ServeOn
  BY <1>2, ServesOn, Zenon
<1>3. CASE ServeBegin
  BY <1>3, Zenon DEF ServeBegin, Fail, Failed, ExecGone, StatementFails, Step
<1>4. CASE OperateOn
  BY <1>4, OperatesOn, Zenon
<1>5. CASE OpRaise
  BY <1>0, <1>5, OperatorBegins, Zenon
<1>6. CASE Control
  BY <1>0, <1>6, Controls, Zenon
<1>7. CASE Expire \/ AdminDelete
  BY <1>0, <1>7, Intrudes, Zenon
<1>8. CASE ClientGone
  BY <1>8, Zenon DEF ClientGone, stopVars
<1> QED
  BY <1>1, <1>2, <1>3, <1>4, <1>5, <1>6, <1>7, <1>8, NextCases, Zenon DEF ServeBegin

\* A thread leaves Stop by its signal only.
LEMMA LeavesStop ==
  ASSUME TypeOK, Plans, Locks, Next, NEW t \in Stoppers, th[t] # "idle", th'[t] = "idle"
  PROVE  StopSignal(t)
<1>1. ASSUME NEW u \in Stoppers, StopOn(u)
      PROVE  FALSE
  BY <1>1, StopsOn, Zenon
<1>2. ASSUME NEW u \in Stoppers, StopSignal(u)
      PROVE  u = t
  BY <1>2, Signals, Zenon
<1>3. ASSUME ServeOn \/ ServeBegin \/ OperateOn \/ OpRaise \/ Control \/ Expire \/ AdminDelete \/ ClientGone
      PROVE  FALSE
  BY <1>3, Enters, Zenon
<1> QED
  BY <1>1, <1>2, <1>3, NextCases, Zenon DEF ServeBegin

\* A tree that has ended stays so, and is no longer cut; and an abort is not undone.
LEMMA EndStays ==
  ASSUME Next
  PROVE  /\ op = "end" => op' = "end" /\ (cut' => cut)
         /\ abend => abend'
<1>1. ASSUME NEW t \in Stoppers, StopOn(t) \/ StopSignal(t)
      PROVE  UNCHANGED <<op, cut, abend>> \/ (op = "none" /\ abend' = abend)
  <2>1. CASE StopSend(t)
    BY <2>1, Zenon DEF StopSend
  <2>2. CASE ~ StopSend(t)
    BY <1>1, <2>2, Zenon DEF StopOn, StopSet, StopTake, StopUnpause, StopGate, StopAdd, StopSignal,
       reqVars, opVars
  <2> QED
    BY <2>1, <2>2, Zenon
<1>2. CASE ServeOn
  <2>1. CASE RunOnce \/ Prefix \/ Done
    <3>1. (op' = op \/ op \in {"none", "start"} \/ op' = "end") /\ UNCHANGED <<cut, abend>>
      BY <2>1, Zenon DEF RunOnce, Prefix, Done, reqVars
    <3> QED
      BY <3>1, Zenon
  <2>2. CASE ~ (RunOnce \/ Prefix \/ Done)
    <3>1. UNCHANGED <<op, cut, abend>>
      BY <1>2, <2>2, Zenon DEF ServeOn, Servicing, Build, NotifyStop, ExecStop, getInternal,
         WokeInternal, Suffix, Unlist, StopTimer, CompleteGate, CompleteAdd, reqVars, opVars
    <3> QED
      BY <3>1, Zenon
  <2> QED
    BY <2>1, <2>2, Zenon
<1>3. CASE ServeBegin
  <2>1. UNCHANGED <<op, cut, abend>>
    BY <1>3, Zenon DEF ServeBegin, Fail, Failed, ExecResults, ExecGone, StatementFails, reqVars, opVars
  <2> QED
    BY <2>1, Zenon
<1>4. CASE OperateOn \/ OpRaise
  <2>1. op # "end" /\ abend' = abend
    BY <1>4, Zenon DEF OperateOn, OpSend, OpResume, getExternal, WokeExternal, Result, ResultFails,
       OpRaised, OpRaise, OpEnds, OpClose, reqVars
  <2> QED
    BY <2>1, Zenon
<1>5. CASE Control \/ Expire \/ AdminDelete \/ ClientGone
  <2>1. UNCHANGED <<op, cut>> /\ (UNCHANGED abend \/ abend')
    BY <1>5, Zenon DEF Control, CtlPause, CtlAdd, CtlStore, CtlPick, Halt, CtlResume, CtlLoad, CtlSwap,
       Expire, AdminDelete, ClientGone, reqVars, opVars
  <2>2. abend => abend'
    BY <2>1, Zenon
  <2> QED
    BY <2>1, <2>2, Zenon
<1> QED
  BY <1>1, <1>2, <1>3, <1>4, <1>5, NextCases, Zenon DEF ServeBegin

\* Where the serving goroutine comes from.
LEMMA ServicerMoves ==
  ASSUME Next
  PROVE  \/ sv' = sv
         \/ ServeOn \/ ServeBegin
         \/ OperateOn /\ sv = "waitop" /\ sv' = "wokeop"
<1>1. ASSUME NEW t \in Stoppers, StopOn(t) \/ StopSignal(t)
      PROVE  sv' = sv
  BY <1>1, Zenon DEF StopOn, StopSet, StopTake, StopUnpause, StopGate, StopAdd, StopSend, StopSignal
<1>2. CASE OpRaise
  BY <1>2, Zenon DEF OpRaise
<1>3. CASE Control \/ Expire \/ AdminDelete \/ ClientGone
  BY <1>3, ControlFrame, Zenon
<1> QED
  BY <1>1, <1>2, <1>3, OperatesOn, NextCases, Zenon DEF ServeBegin

LEMMA ServicerFrom ==
  ASSUME Next
  PROVE  /\ sv' \in Unbuilt => sv \in Unbuilt
         /\ sv' \in {"run", "prefix", "select"} => NotifyStop \/ sv \in {"run", "prefix", "select"}
         /\ sv' \in {"internal", "waitop", "wokeop"} => \/ sv \in {"internal", "waitop", "wokeop"}
                                                        \/ ExecStop \/ ExecGone
         /\ sv' = "failed" => sv = "failed" \/ Fail \/ Build
         /\ sv' = "suffix" => sv = "suffix" \/ ExecResults \/ ExecStop \/ getInternal \/ WokeInternal
         /\ sv' = "undone" => sv = "undone" \/ StatementFails
<1>1. CASE sv' = sv
  BY <1>1, Zenon
<1>2. CASE OperateOn /\ sv = "waitop" /\ sv' = "wokeop"
  BY <1>2, Zenon DEF Unbuilt
<1>3. CASE Servicing \/ Build \/ NotifyStop \/ RunOnce \/ Prefix
  BY <1>3, Zenon DEF Servicing, Build, NotifyStop, RunOnce, Prefix, Step, Serving, Unbuilt
<1>4. CASE ExecStop \/ getInternal \/ WokeInternal
  BY <1>4, Zenon DEF ExecStop, getInternal, WokeInternal, Step, Serving, Unbuilt
<1>5. CASE Suffix \/ Unlist \/ StopTimer \/ CompleteGate \/ CompleteAdd \/ Done
  BY <1>5, Zenon DEF Suffix, Unlist, StopTimer, CompleteGate, CompleteAdd, Done, Step, Serving, Unbuilt
<1>6. CASE Fail \/ Failed
  BY <1>6, Zenon DEF Fail, Failed, Step, Serving, Unbuilt
<1>7. CASE ExecResults \/ ExecGone \/ StatementFails
  BY <1>7, Zenon DEF ExecResults, ExecGone, StatementFails, Step, Serving, Unbuilt
<1> QED
  BY <1>1, <1>2, <1>3, <1>4, <1>5, <1>6, <1>7, ServicerMoves, Zenon DEF ServeOn, ServeBegin

\* Who tells the tree, and who the serving goroutine, that the request is stopped.
LEMMA StopsDo ==
  ASSUME Next
  PROVE  /\ opStop' = opStop \/ \E t \in Stoppers : StopSend(t)
         /\ stopExec' = stopExec \/ stopExec' = FALSE \/ \E t \in Stoppers : StopSignal(t)
<1>1. ASSUME NEW t \in Stoppers, StopOn(t)
      PROVE  (opStop' = opStop \/ StopSend(t)) /\ stopExec' = stopExec
  BY <1>1, Zenon DEF StopOn, StopSet, StopTake, StopUnpause, StopGate, StopAdd, StopSend, reqVars, opVars
<1>2. ASSUME NEW t \in Stoppers, StopSignal(t)
      PROVE  opStop' = opStop
  BY <1>2, Zenon DEF StopSignal, opVars
<1>3. CASE ServeOn
  <2>1. CASE ExecStop
    BY <2>1, Zenon DEF ExecStop, opVars
  <2>2. CASE ~ ExecStop
    <3>1. UNCHANGED <<opStop, stopExec>>
      BY <1>3, <2>2, Zenon DEF ServeOn, Servicing, Build, NotifyStop, RunOnce, Prefix, getInternal,
         WokeInternal, Suffix, Unlist, StopTimer, CompleteGate, CompleteAdd, Done, reqVars, opVars
    <3> QED
      BY <3>1, Zenon
  <2> QED
    BY <2>1, <2>2, Zenon
<1>4. CASE ServeBegin \/ OpRaise
  <2>1. UNCHANGED <<opStop, stopExec>>
    BY <1>4, Zenon DEF ServeBegin, Fail, Failed, ExecResults, ExecGone, StatementFails, OpRaise, reqVars,
       opVars
  <2> QED
    BY <2>1, Zenon
<1>5. CASE OperateOn
  <2>1. UNCHANGED <<opStop, stopExec>>
    BY <1>5, Zenon DEF OperateOn, OpSend, OpResume, getExternal, WokeExternal, Result, ResultFails,
       OpRaised, OpEnds, OpClose, reqVars
  <2> QED
    BY <2>1, Zenon
<1>6. CASE Control \/ Expire \/ AdminDelete \/ ClientGone
  <2>1. UNCHANGED <<opStop, stopExec>>
    BY <1>6, ControlFrame, Zenon
  <2> QED
    BY <2>1, Zenon
<1> QED
  BY <1>1, <1>2, <1>3, <1>4, <1>5, <1>6, NextCases, Zenon DEF ServeBegin

\* Who cuts the tree short.
LEMMA Cuts ==
  ASSUME Next
  PROVE  \/ cut' => cut
         \/ \E t \in Stoppers : StopSend(t) /\ op = "none"
         \/ op \in {"get", "run"} /\ state' = state /\ (opStop \/ writer.stopped)
         \/ ResultFails \/ OpRaised
<1>1. ASSUME NEW t \in Stoppers, StopOn(t) \/ StopSignal(t)
      PROVE  cut' = cut \/ (StopSend(t) /\ op = "none")
  BY <1>1, Zenon DEF StopOn, StopSet, StopTake, StopUnpause, StopGate, StopAdd, StopSend, StopSignal,
     opVars
<1>2. CASE ServeOn
  BY <1>2, Zenon DEF ServeOn, Servicing, Build, NotifyStop, RunOnce, Prefix, ExecStop, getInternal,
     WokeInternal, Suffix, Unlist, StopTimer, CompleteGate, CompleteAdd, Done, opVars
<1>3. CASE ServeBegin
  BY <1>3, Zenon DEF ServeBegin, Fail, Failed, ExecResults, ExecGone, StatementFails, opVars
<1>4. CASE OperateOn \/ OpRaise
  BY <1>4, Zenon DEF OperateOn, OpSend, OpResume, getExternal, WokeExternal, Result, OpRaise, OpEnds,
     OpClose, reqVars
<1>5. CASE Control \/ Expire \/ AdminDelete \/ ClientGone
  BY <1>5, ControlFrame, Zenon
<1> QED
  BY <1>1, <1>2, <1>3, <1>4, <1>5, NextCases, Zenon DEF ServeBegin

\* Who shuts the operator out of the writer.
LEMMA WriterShut ==
  ASSUME TypeOK, Next
  PROVE  writer'.stopped = writer.stopped \/ getInternal \/ WokeInternal
<1>1. ASSUME NEW t \in Stoppers, StopOn(t) \/ StopSignal(t)
      PROVE  writer' = writer
  BY <1>1, Zenon DEF StopOn, StopSet, StopTake, StopUnpause, StopGate, StopAdd, StopSend, StopSignal
<1>2. CASE ServeOn
  BY <1>2, WriterStarts, Zenon DEF ServeOn, Servicing, Build, NotifyStop, RunOnce, Prefix, ExecStop,
     Suffix, Unlist, StopTimer, CompleteGate, CompleteAdd, Done
<1>3. CASE ServeBegin
  BY <1>3, Zenon DEF ServeBegin, Fail, Failed, ExecResults, ExecGone, StatementFails
<1>4. CASE OperateOn \/ OpRaise
  BY <1>4, WriterWaits, WriterTaken, WriterReleased, Zenon DEF OperateOn, OpSend, OpResume, getExternal,
     WokeExternal, Result, ResultFails, OpRaised, OpRaise, OpEnds, OpClose
<1>5. CASE Control \/ Expire \/ AdminDelete \/ ClientGone
  BY <1>5, ControlFrame, Zenon
<1> QED
  BY <1>1, <1>2, <1>3, <1>4, <1>5, NextCases, Zenon DEF ServeBegin

----------------------------------------------------------------------------
(* What the response says.                                                 *)

LEMMA CausedStep ==
  ASSUME TypeOK, Plans, Locks, Bare, Next, "early" \notin upset', Caused, Effects, Ended
  PROVE  Caused'
<1>0. "serv" \in Stoppers /\ "oper" \in Stoppers
  BY Zenon DEF Stoppers
<1>1. ASSUME NEW t \in Stoppers \ {"serv"}, th'[t] \in Inside
      PROVE  sv' \notin Unbuilt /\ Settled'
  <2>1. CASE th[t] \in Inside
    <3>1. sv \notin Unbuilt /\ Settled /\ sv # "queued"
      BY <2>1, Zenon DEF Caused, Unbuilt
    <3> QED
      BY <3>1, SettledStays, ServicerFrom, Zenon
  <2>2. CASE StopSet(t)
    <3>1. sv' = sv /\ state' \in Causes
      BY <2>2, StopSets, Zenon
    <3>2. sv \notin {"queued", "build", "notify"}
      BY <2>2, Zenon DEF StopSet, Early
    <3> QED
      BY <3>1, <3>2, Zenon DEF Unbuilt, Settled
  <2> QED
    BY <1>1, <2>1, <2>2, EntersInside, Zenon
<1>2. ASSUME th'["serv"] \in Inside
      PROVE  Settled' \/ (state' = "completed" /\ op' = "end")
  <2>1. CASE th["serv"] \in Inside
    <3>1. th["serv"] # "idle"
      BY <2>1, Zenon DEF Inside
    <3>2. sv # "queued"
      BY <3>1, Zenon DEF Plans
    <3>3. Settled \/ (state = "completed" /\ op = "end")
      BY <2>1, Zenon DEF Caused
    <3> QED
      BY <3>2, <3>3, SettledStays, EndStays, Zenon
  <2>2. CASE StopSet("serv")
    <3>1. th["serv"] = "set" /\ op' = op /\ (state' \in Causes \/ (sv = "suffix" /\ state' = "completed"))
      BY <1>0, <2>2, StopSets, Zenon
    <3>2. sv = "suffix" => op = "end"
      BY <3>1, Zenon DEF Ended
    <3> QED
      BY <3>1, <3>2, Zenon DEF Settled
  <2> QED
    BY <1>0, <1>2, <2>1, <2>2, EntersInside, Zenon
<1>3. ASSUME sv' \in {"internal", "waitop", "wokeop"}, th'["serv"] # "set"
      PROVE  Settled'
  <2>1. CASE sv \in {"internal", "waitop", "wokeop"} /\ th["serv"] # "set"
    <3>1. Settled /\ sv # "queued"
      BY <2>1, Zenon DEF Caused
    <3> QED
      BY <3>1, SettledStays, Zenon
  <2>2. CASE sv \in {"internal", "waitop", "wokeop"} /\ th["serv"] = "set"
    <3>1. StopSet("serv")
      BY <1>0, <1>3, <2>2, EntersInside, Zenon
    <3>2. state' \in Causes \/ sv = "suffix"
      BY <1>0, <3>1, StopSets, Zenon
    <3> QED
      BY <2>2, <3>2, Zenon DEF Settled
  <2>3. CASE ExecStop
    <3>1. stopExec /\ sv = "select" /\ state' = state
      BY <2>3, Zenon DEF ExecStop, Step, Serving
    <3> QED
      BY <3>1, Zenon DEF Effects, Settled
  <2>4. CASE ExecGone
    <3>1. th'["serv"] = "set"
      BY <2>4, ServesBegin, Zenon
    <3> QED
      BY <1>3, <3>1, Zenon
  <2> QED
    BY <1>3, <2>1, <2>2, <2>3, <2>4, ServicerFrom, Zenon
<1>4. ASSUME op' = "raise", th'["oper"] # "set"
      PROVE  Settled'
  <2>1. op = "raise"
    <3>1. ~ OpRaise
      BY <1>4, OperatorBegins, Zenon
    <3>2. ASSUME NEW t \in Stoppers, StopOn(t) \/ StopSignal(t)
          PROVE  op' = op
      BY <1>4, <3>2, Zenon DEF StopOn, StopSet, StopTake, StopUnpause, StopGate, StopAdd, StopSend,
         StopSignal, opVars
    <3>3. ASSUME ServeOn
          PROVE  op' = op
      BY <1>4, <3>3, Zenon DEF ServeOn, Servicing, Build, NotifyStop, RunOnce, Prefix, ExecStop,
         getInternal, WokeInternal, Suffix, Unlist, StopTimer, CompleteGate, CompleteAdd, Done, opVars
    <3>4. ASSUME ServeBegin \/ Control \/ Expire \/ AdminDelete \/ ClientGone
          PROVE  op' = op
      BY <3>4, Zenon DEF ServeBegin, Fail, Failed, ExecResults, ExecGone, StatementFails, Control,
         CtlPause, CtlAdd, CtlStore, CtlPick, Halt, CtlResume, CtlLoad, CtlSwap, Expire, AdminDelete,
         ClientGone, opVars
    <3>5. ~ OperateOn
      BY <1>4, OperatesOn, Zenon
    <3> QED
      BY <1>4, <3>1, <3>2, <3>3, <3>4, <3>5, NextCases, Zenon DEF ServeBegin
  <2>2. sv # "queued"
    BY <2>1, Zenon DEF Bare, Treeless, Unbuilt
  <2>3. CASE th["oper"] # "set"
    BY <2>1, <2>2, <2>3, SettledStays, Zenon DEF Caused
  <2>4. CASE th["oper"] = "set"
    <3>1. StopSet("oper")
      BY <1>0, <1>4, <2>4, EntersInside, Zenon
    <3>2. state' \in Causes
      BY <1>0, <3>1, StopSets, Zenon
    <3> QED
      BY <3>2, Zenon DEF Settled
  <2> QED
    BY <2>3, <2>4, Zenon
<1> QED
  BY <1>1, <1>2, <1>3, <1>4, Zenon DEF Caused

LEMMA EffectsStep ==
  ASSUME TypeOK, Plans, Locks, Gating, Bare, Tree, Next, Caused, Effects
  PROVE  Effects'
<1>0. "serv" \in Stoppers /\ "oper" \in Stoppers
  BY Zenon DEF Stoppers
<1>1. ASSUME NEW t \in Stoppers, StopSend(t)
      PROVE  /\ sv \notin Unbuilt /\ state' = state /\ (op = "end" => op' = "end")
             /\ Settled \/ op = "end"
  <2>1. th[t] = "send" /\ state' = state /\ (op = "end" => op' = "end")
    BY <1>1, Zenon DEF StopSend
  <2>2. th[t] \in Sending /\ th[t] \in Inside
    BY <2>1, Zenon DEF Sending, Inside
  <2>3. sv \notin Unbuilt
    BY <2>2, Zenon DEF Gating
  <2>4. Settled \/ op = "end"
    BY <2>2, Zenon DEF Caused
  <2> QED
    BY <2>1, <2>3, <2>4, Zenon
<1>2. ASSUME NEW t \in Stoppers, StopSignal(t)
      PROVE  /\ sv \notin Unbuilt /\ state' = state /\ sv' = sv
             /\ sv \in {"run", "prefix", "select"} => Settled
  <2>1. th[t] = "signal" /\ state' = state /\ sv' = sv
    BY <1>2, Zenon DEF StopSignal
  <2>2. th[t] \in Inside /\ th[t] # "idle"
    BY <2>1, Zenon DEF Inside
  <2>3. CASE t = "serv"
    BY <2>1, <2>2, <2>3, Zenon DEF Plans, Unbuilt
  <2>4. CASE t # "serv"
    BY <2>1, <2>2, <2>4, Zenon DEF Caused
  <2> QED
    BY <2>3, <2>4, Zenon
<1>3. ASSUME getInternal \/ WokeInternal
      PROVE  sv \notin Unbuilt /\ sv' \notin Unbuilt /\ state' = state /\ Settled
  <2>1. sv \in {"internal", "wokeop"} /\ th["serv"] = "idle" /\ state' = state
    BY <1>3, Zenon DEF getInternal, WokeInternal, Step, Serving, reqVars
  <2>2. sv \notin Unbuilt
    BY <2>1, Zenon DEF Unbuilt
  <2>3. Settled
    BY <2>1, Zenon DEF Caused
  <2> QED
    BY <2>1, <2>2, <2>3, ServicerFrom, Zenon
<1>4. ASSUME sv' \in Unbuilt
      PROVE  ~ opStop' /\ ~ stopExec' /\ ~ writer'.stopped
  <2>1. sv \in Unbuilt
    BY <1>4, ServicerFrom, Zenon
  <2>2. ~ opStop /\ ~ stopExec /\ ~ writer.stopped
    BY <2>1, Zenon DEF Effects
  <2>3. ~ opStop'
    BY <1>1, <2>1, <2>2, StopsDo, Zenon
  <2>4. ~ stopExec'
    BY <1>2, <2>1, <2>2, StopsDo, Zenon
  <2>5. ~ writer'.stopped
    BY <1>3, <2>1, <2>2, WriterShut, Zenon
  <2> QED
    BY <2>3, <2>4, <2>5, Zenon
<1>5. ASSUME opStop'
      PROVE  Settled' \/ op' = "end"
  <2>1. CASE opStop
    <3>1. sv # "queued" /\ (Settled \/ op = "end")
      BY <2>1, Zenon DEF Effects, Unbuilt
    <3> QED
      BY <3>1, SettledStays, EndStays, Zenon
  <2> QED
    BY <1>1, <1>5, <2>1, StopsDo, Zenon DEF Settled
<1>6. ASSUME cut'
      PROVE  Settled'
  <2>1. CASE cut
    <3>1. sv # "queued" /\ Settled
      BY <2>1, Zenon DEF Effects, Tree, Bare, Treeless, Unbuilt
    <3> QED
      BY <3>1, SettledStays, Zenon
  <2>2. CASE \E t \in Stoppers : StopSend(t) /\ op = "none"
    BY <1>1, <2>2, Zenon DEF Settled
  <2>3. CASE op \in {"get", "run"} /\ state' = state /\ (opStop \/ writer.stopped)
    BY <2>3, Zenon DEF Effects, Settled
  <2>4. CASE ResultFails
    <3>1. state' = SetState("closed") \/ state' = SetState("fatal")
      BY <2>4, Zenon DEF ResultFails
    <3> QED
      BY <3>1, SetStates, Zenon DEF Settled
  <2>5. CASE OpRaised
    <3>1. op = "raise" /\ th["oper"] = "idle" /\ state' = state
      BY <2>5, Zenon DEF OpRaised, reqVars
    <3> QED
      BY <3>1, Zenon DEF Caused, Settled
  <2> QED
    BY <1>6, <2>1, <2>2, <2>3, <2>4, <2>5, Cuts, Zenon
<1>7. ASSUME stopExec', sv' \in {"run", "prefix", "select"}
      PROVE  Settled'
  <2>1. CASE \E t \in Stoppers : StopSignal(t)
    BY <1>2, <1>7, <2>1, Zenon DEF Settled
  <2>2. CASE ~ \E t \in Stoppers : StopSignal(t)
    <3>1. stopExec
      BY <1>7, <2>2, StopsDo, Zenon
    <3>2. sv \notin Unbuilt
      BY <3>1, Zenon DEF Effects
    <3>3. ~ NotifyStop /\ sv # "queued"
      BY <3>2, Zenon DEF NotifyStop, Step, Serving, Unbuilt
    <3>4. sv \in {"run", "prefix", "select"}
      BY <1>7, <3>3, ServicerFrom, Zenon
    <3>5. Settled
      BY <3>1, <3>4, Zenon DEF Effects
    <3> QED
      BY <3>3, <3>5, SettledStays, Zenon
  <2> QED
    BY <2>1, <2>2, Zenon
<1>8. ASSUME writer'.stopped
      PROVE  Settled'
  <2>1. CASE writer.stopped
    <3>1. sv # "queued" /\ Settled
      BY <2>1, Zenon DEF Effects, Unbuilt
    <3> QED
      BY <3>1, SettledStays, Zenon
  <2> QED
    BY <1>3, <1>8, <2>1, WriterShut, Zenon DEF Settled
<1> QED
  BY <1>4, <1>5, <1>6, <1>7, <1>8, Zenon DEF Effects

LEMMA EndedStep ==
  ASSUME TypeOK, Plans, Locks, Tree, Next, Caused, Ended
  PROVE  Ended'
<1>0. "serv" \in Stoppers
  BY Zenon DEF Stoppers
<1>1. ASSUME state' = "completed"
      PROVE  op' = "end"
  <2>1. state' \notin Causes
    BY <1>1, SetStates, Zenon
  <2>2. CASE state' = state
    BY <1>1, <2>2, EndStays, Zenon DEF Ended
  <2>3. CASE StopSet("serv") /\ sv = "suffix"
    <3>1. th["serv"] = "set" /\ op' = op
      BY <1>0, <2>3, StopSets, Zenon
    <3> QED
      BY <2>3, <3>1, Zenon DEF Ended
  <2>4. CASE Servicing
    <3>1. state' = "running"
      BY <2>4, Zenon DEF Servicing
    <3> QED
      BY <1>1, <3>1, Zenon
  <2> QED
    BY <2>1, <2>2, <2>3, <2>4, StateStep, Zenon
<1>2. ASSUME sv' = "failed"
      PROVE  state' = "fatal"
  <2>1. CASE sv = "failed"
    <3>1. state = "fatal" /\ ~ Servicing
      BY <2>1, Zenon DEF Ended, Servicing, Serving
    <3> QED
      BY <3>1, FatalStays, Zenon
  <2>2. CASE Fail
    BY <2>2, SetStates, Zenon DEF Fail
  <2>3. CASE Build
    <3>1. State = "fatal" /\ state' = state
      BY <1>2, <2>3, Zenon DEF Build, Step
    <3> QED
      BY <3>1, Zenon DEF State
  <2> QED
    BY <1>2, <2>1, <2>2, <2>3, ServicerFrom, Zenon
<1>3. ASSUME sv' = "suffix", th'["serv"] # "idle"
      PROVE  op' = "end"
  <2>1. CASE ExecResults
    <3>1. results /\ op' = op
      BY <2>1, Zenon DEF ExecResults, opVars
    <3> QED
      BY <3>1, Zenon DEF Tree
  <2>2. CASE ~ ExecResults
    <3>1. th["serv"] # "idle"
      BY <1>3, <2>2, EntersStop, Zenon
    <3>2. ~ ExecStop /\ ~ getInternal /\ ~ WokeInternal
      BY <3>1, Zenon DEF ExecStop, getInternal, WokeInternal, Step, Serving
    <3>3. sv = "suffix"
      BY <1>3, <2>2, <3>2, ServicerFrom, Zenon
    <3> QED
      BY <3>1, <3>3, EndStays, Zenon DEF Ended
  <2> QED
    BY <2>1, <2>2, Zenon
<1>4. ASSUME sv' = "undone" \/ (sv' = "suffix" /\ th'["serv"] # "set")
      PROVE  abend' \/ Settled' \/ state' = "completed"
  <2>1. CASE sv = "undone" \/ (sv = "suffix" /\ th["serv"] # "set")
    <3>1. sv # "queued" /\ (abend \/ Settled \/ state = "completed")
      BY <2>1, Zenon DEF Ended
    <3> QED
      BY <3>1, SettledStays, EndStays, Zenon
  <2>2. CASE sv = "suffix" /\ th["serv"] = "set"
    <3>1. CASE StopSet("serv")
      BY <1>0, <3>1, StopSets, Zenon DEF Settled
    <3>2. CASE StatementFails
      BY <2>2, <3>2, Zenon DEF StatementFails, Serving
    <3>3. CASE th'["serv"] = "set"
      BY <1>4, <2>2, <3>2, <3>3, ServicerFrom, Zenon
    <3> QED
      BY <1>0, <2>2, <3>1, <3>3, EntersInside, Zenon
  <2>3. CASE StatementFails
    <3>1. sv = "suffix" /\ th["serv"] = "idle"
      BY <2>3, Zenon DEF StatementFails, Serving
    <3> QED
      BY <2>1, <3>1, Zenon
  <2>4. CASE ExecResults
    <3>1. sv' = "suffix" /\ th'["serv"] = "set"
      BY <2>4, ServesBegin, Zenon DEF ExecResults, Step
    <3> QED
      BY <1>4, <3>1, Zenon
  <2>5. CASE ExecStop
    <3>1. sv' = "suffix" \/ sv' = "internal"
      BY <2>5, Zenon DEF ExecStop, Step
    <3>2. State = "abend" /\ UNCHANGED <<state, abend>>
      BY <1>4, <2>5, <3>1, Zenon DEF ExecStop, Step
    <3>3. state # "abend"
      BY Zenon DEF TypeOK, States, Stopped
    <3> QED
      BY <3>2, <3>3, Zenon DEF State
  <2>6. CASE getInternal \/ WokeInternal
    <3>1. sv \in {"internal", "wokeop"} /\ th["serv"] = "idle" /\ state' = state
      BY <2>6, Zenon DEF getInternal, WokeInternal, Step, Serving, reqVars
    <3> QED
      BY <3>1, Zenon DEF Caused, Settled
  <2> QED
    BY <1>4, <2>1, <2>2, <2>3, <2>4, <2>5, <2>6, ServicerFrom, Zenon
<1> QED
  BY <1>1, <1>2, <1>3, <1>4, Zenon DEF Ended

LEMMA Responds ==
  ASSUME Next
  PROVE  report' = report \/ Failed \/ Suffix
<1>1. ASSUME NEW t \in Stoppers, StopOn(t) \/ StopSignal(t)
      PROVE  report' = report
  BY <1>1, Zenon DEF StopOn, StopSet, StopTake, StopUnpause, StopGate, StopAdd, StopSend, StopSignal
<1>2. CASE ServeOn
  BY <1>2, Zenon DEF ServeOn, Servicing, Build, NotifyStop, RunOnce, Prefix, ExecStop, getInternal,
     WokeInternal, Unlist, StopTimer, CompleteGate, CompleteAdd, Done
<1>3. CASE ServeBegin
  BY <1>3, Zenon DEF ServeBegin, Fail, ExecResults, ExecGone, StatementFails
<1>4. CASE OperateOn \/ OpRaise
  BY <1>4, Zenon DEF OperateOn, OpSend, OpResume, getExternal, WokeExternal, Result, ResultFails,
     OpRaised, OpRaise, OpEnds, OpClose
<1>5. CASE Control \/ Expire \/ AdminDelete \/ ClientGone
  BY <1>5, ControlFrame, Zenon
<1> QED
  BY <1>1, <1>2, <1>3, <1>4, <1>5, NextCases, Zenon DEF ServeBegin

LEMMA ToldStep ==
  ASSUME Next, Effects, Ended, Told
  PROVE  Told'
<1>1. CASE report' = report
  BY <1>1, EndStays, Zenon DEF Told
<1>2. CASE Failed
  <2>1. sv = "failed" /\ report' = State
    BY <1>2, Zenon DEF Failed, Serving
  <2>2. report' = "abend" \/ report' = "fatal"
    BY <2>1, Zenon DEF State, Ended
  <2> QED
    BY <2>2, Zenon DEF Told
<1>3. CASE Suffix
  <2>1. sv \in {"suffix", "undone"} /\ th["serv"] = "idle" /\ report' = State /\ UNCHANGED <<op, cut>>
    BY <1>3, Zenon DEF Suffix, Step, Serving, opVars
  <2>2. CASE abend
    BY <2>1, <2>2, Zenon DEF State, Told
  <2>3. CASE Settled /\ ~ abend
    <3>1. report' # "running" /\ report' # "completed"
      BY <2>1, <2>3, SetStates, Zenon DEF State, Settled
    <3> QED
      BY <3>1, Zenon DEF Told
  <2>4. CASE state = "completed" /\ ~ abend
    <3>1. report' = "completed" /\ op = "end" /\ ~ cut
      BY <2>1, <2>4, SetStates, Zenon DEF State, Ended, Effects, Settled
    <3> QED
      BY <2>1, <3>1, Zenon DEF Told
  <2> QED
    BY <2>1, <2>2, <2>3, <2>4, Zenon DEF Ended
<1> QED
  BY <1>1, <1>2, <1>3, Responds, Zenon

LEMMA HonestStep ==
  ASSUME TypeOK, Plans, Locks, Gating, Bare, Tree, Honest, Next
  PROVE  Honest'
<1>1. SUFFICES ASSUME "early" \notin upset'
               PROVE  (Caused /\ Effects /\ Ended /\ Told)'
  BY Zenon DEF Honest
<1>2. Caused /\ Effects /\ Ended /\ Told
  BY <1>1, UpsetGrows, Zenon DEF Honest
<1> QED
  BY <1>1, <1>2, CausedStep, EffectsStep, EndedStep, ToldStep, Zenon

----------------------------------------------------------------------------
(* The two writers of the response.                                        *)

\* Who takes stopOperator, and who sets it.
LEMMA OperatorTaken ==
  ASSUME Next
  PROVE  \/ stopOp' = stopOp \/ NotifyStop \/ CompleteAdd
         \/ \E t \in Stoppers : (StopTake(t) \/ StopUnpause(t)) /\ Take(t)
<1>1. ASSUME NEW t \in Stoppers, StopOn(t) \/ StopSignal(t)
      PROVE  stopOp' = stopOp \/ ((StopTake(t) \/ StopUnpause(t)) /\ Take(t))
  <2>1. CASE StopTake(t) \/ StopUnpause(t)
    BY <2>1, Zenon DEF StopTake, StopUnpause
  <2>2. CASE ~ (StopTake(t) \/ StopUnpause(t))
    BY <1>1, <2>2, Zenon DEF StopOn, StopSet, StopGate, StopAdd, StopSend, StopSignal, reqVars
  <2> QED
    BY <2>1, <2>2, Zenon
<1>2. CASE ServeOn
  BY <1>2, Zenon DEF ServeOn, Servicing, Build, RunOnce, Prefix, ExecStop, getInternal, WokeInternal,
     Suffix, Unlist, StopTimer, CompleteGate, Done, reqVars
<1>3. CASE ServeBegin
  BY <1>3, Zenon DEF ServeBegin, Fail, Failed, ExecResults, ExecGone, StatementFails, reqVars
<1>4. CASE OperateOn \/ OpRaise
  BY <1>4, Zenon DEF OperateOn, OpSend, OpResume, getExternal, WokeExternal, Result, ResultFails,
     OpRaised, OpRaise, OpEnds, OpClose, reqVars
<1>5. CASE Control \/ Expire \/ AdminDelete \/ ClientGone
  BY <1>5, ControlFrame, Zenon
<1> QED
  BY <1>1, <1>2, <1>3, <1>4, <1>5, NextCases, Zenon DEF ServeBegin

\* A thread that gets as far as the stop gate, or past it, has just left stopOperator
\* nil or was as far before; and the one with the operator keeps it until it is sent.
LEMMA Passes ==
  ASSUME TypeOK, Plans, Locks, Next, NEW t \in Stoppers
  PROVE  /\ th'[t] \in Sending \cup {"signal"} => th[t] \in Sending \cup {"signal"} \/ ~ stopOp'
         /\ th[t] \in Sending => th'[t] \in Sending \/ StopSend(t)
<1>1. ASSUME NEW u \in Stoppers, StopOn(u), u = t
      PROVE  /\ th'[t] \in Sending \cup {"signal"} => th[t] \in Sending \cup {"signal"} \/ ~ stopOp'
             /\ th[t] \in Sending => th'[t] \in Sending \/ StopSend(t)
  <2>1. CASE StopSet(t)
    <3>1. th[t] = "set" /\ th'[t] = "take"
      BY <2>1, Goes, Zenon DEF StopSet
    <3> QED
      BY <3>1, Zenon DEF Sending
  <2>2. CASE StopTake(t) \/ StopUnpause(t)
    <3>1. (th[t] = "take" \/ th[t] = "unpause") /\ (Goto(t, "unpause") \/ ~ stopOp')
      BY <2>2, Zenon DEF StopTake, StopUnpause, Take
    <3>2. th'[t] = "unpause" \/ ~ stopOp'
      BY <3>1, Goes, Zenon
    <3> QED
      BY <3>1, <3>2, Zenon DEF Sending
  <2>3. CASE StopGate(t) \/ StopAdd(t)
    <3>1. (th[t] = "gate" \/ th[t] = "add") /\ (Goto(t, "add") \/ Goto(t, "send"))
      BY <2>3, Zenon DEF StopGate, StopAdd
    <3>2. th'[t] = "add" \/ th'[t] = "send"
      BY <3>1, Goes, Zenon
    <3> QED
      BY <3>1, <3>2, Zenon DEF Sending
  <2>4. CASE StopSend(t)
    <3>1. th[t] = "send"
      BY <2>4, Zenon DEF StopSend
    <3> QED
      BY <2>4, <3>1, Zenon DEF Sending
  <2> QED
    BY <1>1, <2>1, <2>2, <2>3, <2>4, Zenon DEF StopOn
<1>2. ASSUME NEW u \in Stoppers, StopSignal(u), u = t
      PROVE  th[t] = "signal"
  BY <1>2, Signals, Zenon
<1>3. ASSUME NEW u \in Stoppers, StopOn(u) \/ StopSignal(u), u # t
      PROVE  th'[t] = th[t]
  BY <1>3, StopsOn, Signals, Zenon
<1>4. CASE ServeOn \/ ServeBegin \/ OperateOn \/ OpRaise \/ Control \/ Expire \/ AdminDelete \/ ClientGone
  <2>1. th'[t] = th[t] \/ (th[t] = "idle" /\ th'[t] = "set")
    BY <1>4, Enters, Zenon
  <2>2. CASE th'[t] = th[t]
    BY <2>2, Zenon
  <2>3. CASE th[t] = "idle" /\ th'[t] = "set"
    BY <2>3, Zenon DEF Sending
  <2> QED
    BY <2>1, <2>2, <2>3, Zenon
<1>5. CASE \E u \in Stoppers : StopOn(u) \/ StopSignal(u)
  <2>1. PICK u \in Stoppers : StopOn(u) \/ StopSignal(u)
    BY <1>5, Zenon
  <2>2. CASE u # t
    BY <1>3, <2>1, <2>2, Zenon
  <2>3. CASE u = t /\ StopOn(u)
    BY <1>1, <2>3, Zenon
  <2>4. CASE u = t /\ StopSignal(u)
    BY <1>2, <2>4, Zenon DEF Sending
  <2> QED
    BY <2>1, <2>2, <2>3, <2>4, Zenon
<1> QED
  BY <1>4, <1>5, NextCases, Zenon DEF ServeBegin

\* Nobody signals while another has yet to reach the tree.
LEMMA SignalsLast ==
  ASSUME Reaching, NEW t \in Stoppers, StopSignal(t), "overtake" \notin upset', sv \in Running
  PROVE  opStop
<1>1. th[t] = "signal" /\ \A u \in Stoppers \ {t} : th[u] \notin Sending
  BY Zenon DEF StopSignal, Overtaking, Sending
<1>2. ~ stopOp /\ th[t] \notin Sending
  BY <1>1, Zenon DEF Reaching, Sending
<1> QED
  BY <1>1, <1>2, Zenon DEF Reaching

\* A request is in service from NotifyStop on, and until then nobody is inside Stop.
LEMMA RunningFrom ==
  ASSUME Next
  PROVE  sv' \in Running => sv \in Running \/ NotifyStop
<1>1. CASE sv' = sv
  BY <1>1, Zenon
<1>2. CASE OperateOn /\ sv = "waitop" /\ sv' = "wokeop"
  BY <1>2, Zenon DEF Running
<1>3. CASE Servicing \/ Build \/ RunOnce \/ Prefix
  BY <1>3, Zenon DEF Servicing, Build, RunOnce, Prefix, Step, Serving, Running
<1>4. CASE ExecStop \/ getInternal \/ WokeInternal
  BY <1>4, Zenon DEF ExecStop, getInternal, WokeInternal, Step, Serving, Running
<1>5. CASE Suffix \/ Unlist \/ StopTimer \/ CompleteGate \/ CompleteAdd \/ Done
  BY <1>5, Zenon DEF Suffix, Unlist, StopTimer, CompleteGate, CompleteAdd, Done, Step, Running
<1>6. CASE Fail \/ Failed
  BY <1>6, Zenon DEF Fail, Failed, Running
<1>7. CASE ExecResults \/ ExecGone \/ StatementFails
  BY <1>7, Zenon DEF ExecResults, ExecGone, StatementFails, Step, Serving, Running
<1> QED
  BY <1>1, <1>2, <1>3, <1>4, <1>5, <1>6, <1>7, ServicerMoves, Zenon DEF ServeOn, ServeBegin

LEMMA ReachingStep ==
  ASSUME TypeOK, Plans, Locks, Caused, Effects, Reaching, Next, "overtake" \notin upset'
  PROVE  Reaching'
<1>0. "serv" \in Stoppers
  BY Zenon DEF Stoppers
<1>1. ASSUME NEW t \in Stoppers, th'[t] \in Sending \cup {"signal"}
      PROVE  ~ stopOp'
  <2>1. CASE NotifyStop
    <3>1. sv = "notify" /\ th["serv"] = "idle" /\ th' = th
      BY <2>1, Zenon DEF NotifyStop, Step, Serving, stopVars
    <3>2. th[t] \in Inside /\ th[t] # "idle"
      BY <1>1, <3>1, Zenon DEF Sending, Inside
    <3> QED
      BY <3>1, <3>2, Zenon DEF Caused, Unbuilt
  <2>2. CASE CompleteAdd
    BY <2>2, Zenon DEF CompleteAdd
  <2>3. CASE \E u \in Stoppers : Take(u)
    BY <2>3, Zenon DEF Take
  <2>4. CASE stopOp' = stopOp
    <3>1. th[t] \in Sending \cup {"signal"} \/ ~ stopOp'
      BY <1>1, Passes, Zenon
    <3> QED
      BY <2>4, <3>1, Zenon DEF Reaching
  <2> QED
    BY <2>1, <2>2, <2>3, <2>4, OperatorTaken, Zenon
<1>2. opStop => opStop'
  <2>1. opStop' = opStop \/ opStop'
    BY StopsDo, Zenon DEF StopSend
  <2> QED
    BY <2>1, Zenon
<1>3. ASSUME sv' \in Running
      PROVE  stopOp' \/ opStop' \/ \E t \in Stoppers : th'[t] \in Sending
  <2>1. CASE NotifyStop
    BY <2>1, Zenon DEF NotifyStop
  <2>2. CASE ~ NotifyStop
    <3>1. sv \in Running
      BY <1>3, <2>2, RunningFrom, Zenon
    <3>2. CASE opStop
      BY <1>2, <3>2, Zenon
    <3>3. CASE \E t \in Stoppers : th[t] \in Sending
      <4>1. PICK t \in Stoppers : th[t] \in Sending
        BY <3>3, Zenon
      <4>2. CASE StopSend(t)
        BY <4>2, Zenon DEF StopSend
      <4> QED
        BY <4>1, <4>2, Passes, Zenon
    <3>4. CASE stopOp
      <4>1. CASE stopOp' = stopOp
        BY <3>4, <4>1, Zenon
      <4>2. CASE CompleteAdd
        BY <1>3, <4>2, Zenon DEF CompleteAdd, Step, Running
      <4>3. ASSUME NEW t \in Stoppers, Take(t)
            PROVE  th'[t] \in Sending
        <5>1. Goto(t, "gate")
          BY <3>4, <4>3, Zenon DEF Take
        <5>2. th'[t] = "gate"
          BY <5>1, Goes, Zenon
        <5> QED
          BY <5>2, Zenon DEF Sending
      <4> QED
        BY <2>2, <4>1, <4>2, <4>3, OperatorTaken, Zenon
    <3> QED
      BY <3>1, <3>2, <3>3, <3>4, Zenon DEF Reaching
  <2> QED
    BY <2>1, <2>2, Zenon
<1>4. ASSUME stopExec', sv' \in Running
      PROVE  opStop'
  <2>1. CASE \E t \in Stoppers : StopSignal(t)
    <3>1. PICK t \in Stoppers : StopSignal(t)
      BY <2>1, Zenon
    <3>2. sv \in Running
      BY <1>4, <3>1, Zenon DEF StopSignal
    <3> QED
      BY <1>2, <3>1, <3>2, SignalsLast, Zenon
  <2>2. CASE ~ \E t \in Stoppers : StopSignal(t)
    <3>1. stopExec
      BY <1>4, <2>2, StopsDo, Zenon
    <3>2. ~ NotifyStop
      BY <3>1, Zenon DEF Effects, NotifyStop, Step, Serving, Unbuilt
    <3>3. sv \in Running
      BY <1>4, <3>2, RunningFrom, Zenon
    <3> QED
      BY <1>2, <3>1, <3>3, Zenon DEF Reaching
  <2> QED
    BY <2>1, <2>2, Zenon
<1>5. ASSUME sv' \in {"internal", "waitop", "wokeop"}, th'["serv"] = "idle"
      PROVE  opStop'
  <2>1. CASE ExecStop
    <3>1. stopExec /\ sv \in Running
      BY <2>1, Zenon DEF ExecStop, Step, Serving, Running
    <3> QED
      BY <1>2, <3>1, Zenon DEF Reaching
  <2>2. CASE ExecGone
    <3>1. th'["serv"] = "set"
      BY <2>2, ServesBegin, Zenon
    <3> QED
      BY <1>5, <3>1, Zenon
  <2>3. CASE sv \in {"internal", "waitop", "wokeop"}
    <3>1. CASE th["serv"] = "idle"
      BY <1>2, <2>3, <3>1, Zenon DEF Reaching
    <3>2. CASE th["serv"] # "idle"
      <4>1. StopSignal("serv")
        BY <1>0, <1>5, <3>2, LeavesStop, Zenon
      <4>2. sv \in Running
        BY <2>3, Zenon DEF Running
      <4> QED
        BY <1>0, <1>2, <4>1, <4>2, SignalsLast, Zenon
    <3> QED
      BY <3>1, <3>2, Zenon
  <2> QED
    BY <1>5, <2>1, <2>2, <2>3, ServicerFrom, Zenon
<1> QED
  BY <1>1, <1>3, <1>4, <1>5, Zenon DEF Reaching

\* Who writes, and who is waited for.
LEMMA WriterUse ==
  ASSUME TypeOK, Next
  PROVE  \/ writer'.inUse = writer.inUse
         \/ getExternal /\ op' = "write" /\ writer'.inUse
         \/ WokeExternal /\ writer'.inUse
         \/ OperateOn /\ releaseInternal /\ ~ writer'.inUse /\ op' \in {"run", "close"}
<1>1. ASSUME NEW t \in Stoppers, StopOn(t) \/ StopSignal(t)
      PROVE  writer' = writer
  BY <1>1, Zenon DEF StopOn, StopSet, StopTake, StopUnpause, StopGate, StopAdd, StopSend, StopSignal
<1>2. CASE ServeOn
  <2>1. CASE Prefix
    BY <2>1, WriterStarts, Zenon DEF Prefix
  <2>2. CASE getInternal \/ WokeInternal
    BY <2>2, WriterWaits, WriterStops, Zenon DEF getInternal, WokeInternal
  <2>3. CASE ~ (Prefix \/ getInternal \/ WokeInternal)
    <3>1. writer' = writer
      BY <1>2, <2>3, Zenon DEF ServeOn, Servicing, Build, NotifyStop, RunOnce, ExecStop, Suffix, Unlist,
         StopTimer, CompleteGate, CompleteAdd, Done
    <3> QED
      BY <3>1, Zenon
  <2> QED
    BY <2>1, <2>2, <2>3, Zenon
<1>3. CASE ServeBegin \/ OpRaise
  <2>1. writer' = writer
    BY <1>3, Zenon DEF ServeBegin, Fail, Failed, ExecResults, ExecGone, StatementFails, OpRaise
  <2> QED
    BY <2>1, Zenon
<1>4. CASE OperateOn
  <2>1. CASE getExternal
    BY <2>1, WriterWaits, WriterTaken, Zenon DEF getExternal
  <2>2. CASE WokeExternal
    BY <2>2, WriterTaken, Zenon DEF WokeExternal
  <2>3. CASE Result \/ ResultFails \/ OpRaised
    <3>1. writer' = writer \/ (releaseInternal /\ op' \in {"run", "close"})
      BY <2>3, Zenon DEF Result, ResultFails, OpRaised
    <3> QED
      BY <1>4, <3>1, WriterReleased, Zenon
  <2>4. CASE OpSend \/ OpResume \/ OpEnds \/ OpClose
    <3>1. writer' = writer
      BY <2>4, Zenon DEF OpSend, OpResume, OpEnds, OpClose
    <3> QED
      BY <3>1, Zenon
  <2> QED
    BY <1>4, <2>1, <2>2, <2>3, <2>4, Zenon DEF OperateOn
<1>5. CASE Control \/ Expire \/ AdminDelete \/ ClientGone
  <2>1. writer' = writer
    BY <1>5, ControlFrame, Zenon
  <2> QED
    BY <2>1, Zenon
<1> QED
  BY <1>1, <1>2, <1>3, <1>4, <1>5, NextCases, Zenon DEF ServeBegin

LEMMA Writes ==
  ASSUME Next, op' \in {"woken", "write"}
  PROVE  \/ op' = op
         \/ Prefix /\ op = "start"
         \/ getExternal /\ ~ opStop /\ ~ writer.stopped
         \/ WokeExternal /\ op = "woken"
<1>1. ASSUME NEW t \in Stoppers, StopOn(t) \/ StopSignal(t)
      PROVE  op' = op
  BY <1>1, Zenon DEF StopOn, StopSet, StopTake, StopUnpause, StopGate, StopAdd, StopSend, StopSignal,
     opVars
<1>2. CASE ServeOn
  BY <1>2, Zenon DEF ServeOn, Servicing, Build, NotifyStop, RunOnce, Prefix, ExecStop, getInternal,
     WokeInternal, Suffix, Unlist, StopTimer, CompleteGate, CompleteAdd, Done, opVars
<1>3. CASE ServeBegin \/ OpRaise
  BY <1>3, Zenon DEF ServeBegin, Fail, Failed, ExecResults, ExecGone, StatementFails, OpRaise, opVars
<1>4. CASE OperateOn
  BY <1>4, Zenon DEF OperateOn, OpSend, OpResume, getExternal, WokeExternal, Result, ResultFails,
     OpRaised, OpEnds, OpClose
<1>5. CASE Control \/ Expire \/ AdminDelete \/ ClientGone
  BY <1>5, ControlFrame, Zenon
<1> QED
  BY <1>1, <1>2, <1>3, <1>4, <1>5, NextCases, Zenon DEF ServeBegin

LEMMA WaitsFrom ==
  ASSUME Next
  PROVE  /\ sv' = "waitop" => sv = "waitop" \/ (getInternal /\ writer.inUse)
         /\ sv' = "wokeop" => sv = "wokeop" \/ (OperateOn /\ sv = "waitop")
<1>1. CASE sv' = sv
  BY <1>1, Zenon
<1>2. CASE OperateOn /\ sv = "waitop" /\ sv' = "wokeop"
  BY <1>2, Zenon
<1>3. CASE ServeOn
  BY <1>3, Zenon DEF ServeOn, Servicing, Build, NotifyStop, RunOnce, Prefix, ExecStop, getInternal,
     WokeInternal, Suffix, Unlist, StopTimer, CompleteGate, CompleteAdd, Done, Step, Serving
<1>4. CASE ServeBegin
  BY <1>4, Zenon DEF ServeBegin, Fail, Failed, ExecResults, ExecGone, StatementFails, Step
<1> QED
  BY <1>1, <1>2, <1>3, <1>4, ServicerMoves, Zenon

LEMMA Releases ==
  ASSUME OperateOn, sv = "waitop", sv' = "wokeop"
  PROVE  releaseInternal /\ op' \in {"run", "close"}
<1>1. sv' # sv
  BY Zenon
<1> QED
  BY <1>1, Zenon DEF OperateOn, OpSend, OpResume, getExternal, WokeExternal, Result, ResultFails,
     OpRaised, OpEnds, OpClose

\* No write begins that was not under way.
LEMMA NoWrite ==
  ASSUME TypeOK, Next, ~ writer.inUse, op \notin {"woken", "write"},
         opStop \/ writer.stopped, ~ Prefix \/ op # "start"
  PROVE  ~ writer'.inUse /\ op' \notin {"woken", "write"}
<1>1. op' \notin {"woken", "write"}
  <2>1. SUFFICES ASSUME op' \in {"woken", "write"}
                 PROVE  FALSE
    BY Zenon
  <2> QED
    BY <2>1, Writes, Zenon
<1>2. ~ WokeExternal
  BY Zenon DEF WokeExternal
<1> QED
  BY <1>1, <1>2, WriterUse, Zenon

LEMMA WaitingStep ==
  ASSUME TypeOK, Plans, Tree, Reaching, Waiting, Next, "wake" \notin upset'
  PROVE  Waiting'
<1>1. ASSUME sv' = "waitop"
      PROVE  writer'.inUse
  <2>1. CASE getInternal /\ writer.inUse
    <3>1. writer' = [writer EXCEPT !.waiter = TRUE]
      BY <2>1, Zenon DEF getInternal
    <3> QED
      BY <2>1, <3>1, WriterWaits, Zenon
  <2>2. CASE sv = "waitop"
    <3>1. ~ releaseInternal
      BY <1>1, <2>2, Zenon DEF releaseInternal
    <3> QED
      BY <2>2, <3>1, WriterUse, Zenon DEF Waiting
  <2> QED
    BY <1>1, <2>1, <2>2, WaitsFrom, Zenon
<1>2. ASSUME sv' = "wokeop"
      PROVE  ~ writer'.inUse /\ op' \notin {"woken", "write"}
  <2>1. CASE sv = "wokeop"
    <3>1. th["serv"] = "idle" /\ ~ Prefix
      BY <2>1, Zenon DEF Plans, Prefix, Step, Serving
    <3>2. opStop /\ ~ writer.inUse /\ op \notin {"woken", "write"}
      BY <2>1, <3>1, Zenon DEF Reaching, Waiting
    <3> QED
      BY <3>1, <3>2, NoWrite, Zenon
  <2>2. CASE OperateOn /\ sv = "waitop"
    <3>1. releaseInternal /\ op' \in {"run", "close"}
      BY <1>2, <2>2, Releases, Zenon
    <3> QED
      BY <3>1, WriterReleased, Zenon
  <2> QED
    BY <1>2, <2>1, <2>2, WaitsFrom, Zenon
<1>3. ASSUME writer'.stopped
      PROVE  ~ writer'.inUse /\ op' \notin {"woken", "write"}
  <2>1. CASE writer.stopped
    <3>1. ~ writer.inUse /\ op \notin {"woken", "write"} /\ op # "start"
      BY <2>1, Zenon DEF Waiting, Tree
    <3> QED
      BY <2>1, <3>1, NoWrite, Zenon
  <2>2. CASE getInternal /\ ~ writer.stopped
    <3>1. ~ writer.inUse /\ writer' = [writer EXCEPT !.stopped = TRUE]
      BY <1>3, <2>2, WriterWaits, Zenon DEF getInternal
    <3>2. op' = op /\ op # "woken"
      BY <2>2, Zenon DEF getInternal, opVars
    <3>3. op # "write"
      BY <3>1, Zenon DEF Tree
    <3> QED
      BY <3>1, <3>2, <3>3, WriterStops, Zenon
  <2>3. CASE WokeInternal
    <3>1. sv = "wokeop" /\ op' = op /\ writer' = [writer EXCEPT !.stopped = TRUE]
      BY <2>3, Zenon DEF WokeInternal, Step, Serving, opVars
    <3>2. ~ writer.inUse /\ op \notin {"woken", "write"}
      BY <3>1, Zenon DEF Waiting
    <3> QED
      BY <3>1, <3>2, WriterStops, Zenon
  <2> QED
    BY <1>3, <2>1, <2>2, <2>3, WriterShut, Zenon
<1>4. ASSUME sv' \in {"suffix", "undone"}
      PROVE  abend' \/ op' = "end" \/ writer'.stopped
  <2>1. CASE sv \in {"suffix", "undone"}
    <3>1. ~ getInternal /\ ~ WokeInternal
      BY <2>1, Zenon DEF getInternal, WokeInternal, Step, Serving
    <3>2. abend \/ op = "end" \/ writer.stopped
      BY <2>1, Zenon DEF Waiting
    <3> QED
      BY <3>1, <3>2, EndStays, WriterShut, Zenon
  <2>2. CASE ExecResults
    <3>1. results /\ op' = op
      BY <2>2, Zenon DEF ExecResults, opVars
    <3> QED
      BY <3>1, Zenon DEF Tree
  <2>3. CASE ExecStop
    <3>1. sv' # "internal"
      BY <1>4, Zenon
    <3>2. State = "abend" /\ UNCHANGED <<state, abend>>
      BY <2>3, <3>1, Zenon DEF ExecStop, Step
    <3>3. state # "abend"
      BY Zenon DEF TypeOK, States, Stopped
    <3> QED
      BY <3>2, <3>3, Zenon DEF State
  <2>4. CASE getInternal \/ WokeInternal
    <3>1. sv' # "waitop"
      BY <1>4, Zenon
    <3>2. writer' = [writer EXCEPT !.stopped = TRUE]
      BY <2>4, <3>1, Zenon DEF getInternal, WokeInternal
    <3> QED
      BY <3>2, WriterStops, Zenon
  <2>5. CASE StatementFails
    <3>1. sv = "suffix"
      BY <2>5, Zenon DEF StatementFails, Serving
    <3> QED
      BY <2>1, <3>1, Zenon
  <2>6. CASE sv' = "suffix"
    BY <2>1, <2>2, <2>3, <2>4, <2>6, ServicerFrom, Zenon
  <2>7. CASE sv' = "undone"
    BY <2>1, <2>5, <2>7, ServicerFrom, Zenon
  <2> QED
    BY <1>4, <2>6, <2>7, Zenon
<1> QED
  BY <1>1, <1>2, <1>3, <1>4, Zenon DEF Waiting

LEMMA ExclusiveStep ==
  ASSUME TypeOK, Plans, Locks, Tree, Honest, Exclusive, Next
  PROVE  Exclusive'
<1>1. SUFFICES ASSUME Quiet'
               PROVE  Reaching' /\ Waiting'
  BY Zenon DEF Exclusive
<1>2. "early" \notin upset' /\ "overtake" \notin upset' /\ "wake" \notin upset'
  BY <1>1, Zenon DEF Quiet
<1>3. Quiet /\ "early" \notin upset
  BY <1>1, <1>2, UpsetGrows, Zenon DEF Quiet
<1>4. Reaching /\ Waiting /\ Caused /\ Effects
  BY <1>3, Zenon DEF Exclusive, Honest
<1> QED
  BY <1>2, <1>4, ReachingStep, WaitingStep, Zenon

----------------------------------------------------------------------------
(* The theorems.                                                           *)

Inv ==
  /\ TypeOK /\ Plans /\ Locks /\ Pausing /\ Gating
  /\ Bare /\ Tree /\ Honest /\ Exclusive

LEMMA InvInit == Init => Inv
<1> SUFFICES ASSUME Init
             PROVE  Inv
  OBVIOUS
<1>2. TypeOK
  <2>1. /\ th \in [Stoppers -> {"idle", "set", "take", "unpause", "gate", "add", "send", "signal"}]
        /\ \A t \in Stoppers : todo[t] = <<>> <=> th[t] = "idle"
    BY Zenon DEF Init
  <2>2. todo \in [Stoppers -> Seq(States)]
    BY DEF Init
  <2>3. /\ gate \in 0..2 /\ items \in 0..MaxItems
        /\ pauses \in 0..MaxPauses /\ acts \in 0..MaxStops /\ pauseWg \in Int
    BY BoundsAssumption DEF Init
  <2>4. writer \in [started : BOOLEAN, stopped : BOOLEAN, inUse : BOOLEAN, waiter : BOOLEAN]
    BY DEF Init
  <2>5. state \in States
    BY Zenon DEF Init, States
  <2> QED
    BY <2>1, <2>2, <2>3, <2>4, <2>5, ServicerMembers, Zenon DEF Init, TypeOK
<1>3. \A t \in Stoppers : th[t] = "idle"
  BY Zenon DEF Init
<1>4. /\ "serv" \in Stoppers /\ "oper" \in Stoppers /\ "timer" \in Stoppers
      /\ "admin" \in Stoppers /\ "ctl" \in Stoppers
  BY Zenon DEF Stoppers
<1>5. Plans
  BY <1>3, <1>4, Zenon DEF Plans, Init
<1>6. Locks
  BY <1>3, <1>4, Zenon DEF Locks, Init, Leaving, Stoppers
<1>7. Pausing
  BY Zenon DEF Pausing, Init
<1>8. Gating
  <2>1. gate = 0 /\ sv # "done" /\ ~ stopOp /\ \A t \in Stoppers : th[t] \notin Sending /\ th[t] # "send"
    BY <1>3, Zenon DEF Init, Sending
  <2>2. gate = (IF \E t \in Stoppers : th[t] = "send" THEN 1 ELSE 0) + (IF sv = "done" THEN 1 ELSE 0)
    BY <2>1
  <2> QED
    BY <2>1, <2>2, Zenon DEF Gating
<1>9. Bare
  BY <1>3, Zenon DEF Bare, Init, Sending
<1>10. Tree
  BY DEF Tree, Init, Running
<1>11. Honest
  <2>1. \A t \in Stoppers : th[t] \notin Inside
    BY <1>3, Zenon DEF Inside
  <2>2. Caused
    BY <1>4, <2>1, Zenon DEF Caused, Init
  <2>3. Effects
    BY DEF Effects, Init
  <2>4. Ended /\ Told
    BY Zenon DEF Ended, Told, Init
  <2> QED
    BY <2>2, <2>3, <2>4, Zenon DEF Honest
<1>12. Exclusive
  <2>1. \A t \in Stoppers : th[t] \notin Sending \cup {"signal"}
    BY <1>3, Zenon DEF Sending
  <2>2. Reaching
    BY <2>1, Zenon DEF Reaching, Init, Running
  <2>3. Waiting
    BY DEF Waiting, Init
  <2> QED
    BY <2>2, <2>3, Zenon DEF Exclusive
<1> QED
  BY <1>2, <1>5, <1>6, <1>7, <1>8, <1>9, <1>10, <1>11, <1>12, Zenon DEF Inv

LEMMA InvStep == Inv /\ [Next]_vars => Inv'
<1> SUFFICES ASSUME Inv, [Next]_vars
             PROVE  Inv'
  OBVIOUS
<1>1. TypeOK /\ Plans /\ Locks /\ Pausing /\ Gating /\ Bare /\ Tree /\ Honest /\ Exclusive
  BY Zenon DEF Inv
<1>2. CASE Next
  <2>1. TypeOK' /\ Plans' /\ Locks' /\ Pausing' /\ Gating'
    BY <1>1, <1>2, TypeStep, PlansStep, LocksStep, PausingStep, GatingStep, Zenon
  <2>2. Bare' /\ Tree' /\ Honest' /\ Exclusive'
    BY <1>1, <1>2, BareStep, TreeStep, HonestStep, ExclusiveStep, Zenon
  <2> QED
    BY <2>1, <2>2, Zenon DEF Inv
<1>3. CASE UNCHANGED vars
  <2>1. UNCHANGED <<state, abend, timings, stopOp, gate, stopExec, results, th, todo, lock, op, opStop,
                    items, cut>>
    BY <1>3, Zenon DEF vars, reqVars, stopVars, opVars
  <2>2. UNCHANGED <<pauseAt, pauseWg, pauses, ctl, listed, bucket, sv, writer, timer, gone, acts,
                    report, upset>>
    BY <1>3, Zenon DEF vars, pauseVars, listVars, envVars
  <2>3. TypeOK'
    BY <1>1, <2>1, <2>2, SMT DEF TypeOK
  <2>4. Plans' /\ Locks' /\ Pausing'
    <3>1. Plans'
      BY <1>1, <2>1, <2>2, Zenon DEF Plans
    <3>2. Locks' /\ Pausing'
      BY <1>1, <2>1, <2>2, Zenon DEF Locks, Pausing
    <3> QED
      BY <3>1, <3>2, Zenon
  <2>5. Gating'
    BY <1>1, <2>1, <2>2, Zenon DEF Gating
  <2>6. Bare' /\ Tree'
    BY <1>1, <2>1, <2>2, Zenon DEF Bare, Treeless, Tree
  <2>7. Honest'
    BY <1>1, <2>1, <2>2, Zenon DEF Honest, Caused, Effects, Ended, Told, Settled
  <2>8. Exclusive'
    BY <1>1, <2>1, <2>2, Zenon DEF Exclusive, Quiet, Reaching, Waiting
  <2> QED
    BY <2>3, <2>4, <2>5, <2>6, <2>7, <2>8, Zenon DEF Inv
<1> QED
  BY <1>2, <1>3, Zenon

LEMMA Invariance == Spec => []Inv
BY InvInit, InvStep, PTL DEF Spec

\* However often the request is paused, stopped or fails, and however many results it
\* has, its response says "completed" only of a tree that was not cut short, and never
\* "running", unless the request was stopped before it had a tree (SetState, Stop, Execute).
THEOREM ResponseIsHonest == Spec => []HonestReport
<1>1. Inv => HonestReport
  BY Zenon DEF Inv, Honest, Told, HonestReport
<1> QED
  BY <1>1, Invariance, PTL

\* The serving goroutine ends the response only when the operator is not writing to it,
\* but for the disturbances WriterExclusive names: the stop reaches the tree before
\* Execute hears of it, so a write that was waited for is the last one (Stop, getExternal,
\* getInternal).
THEOREM OneWriterAtATime == Spec => []WriterExclusive
<1>1. Inv => WriterExclusive
  <2> SUFFICES ASSUME Inv, sv \in {"suffix", "undone"}, ~ abend,
                      upset \cap {"early", "overtake", "wake"} = {}
               PROVE  ~ writer.inUse
    BY Zenon DEF WriterExclusive
  <2>1. Tree /\ Waiting
    BY Zenon DEF Inv, Exclusive, Quiet
  <2>2. op = "end" \/ writer.stopped
    BY <2>1, Zenon DEF Waiting
  <2> QED
    BY <2>1, <2>2, Zenon DEF Tree, Waiting
<1> QED
  BY <1>1, Invariance, PTL

\* A request goes back to the pool with its tree ended and neither its operator nor an
\* administrator inside a Stop of it, and its state has its types throughout: pauseWg is
\* 0 or 1 unless two threads end one pause, and stopGate never exceeds 2
\* (CompleteRequest, activeHttpRequests.Delete, Pause, Stop).
THEOREM PooledIsQuiet == Spec => []PooledQuiet
<1>1. Inv => PooledQuiet
  <2> SUFFICES ASSUME Inv
               PROVE  PooledQuiet
    OBVIOUS
  <2>1. TypeOK /\ Plans /\ Locks /\ Bare
    BY Zenon DEF Inv
  <2>2. ASSUME sv = "pooled"
        PROVE  op \in {"none", "end"} /\ th["oper"] = "idle" /\ th["admin"] = "idle"
    <3>1. op \in {"none", "end"}
      BY <2>1, <2>2, Zenon DEF Bare
    <3>2. th["oper"] = "idle"
      BY <2>1, <3>1, Zenon DEF Plans
    <3>3. th["admin"] = "idle"
      BY <2>1, <2>2, Zenon DEF Locks, Leaving
    <3> QED
      BY <3>1, <3>2, <3>3, Zenon
  <2> QED
    BY <2>1, <2>2, Zenon DEF PooledQuiet
<1> QED
  BY <1>1, Invariance, PTL

=============================================================================
