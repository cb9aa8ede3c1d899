------------------------------ MODULE Scheduler ------------------------------
(***************************************************************************)
(* The task scheduler (scheduler/scheduler.go) seen through one task id:   *)
(* the tasks scheduled under it one after the other, the routine that the  *)
(* timer of each starts, and the requests that delete it.  An operation on *)
(* one of the two caches runs under the lock of the id's bucket, its       *)
(* callback included, and is one step.                                     *)
(***************************************************************************)
EXTENDS Naturals

CONSTANTS
  Tasks,      \* TaskEntry objects of the id, one per call of ScheduleTask
  Deletes,    \* calls of DeleteTask
  None        \* no task

ASSUME SchedulerAssumption == None \notin Tasks

VARIABLES
  scheduled, completed,  \* the entry of the id in each cache
  state,                 \* TaskEntry.State
  stoppable,             \* TaskEntry.isStoppable
  call,                  \* where scheduleTaskHelper is
  timer,                 \* TaskEntry.timer
  run,                   \* where the routine started by the timer is
  channel,               \* TaskEntry.stopChannel: nil, open, or with a signal
  cleared,               \* the functions of the task are set to nil
  del, target,           \* where DeleteTask is, and the task it has marked
  held,                  \* the mutex of the task is never unlocked
  crashed,               \* a panic has ended the process
  upset                  \* the disturbances below that have occurred

callVars == <<call, stoppable>>
delVars == <<del, target>>
vars == <<scheduled, completed, state, callVars, timer, run, channel, cleared, delVars, held, crashed, upset>>

States == {"SCHEDULED", "DELETING", "ABORTING", "RUNNING", "COMPLETED", "CANCELLED", "ABORTED"}

\* What the code has no defence against: DeleteTask between the cache and the timer
\* ("early"); a routine that finds its deleted task gone from the cache ("late");
\* ScheduleTask while another task of the id is on its way between the caches
\* ("overlap").
Disturbances == {"early", "late", "overlap"}

TypeOK ==
  /\ scheduled \in Tasks \cup {None} /\ completed \in Tasks \cup {None}
  /\ state \in [Tasks -> States]
  /\ call \in [Tasks -> {"new", "lost", "added", "returned"}]
  /\ timer \in [Tasks -> {"nil", "set", "stopped", "fired"}]
  /\ run \in [Tasks -> {"none", "exec", "ended", "done"}]
  /\ channel \in [Tasks -> {"nil", "open", "signal"}]
  /\ \A f \in {stoppable, cleared, held} : f \in [Tasks -> BOOLEAN]
  /\ del \in [Deletes -> {"new", "completed", "stop", "clear", "returned"}]
  /\ target \in [Deletes -> Tasks \cup {None}]
  /\ crashed \in BOOLEAN
  /\ upset \subseteq Disturbances
  /\ \A t \in Tasks : run[t] = "exec" /\ stoppable[t] /\ "late" \notin upset => channel[t] # "nil"

Init ==
  /\ scheduled = None /\ completed = None
  /\ state = [t \in Tasks |-> "SCHEDULED"]
  /\ stoppable \in [Tasks -> BOOLEAN]
  /\ call = [t \in Tasks |-> "new"]
  /\ timer = [t \in Tasks |-> "nil"]
  /\ run = [t \in Tasks |-> "none"]
  /\ channel = [t \in Tasks |-> "nil"]
  /\ cleared = [t \in Tasks |-> FALSE]
  /\ del = [d \in Deletes |-> "new"] /\ target = [d \in Deletes |-> None]
  /\ held = [t \in Tasks |-> FALSE]
  /\ crashed = FALSE
  /\ upset = {}

\* A routine that waits for a mutex that is never unlocked holds the read lock of
\* the bucket: nothing is added to the caches or deleted from them any more.
Writable == ~crashed /\ \A t \in Tasks : ~(held[t] /\ timer[t] = "fired" /\ run[t] = "none")

\* Tasks of the id between the two caches, or between ScheduleTask's two.
Moving(t) == call[t] = "lost" \/ run[t] = "ended" \/ \E d \in Deletes : del[d] = "clear" /\ target[d] = t

-----------------------------------------------------------------------------
(***************************************************************************)
(* scheduleTaskHelper.                                                     *)
(***************************************************************************)

\* A call that keeps the old completed run.
BugLose(t) ==
  /\ Writable /\ call[t] = "new"
  /\ call' = [call EXCEPT ![t] = "lost"]
  /\ upset' = IF scheduled # None \/ \E u \in Tasks \ {t} : Moving(u) THEN upset \cup {"overlap"} ELSE upset
  /\ UNCHANGED <<scheduled, completed, state, stoppable, timer, run, channel, cleared, delVars, held, crashed>>

\* An old completed run is dropped ...
Lose(t) ==
  /\ Writable /\ call[t] = "new"
  /\ completed' = None
  /\ call' = [call EXCEPT ![t] = "lost"]
  /\ upset' = IF scheduled # None \/ \E u \in Tasks \ {t} : Moving(u) THEN upset \cup {"overlap"} ELSE upset
  /\ UNCHANGED <<scheduled, state, stoppable, timer, run, channel, cleared, delVars, held, crashed>>

\* ... the task is added to the cache, or refused as a duplicate ...
Add(t) ==
  /\ Writable /\ call[t] = "lost"
  /\ \/ /\ scheduled = None /\ scheduled' = t
        /\ call' = [call EXCEPT ![t] = "added"]
     \/ /\ scheduled # None /\ call' = [call EXCEPT ![t] = "returned"]
        /\ UNCHANGED scheduled
  /\ UNCHANGED <<completed, state, stoppable, timer, run, channel, cleared, delVars, held, crashed, upset>>

\* ... and its timer is set.
AfterFunc(t) ==
  /\ ~crashed /\ call[t] = "added"
  /\ timer' = [timer EXCEPT ![t] = "set"]
  /\ call' = [call EXCEPT ![t] = "returned"]
  /\ UNCHANGED <<scheduled, completed, state, stoppable, run, channel, cleared, delVars, held, crashed, upset>>

-----------------------------------------------------------------------------
(***************************************************************************)
(* The routine of the timer.                                               *)
(***************************************************************************)

Fire(t) ==
  /\ ~crashed /\ timer[t] = "set"
  /\ timer' = [timer EXCEPT ![t] = "fired"]
  /\ UNCHANGED <<scheduled, completed, state, callVars, run, channel, cleared, delVars, held, crashed, upset>>

\* A routine that does not look at the state.
BugMayRun(t) == TRUE

\* The callback of Get lets the task run.
MayRun(t) == state[t] = "SCHEDULED"

\* The channel made for a task that can be stopped.
Made(t) == IF stoppable[t] THEN "open" ELSE "nil"

\* The routine starts: with an entry of the id in the cache the state decides, and
\* without one it goes on, to a nil function once DeleteTask has cleared it.
Start(t) ==
  /\ ~crashed /\ timer[t] = "fired" /\ run[t] = "none"
  /\ \/ /\ scheduled # None /\ ~held[t] /\ MayRun(t)
        /\ state' = [state EXCEPT ![t] = "RUNNING"]
        /\ channel' = [channel EXCEPT ![t] = Made(t)]
        /\ run' = [run EXCEPT ![t] = "exec"]
        /\ UNCHANGED <<crashed, upset>>
     \/ /\ scheduled # None /\ ~held[t] /\ ~MayRun(t)
        /\ run' = [run EXCEPT ![t] = "done"]
        /\ UNCHANGED <<state, channel, crashed, upset>>
     \/ /\ scheduled = None
        /\ run' = [run EXCEPT ![t] = "exec"]
        /\ crashed' = cleared[t]
        /\ upset' = upset \cup {"late"}
        /\ UNCHANGED <<state, channel>>
  /\ UNCHANGED <<scheduled, completed, callVars, timer, cleared, delVars, held>>

\* An end that takes every task for completed.
BugOutcome(t) == "COMPLETED"

\* The state of a task that has ended.
Outcome(t) == IF state[t] = "ABORTING" THEN "ABORTED" ELSE "COMPLETED"

\* The task's function returns, and the entry of the id leaves the cache.  Closing a
\* channel that was never made is a panic.
End(t) ==
  /\ Writable /\ run[t] = "exec"
  /\ run' = [run EXCEPT ![t] = "ended"]
  /\ \/ /\ scheduled # None /\ ~held[t]
        /\ scheduled' = None
        /\ state' = [state EXCEPT ![t] = Outcome(t)]
        /\ crashed' = (stoppable[t] /\ channel[t] = "nil")
        /\ channel' = [channel EXCEPT ![t] = "nil"]
        /\ cleared' = [cleared EXCEPT ![t] = TRUE]
     \/ /\ scheduled = None
        /\ UNCHANGED <<scheduled, state, crashed, channel, cleared>>
  /\ UNCHANGED <<completed, callVars, timer, delVars, held, upset>>

\* The run is published as completed.
Publish(t) ==
  /\ Writable /\ run[t] = "ended"
  /\ completed' = t
  /\ run' = [run EXCEPT ![t] = "done"]
  /\ UNCHANGED <<scheduled, state, callVars, timer, channel, cleared, delVars, held, crashed, upset>>

-----------------------------------------------------------------------------
(***************************************************************************)
(* DeleteTask.                                                             *)
(***************************************************************************)

\* The state of a running task that is asked to stop.
Aborting(t) == "ABORTING"

\* Under the task's mutex DeleteTask marks the task as deleting and stops its timer,
\* or signals a running task that can be stopped, or gives up.  Without a timer it
\* panics and the mutex stays locked.
Mark(d) ==
  /\ ~crashed /\ del[d] = "new" /\ scheduled # None /\ ~held[scheduled]
  /\ LET t == scheduled IN
     \/ /\ state[t] = "SCHEDULED" /\ timer[t] # "nil"
        /\ state' = [state EXCEPT ![t] = "DELETING"]
        /\ timer' = [timer EXCEPT ![t] = IF @ = "set" THEN "stopped" ELSE @]
        /\ target' = [target EXCEPT ![d] = t]
        /\ del' = [del EXCEPT ![d] = "stop"]
        /\ UNCHANGED <<channel, held, upset>>
     \/ /\ state[t] = "SCHEDULED" /\ timer[t] = "nil"
        /\ state' = [state EXCEPT ![t] = "DELETING"]
        /\ held' = [held EXCEPT ![t] = TRUE]
        /\ del' = [del EXCEPT ![d] = "returned"]
        /\ upset' = upset \cup {"early"}
        /\ UNCHANGED <<timer, channel, target>>
     \/ /\ state[t] = "RUNNING" /\ stoppable[t]
        /\ state' = [state EXCEPT ![t] = Aborting(t)]
        /\ channel' = [channel EXCEPT ![t] = "signal"]
        /\ del' = [del EXCEPT ![d] = "returned"]
        /\ UNCHANGED <<timer, target, held, upset>>
     \/ /\ state[t] \notin {"SCHEDULED", "RUNNING"} \/ (state[t] = "RUNNING" /\ ~stoppable[t])
        /\ del' = [del EXCEPT ![d] = "returned"]
        /\ UNCHANGED <<state, timer, channel, target, held, upset>>
  /\ UNCHANGED <<scheduled, completed, callVars, run, cleared, crashed>>

\* The id is not in the cache of scheduled tasks ...
NotScheduled(d) ==
  /\ ~crashed /\ del[d] = "new" /\ scheduled = None
  /\ del' = [del EXCEPT ![d] = "completed"]
  /\ UNCHANGED <<scheduled, completed, state, callVars, timer, run, channel, cleared, target, held, crashed, upset>>

\* ... a completed run is deleted, or the id is not found.
DeleteCompleted(d) ==
  /\ Writable /\ del[d] = "completed"
  /\ completed' = None
  /\ del' = [del EXCEPT ![d] = "returned"]
  /\ UNCHANGED <<scheduled, state, callVars, timer, run, channel, cleared, target, held, crashed, upset>>

\* A cleanup that leaves the id in the cache.
BugStopAndDelete(d) ==
  /\ Writable /\ del[d] = "stop"
  /\ del' = [del EXCEPT ![d] = "clear"]
  /\ UNCHANGED <<scheduled, completed, state, callVars, timer, run, channel, cleared, target, held, crashed, upset>>

\* The Stop function of the marked task returns, and the id leaves the cache ...
StopAndDelete(d) ==
  /\ Writable /\ del[d] = "stop"
  /\ scheduled' = None
  /\ del' = [del EXCEPT ![d] = "clear"]
  /\ UNCHANGED <<completed, state, callVars, timer, run, channel, cleared, target, held, crashed, upset>>

\* ... then the task is cleared, and published as cancelled if Stop produced
\* anything.
Clear(d) ==
  /\ Writable /\ del[d] = "clear"
  /\ cleared' = [cleared EXCEPT ![target[d]] = TRUE]
  /\ \/ UNCHANGED <<state, completed>>
     \/ /\ state' = [state EXCEPT ![target[d]] = "CANCELLED"]
        /\ completed' = target[d]
  /\ del' = [del EXCEPT ![d] = "returned"]
  /\ UNCHANGED <<scheduled, callVars, timer, run, channel, target, held, crashed, upset>>

-----------------------------------------------------------------------------
Call(t) == Lose(t) \/ Add(t) \/ AfterFunc(t)
Routine(t) == Fire(t) \/ Start(t) \/ End(t) \/ Publish(t)
Delete(d) == Mark(d) \/ NotScheduled(d)
Cleanup(d) == DeleteCompleted(d) \/ StopAndDelete(d) \/ Clear(d)

Next ==
  \/ \E t \in Tasks : Call(t) \/ Routine(t)
  \/ \E d \in Deletes : Delete(d) \/ Cleanup(d)

Spec == Init /\ [][Next]_vars

\* A call that has begun goes on, a timer fires, and the functions of a task return.
FairSpec ==
  /\ Spec
  /\ \A t \in Tasks : WF_vars(Routine(t)) /\ WF_vars(Add(t) \/ AfterFunc(t))
  /\ \A d \in Deletes : WF_vars(Cleanup(d))

-----------------------------------------------------------------------------
(***************************************************************************)
(* Properties.                                                             *)
(***************************************************************************)

\* A task that DeleteTask has marked before it ran never runs, even if its timer had
\* fired (the state check under Get), unless the routine comes after the entry has
\* left the cache.
DeletedNeverRuns ==
  \A d \in Deletes : target[d] # None => run[target[d]] \in {"none", "done"} \/ "late" \in upset

\* A task that was told to stop while running ends as ABORTED, and no task goes back
\* from an end.
StatesAdvance ==
  [][\A t \in Tasks :
       state'[t] # state[t] /\ "late" \notin upset' =>
         <<state[t], state'[t]>> \in
           {<<"SCHEDULED", "RUNNING">>, <<"SCHEDULED", "DELETING">>, <<"DELETING", "CANCELLED">>,
            <<"RUNNING", "ABORTING">>, <<"RUNNING", "COMPLETED">>, <<"ABORTING", "ABORTED">>}]_vars

\* The id is in one cache at most, so that tasks are counted and named once
\* (CountTasks, NameTasks), unless ScheduleTask overlaps with the end of another run;
\* and the state has its types.
KeyUnique ==
  /\ TypeOK
  /\ scheduled # None /\ completed # None => upset \cap {"overlap", "late"} # {}

\* Every task leaves the cache of scheduled tasks, so that its id can be used again:
\* it runs, or it is deleted.
IdFreed == []<>(scheduled = None \/ crashed \/ "early" \in upset)
=============================================================================
