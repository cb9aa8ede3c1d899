--------------------------- MODULE SchedulerProofs ---------------------------
(***************************************************************************)
(* For any number of tasks scheduled under an id, and of deletes of it.    *)
(***************************************************************************)
EXTENDS Scheduler, TLAPS

\* What needs the entry of the id in the cache of scheduled tasks.
Active(t) ==
  \/ call[t] = "added" \/ held[t] \/ run[t] = "exec"
  \/ timer[t] # "nil" /\ run[t] = "none" /\ state[t] = "SCHEDULED"
  \/ \E d \in Deletes : del[d] = "stop" /\ target[d] = t

\* Whatever the disturbances, a timer is set after the task is in the cache, the
\* routine runs after the timer, and DeleteTask cleans up what it has marked.
Structure ==
  /\ \A t \in Tasks :
       /\ call[t] \in {"new", "lost"} => timer[t] = "nil" /\ scheduled # t
       /\ call[t] = "added" => timer[t] = "nil"
       /\ timer[t] # "fired" => run[t] = "none"
  /\ \A d \in Deletes :
       /\ del[d] \in {"stop", "clear"} => target[d] # None
       /\ del[d] \in {"new", "completed"} => target[d] = None

\* As long as no routine came late: the task that is active is the one in the
\* cache, and a task is marked by one delete at most, before it runs.
Orderly ==
  /\ \A t \in Tasks :
       /\ call[t] \in {"new", "lost"} => state[t] = "SCHEDULED"
       /\ Active(t) => scheduled = t
       /\ run[t] = "none" => state[t] \in {"SCHEDULED", "DELETING", "CANCELLED"}
       /\ run[t] = "exec" => state[t] \in {"RUNNING", "ABORTING"}
       /\ state[t] = "SCHEDULED" => run[t] = "none"
       /\ held[t] => state[t] = "DELETING"
  /\ \A d \in Deletes : target[d] # None =>
       /\ state[target[d]] \in {"DELETING", "CANCELLED"}
       /\ run[target[d]] \in {"none", "done"}
       /\ timer[target[d]] # "nil"
       /\ ~held[target[d]]
       /\ \A e \in Deletes : target[e] = target[d] => e = d

\* Without an overlap, in addition, one task at a time is in a cache or on its way
\* between them.
Exclusive ==
  /\ scheduled # None => completed = None /\ \A t \in Tasks : ~Moving(t)
  /\ \A t \in Tasks : Moving(t) => completed = None /\ \A u \in Tasks : Moving(u) => u = t

Inv ==
  /\ TypeOK /\ Structure
  /\ "late" \notin upset => Orderly
  /\ upset \cap {"overlap", "late"} = {} => Exclusive

-----------------------------------------------------------------------------
(***************************************************************************)
(* scheduleTaskHelper.                                                     *)
(***************************************************************************)

LEMMA LoseStep ==
  ASSUME Inv, NEW t \in Tasks, Lose(t)
  PROVE  Inv'
<1> USE SchedulerAssumption DEF Lose, callVars, delVars
<1>1. TypeOK'
  <2>1. upset' \subseteq Disturbances /\ ("late" \in upset' <=> "late" \in upset)
    BY Zenon DEF Inv, TypeOK, Disturbances
  <2> QED
    BY <2>1, Zenon DEF Inv, TypeOK
<1>2. Structure'
  BY DEF Inv, TypeOK, Structure
<1>3. "late" \notin upset' => Orderly'
  BY DEF Inv, TypeOK, Structure, Orderly, Active
<1>4. upset' \cap {"overlap", "late"} = {} => Exclusive'
  <2> SUFFICES ASSUME upset' \cap {"overlap", "late"} = {} PROVE Exclusive'
    OBVIOUS
  <2>1. scheduled = None /\ \A u \in Tasks \ {t} : ~Moving(u)
    OBVIOUS
  <2>2. \A u \in Tasks : Moving(u)' => u = t
    BY <2>1, Zenon DEF Inv, TypeOK, Moving
  <2> QED
    BY <2>1, <2>2, Zenon DEF Exclusive
<1> QED
  BY <1>1, <1>2, <1>3, <1>4, Zenon DEF Inv

LEMMA AddStep ==
  ASSUME Inv, NEW t \in Tasks, Add(t)
  PROVE  Inv'
<1> USE SchedulerAssumption DEF Add, callVars, delVars
<1>1. TypeOK'
  BY Zenon DEF Inv, TypeOK
<1>2. Structure'
  BY DEF Inv, TypeOK, Structure
<1>3. "late" \notin upset' => Orderly'
  BY DEF Inv, TypeOK, Structure, Orderly, Active
<1>4. upset' \cap {"overlap", "late"} = {} => Exclusive'
  BY DEF Inv, TypeOK, Structure, Orderly, Active, Exclusive, Moving
<1> QED
  BY <1>1, <1>2, <1>3, <1>4, Zenon DEF Inv

LEMMA AfterFuncStep ==
  ASSUME Inv, NEW t \in Tasks, AfterFunc(t)
  PROVE  Inv'
<1> USE SchedulerAssumption DEF AfterFunc, callVars, delVars
<1>1. TypeOK'
  BY Zenon DEF Inv, TypeOK
<1>2. Structure'
  BY Zenon DEF Inv, TypeOK, Structure
<1>3. "late" \notin upset' => Orderly'
  BY DEF Inv, TypeOK, Structure, Orderly, Active
<1>4. upset' \cap {"overlap", "late"} = {} => Exclusive'
  BY DEF Inv, TypeOK, Structure, Orderly, Active, Exclusive, Moving
<1> QED
  BY <1>1, <1>2, <1>3, <1>4, Zenon DEF Inv

-----------------------------------------------------------------------------
(***************************************************************************)
(* The routine of the timer.                                               *)
(***************************************************************************)

LEMMA FireStep ==
  ASSUME Inv, NEW t \in Tasks, Fire(t)
  PROVE  Inv'
<1> USE SchedulerAssumption DEF Fire, callVars, delVars
<1>1. TypeOK'
  BY Zenon DEF Inv, TypeOK
<1>2. Structure'
  BY Zenon DEF Inv, TypeOK, Structure
<1>3. "late" \notin upset' => Orderly'
  BY DEF Inv, TypeOK, Structure, Orderly, Active
<1>4. upset' \cap {"overlap", "late"} = {} => Exclusive'
  BY DEF Inv, TypeOK, Structure, Orderly, Active, Exclusive, Moving
<1> QED
  BY <1>1, <1>2, <1>3, <1>4, Zenon DEF Inv

LEMMA StartStep ==
  ASSUME Inv, NEW t \in Tasks, Start(t)
  PROVE  Inv'
<1> USE SchedulerAssumption DEF Start, callVars, delVars
<1>1. TypeOK'
  <2>1. UNCHANGED upset \/ upset' = upset \cup {"late"}
    OBVIOUS
  <2>2. upset' \subseteq Disturbances /\ ("late" \notin upset' => upset' = upset)
    BY <2>1, Zenon DEF Inv, TypeOK, Disturbances
  <2>3. /\ run' \in [Tasks -> {"none", "exec", "ended", "done"}]
        /\ state' \in [Tasks -> States] /\ channel' \in [Tasks -> {"nil", "open", "signal"}]
        /\ crashed' \in BOOLEAN
    BY DEF Inv, TypeOK, States, Made
  <2>4. ASSUME NEW u \in Tasks, run'[u] = "exec", stoppable[u], "late" \notin upset'
        PROVE  channel'[u] # "nil"
    BY <2>2, <2>4 DEF Inv, TypeOK, Made
  <2> QED
    BY <2>2, <2>3, <2>4, Zenon DEF Inv, TypeOK
<1>2. Structure'
  BY DEF Inv, TypeOK, Structure
<1>3. "late" \notin upset' => Orderly'
  <2> SUFFICES ASSUME "late" \notin upset' PROVE Orderly'
    OBVIOUS
  <2>1. Orderly /\ scheduled # None /\ ~held[t]
    BY Zenon DEF Inv
  <2>2. \A u \in Tasks \ {t} : run'[u] = run[u] /\ state'[u] = state[u]
    BY DEF Inv, TypeOK
  <2>3. CASE MayRun(t)
    <3>1. state[t] = "SCHEDULED" /\ state'[t] = "RUNNING" /\ run'[t] = "exec"
      BY <2>1, <2>3, Zenon DEF Inv, TypeOK, MayRun
    <3>2. \A d \in Deletes : target[d] # t
      BY <2>1, <3>1, Zenon DEF Orderly
    <3> QED
      BY <2>1, <2>2, <3>1, <3>2 DEF Inv, TypeOK, Structure, Orderly, Active
  <2>4. CASE ~MayRun(t)
    <3>1. state' = state /\ state[t] # "SCHEDULED" /\ run'[t] = "done"
      BY <2>1, <2>4, Zenon DEF Inv, TypeOK, MayRun
    <3> QED
      BY <2>1, <2>2, <3>1 DEF Inv, TypeOK, Structure, Orderly, Active
  <2> QED
    BY <2>3, <2>4, Zenon
<1>4. upset' \cap {"overlap", "late"} = {} => Exclusive'
  BY DEF Inv, TypeOK, Structure, Orderly, Active, Exclusive, Moving
<1> QED
  BY <1>1, <1>2, <1>3, <1>4, Zenon DEF Inv

LEMMA EndStep ==
  ASSUME Inv, NEW t \in Tasks, End(t)
  PROVE  Inv'
<1> USE SchedulerAssumption DEF End, callVars, delVars
<1>1. TypeOK'
  <2>1. /\ run' \in [Tasks -> {"none", "exec", "ended", "done"}]
        /\ scheduled' \in Tasks \cup {None} /\ cleared' \in [Tasks -> BOOLEAN]
    BY Zenon DEF Inv, TypeOK
  <2>2. state' \in [Tasks -> States] /\ channel' \in [Tasks -> {"nil", "open", "signal"}]
    BY DEF Inv, TypeOK, States, Outcome
  <2>3. crashed' \in BOOLEAN
    BY Zenon DEF Inv, TypeOK
  <2>4. \A u \in Tasks : run'[u] = "exec" => run[u] = "exec" /\ channel'[u] = channel[u]
    BY DEF Inv, TypeOK
  <2> QED
    BY <2>1, <2>2, <2>3, <2>4 DEF Inv, TypeOK
<1>2. Structure'
  BY DEF Inv, TypeOK, Structure
<1>3. "late" \notin upset' => Orderly'
  <2> SUFFICES ASSUME "late" \notin upset' PROVE Orderly'
    OBVIOUS
  <2>1. Orderly /\ scheduled = t /\ ~held[t]
    BY Zenon DEF Inv, TypeOK, Orderly, Active
  <2>2. scheduled' = None /\ state'[t] \in {"ABORTED", "COMPLETED"} /\ run'[t] = "ended"
    BY <2>1, Zenon DEF Inv, TypeOK, Outcome
  <2>3. \A u \in Tasks \ {t} : run'[u] = run[u] /\ state'[u] = state[u] /\ ~Active(u)
    BY <2>1 DEF Inv, TypeOK, Orderly
  <2>4. /\ \A d \in Deletes : target[d] # t
        /\ timer[t] = "fired" /\ call[t] = "returned"
    BY <2>1 DEF Inv, TypeOK, Structure, Orderly
  <2>5. \A u \in Tasks : ~Active(u)'
    BY <2>1, <2>2, <2>3, <2>4 DEF Active
  <2> QED
    BY <2>1, <2>2, <2>3, <2>4, <2>5 DEF Inv, TypeOK, Orderly
<1>4. upset' \cap {"overlap", "late"} = {} => Exclusive'
  BY DEF Inv, TypeOK, Structure, Orderly, Active, Exclusive, Moving
<1> QED
  BY <1>1, <1>2, <1>3, <1>4, Zenon DEF Inv

LEMMA PublishStep ==
  ASSUME Inv, NEW t \in Tasks, Publish(t)
  PROVE  Inv'
<1> USE SchedulerAssumption DEF Publish, callVars, delVars
<1>1. TypeOK'
  BY Zenon DEF Inv, TypeOK
<1>2. Structure'
  BY Zenon DEF Inv, TypeOK, Structure
<1>3. "late" \notin upset' => Orderly'
  BY DEF Inv, TypeOK, Structure, Orderly, Active
<1>4. upset' \cap {"overlap", "late"} = {} => Exclusive'
  BY DEF Inv, TypeOK, Structure, Orderly, Active, Exclusive, Moving
<1> QED
  BY <1>1, <1>2, <1>3, <1>4, Zenon DEF Inv

-----------------------------------------------------------------------------
(***************************************************************************)
(* DeleteTask.                                                             *)
(***************************************************************************)

LEMMA MarkStep ==
  ASSUME Inv, NEW d \in Deletes, Mark(d)
  PROVE  Inv'
<1> USE SchedulerAssumption DEF Mark, callVars, delVars
<1>1. TypeOK'
  <2>1. /\ state' \in [Tasks -> States] /\ timer' \in [Tasks -> {"nil", "set", "stopped", "fired"}]
        /\ channel' \in [Tasks -> {"nil", "open", "signal"}]
    BY DEF Inv, TypeOK, States, Aborting
  <2>2. /\ target' \in [Deletes -> Tasks \cup {None}]
        /\ del' \in [Deletes -> {"new", "completed", "stop", "clear", "returned"}]
    BY DEF Inv, TypeOK
  <2>5. held' \in [Tasks -> BOOLEAN]
    <3>1. held' = held \/ held' = [held EXCEPT ![scheduled] = TRUE]
      OBVIOUS
    <3> QED
      BY <3>1, Zenon DEF Inv, TypeOK
  <2>3. upset' \subseteq Disturbances /\ ("late" \in upset' <=> "late" \in upset)
    BY Zenon DEF Inv, TypeOK, Disturbances
  <2>4. \A u \in Tasks : channel'[u] = "nil" => channel[u] = "nil"
    BY DEF Inv, TypeOK
  <2> QED
    BY <2>1, <2>2, <2>3, <2>4, <2>5 DEF Inv, TypeOK
<1>2. Structure'
  BY DEF Inv, TypeOK, Structure
<1>3. "late" \notin upset' => Orderly'
  <2> SUFFICES ASSUME "late" \notin upset' PROVE Orderly'
    OBVIOUS
  <2>1. Orderly /\ scheduled \in Tasks
    BY Zenon DEF Inv, TypeOK
  <2>2. CASE state[scheduled] = "SCHEDULED" /\ timer[scheduled] # "nil"
    <3>1. \A e \in Deletes : target[e] # scheduled
      BY <2>1, <2>2, Zenon DEF Orderly
    <3>2. run[scheduled] = "none" /\ ~held[scheduled]
      BY <2>1, <2>2, Zenon DEF Inv, TypeOK, Structure, Orderly
    <3>3. /\ \A u \in Tasks : state'[u] = IF u = scheduled THEN "DELETING" ELSE state[u]
          /\ \A u \in Tasks : timer'[u] = "nil" <=> timer[u] = "nil"
          /\ \A e \in Deletes : target'[e] = IF e = d THEN scheduled ELSE target[e]
          /\ \A e \in Deletes : del'[e] = IF e = d THEN "stop" ELSE del[e]
          /\ UNCHANGED <<scheduled, call, run, held>>
      BY <2>1, <2>2 DEF Inv, TypeOK
    <3>4. \A u \in Tasks : Active(u)' => scheduled = u
      BY <2>1, <3>3 DEF Orderly, Active
    <3>5. ASSUME NEW e \in Deletes, target'[e] # None
          PROVE  /\ state'[target'[e]] \in {"DELETING", "CANCELLED"}
                 /\ run'[target'[e]] \in {"none", "done"}
                 /\ timer'[target'[e]] # "nil" /\ ~held'[target'[e]]
                 /\ \A g \in Deletes : target'[g] = target'[e] => g = e
      <4>1. target'[e] \in Tasks
        BY <3>5, <2>1, <3>3 DEF Inv, TypeOK
      <4> QED
        BY <3>5, <4>1, <2>1, <2>2, <3>1, <3>2, <3>3 DEF Orderly
    <3>6. ASSUME NEW u \in Tasks
          PROVE  /\ call'[u] \in {"new", "lost"} => state'[u] = "SCHEDULED"
                 /\ run'[u] = "none" => state'[u] \in {"SCHEDULED", "DELETING", "CANCELLED"}
                 /\ run'[u] = "exec" => state'[u] \in {"RUNNING", "ABORTING"}
                 /\ state'[u] = "SCHEDULED" => run'[u] = "none"
                 /\ held'[u] => state'[u] = "DELETING"
      BY <2>1, <2>2, <3>2, <3>3 DEF Inv, Structure, Orderly
    <3> QED
      BY <3>3, <3>4, <3>5, <3>6, Zenon DEF Orderly
  <2>3. CASE state[scheduled] = "SCHEDULED" /\ timer[scheduled] = "nil"
    <3>1. \A e \in Deletes : target[e] # scheduled
      BY <2>1, <2>3, Zenon DEF Orderly
    <3> QED
      BY <2>1, <2>3, <3>1 DEF Inv, TypeOK, Structure, Orderly, Active
  <2>4. CASE state[scheduled] = "RUNNING" /\ stoppable[scheduled]
    BY <2>1, <2>4 DEF Inv, TypeOK, Structure, Orderly, Active, Aborting
  <2>5. CASE state[scheduled] \notin {"SCHEDULED", "RUNNING"} \/ (state[scheduled] = "RUNNING" /\ ~stoppable[scheduled])
    BY <2>1, <2>5 DEF Inv, TypeOK, Structure, Orderly, Active
  <2> QED
    BY <2>2, <2>3, <2>4, <2>5, Zenon
<1>4. upset' \cap {"overlap", "late"} = {} => Exclusive'
  BY DEF Inv, TypeOK, Structure, Orderly, Active, Exclusive, Moving
<1> QED
  BY <1>1, <1>2, <1>3, <1>4, Zenon DEF Inv

LEMMA NotScheduledStep ==
  ASSUME Inv, NEW d \in Deletes, NotScheduled(d)
  PROVE  Inv'
<1> USE SchedulerAssumption DEF NotScheduled, callVars, delVars
<1>1. TypeOK'
  BY Zenon DEF Inv, TypeOK
<1>2. Structure'
  BY Zenon DEF Inv, TypeOK, Structure
<1>3. "late" \notin upset' => Orderly'
  BY DEF Inv, TypeOK, Structure, Orderly, Active
<1>4. upset' \cap {"overlap", "late"} = {} => Exclusive'
  BY DEF Inv, TypeOK, Structure, Orderly, Active, Exclusive, Moving
<1> QED
  BY <1>1, <1>2, <1>3, <1>4, Zenon DEF Inv

LEMMA DeleteCompletedStep ==
  ASSUME Inv, NEW d \in Deletes, DeleteCompleted(d)
  PROVE  Inv'
<1> USE SchedulerAssumption DEF DeleteCompleted, callVars, delVars
<1>1. TypeOK'
  BY Zenon DEF Inv, TypeOK
<1>2. Structure'
  BY Zenon DEF Inv, TypeOK, Structure
<1>3. "late" \notin upset' => Orderly'
  BY DEF Inv, TypeOK, Structure, Orderly, Active
<1>4. upset' \cap {"overlap", "late"} = {} => Exclusive'
  BY DEF Inv, TypeOK, Structure, Orderly, Active, Exclusive, Moving
<1> QED
  BY <1>1, <1>2, <1>3, <1>4, Zenon DEF Inv

LEMMA StopAndDeleteStep ==
  ASSUME Inv, NEW d \in Deletes, StopAndDelete(d)
  PROVE  Inv'
<1> USE SchedulerAssumption DEF StopAndDelete, callVars, delVars
<1>1. TypeOK'
  BY Zenon DEF Inv, TypeOK
<1>2. Structure'
  BY DEF Inv, TypeOK, Structure
<1>3. "late" \notin upset' => Orderly'
  BY DEF Inv, TypeOK, Structure, Orderly, Active
<1>4. upset' \cap {"overlap", "late"} = {} => Exclusive'
  BY DEF Inv, TypeOK, Structure, Orderly, Active, Exclusive, Moving
<1> QED
  BY <1>1, <1>2, <1>3, <1>4, Zenon DEF Inv

LEMMA ClearStep ==
  ASSUME Inv, NEW d \in Deletes, Clear(d)
  PROVE  Inv'
<1> USE SchedulerAssumption DEF Clear, callVars, delVars
<1>1. TypeOK'
  <2>1. target[d] \in Tasks
    BY DEF Inv, TypeOK, Structure
  <2>2. /\ state' \in [Tasks -> States] /\ completed' \in Tasks \cup {None}
        /\ cleared' \in [Tasks -> BOOLEAN]
    BY <2>1, Zenon DEF Inv, TypeOK, States
  <2> QED
    BY <2>1, <2>2 DEF Inv, TypeOK
<1>2. Structure'
  BY DEF Inv, TypeOK, Structure
<1>3. "late" \notin upset' => Orderly'
  BY DEF Inv, TypeOK, Structure, Orderly, Active
<1>4. upset' \cap {"overlap", "late"} = {} => Exclusive'
  BY DEF Inv, TypeOK, Structure, Orderly, Active, Exclusive, Moving
<1> QED
  BY <1>1, <1>2, <1>3, <1>4, Zenon DEF Inv

-----------------------------------------------------------------------------
(***************************************************************************)
(* The theorems.                                                           *)
(***************************************************************************)

LEMMA InvInit == Init => Inv
<1> SUFFICES ASSUME Init PROVE Inv
  OBVIOUS
<1> USE SchedulerAssumption DEF Init
<1>1. TypeOK
  BY Zenon DEF TypeOK, States, Disturbances
<1>2. Structure /\ Orderly
  BY Zenon DEF Structure, Orderly, Active
<1>3. Exclusive
  BY Zenon DEF Exclusive, Moving
<1> QED
  BY <1>1, <1>2, <1>3, Zenon DEF Inv

LEMMA InvStep == Inv /\ [Next]_vars => Inv'
<1> SUFFICES ASSUME Inv, [Next]_vars PROVE Inv'
  OBVIOUS
<1>1. CASE UNCHANGED vars
  BY <1>1 DEF vars, callVars, delVars, Inv, TypeOK, Structure, Orderly, Active, Exclusive, Moving
<1>2. ASSUME NEW t \in Tasks, Call(t) \/ Routine(t) PROVE Inv'
  BY <1>2, LoseStep, AddStep, AfterFuncStep, FireStep, StartStep, EndStep, PublishStep, Zenon DEF Call, Routine
<1>3. ASSUME NEW d \in Deletes, Delete(d) \/ Cleanup(d) PROVE Inv'
  BY <1>3, MarkStep, NotScheduledStep, DeleteCompletedStep, StopAndDeleteStep, ClearStep
    , Zenon DEF Delete, Cleanup
<1> QED
  BY <1>1, <1>2, <1>3, Zenon DEF Next

LEMMA Invariance == Spec => []Inv
BY InvInit, InvStep, PTL DEF Spec

\* A task that DeleteTask has marked before it ran never runs, however many tasks
\* and deletes there are: the state check in the callback of Get stops a routine
\* whose timer had already fired.
THEOREM DeletedTasksStay == Spec => []DeletedNeverRuns
<1>1. Inv => DeletedNeverRuns
  BY Zenon DEF Inv, Orderly, DeletedNeverRuns
<1> QED
  BY <1>1, Invariance, PTL

\* The id is in one of the two caches at most, unless ScheduleTask comes while the
\* previous task is between them or a routine comes after its task was deleted.
THEOREM OneCache == Spec => []KeyUnique
<1>1. Inv => KeyUnique
  BY Zenon DEF Inv, Exclusive, KeyUnique
<1> QED
  BY <1>1, Invariance, PTL

\* A task goes through its states in one direction only, whichever of the routine
\* and the deletes gets to it first.
THEOREM StatesNeverGoBack == Spec => StatesAdvance
<1> DEFINE Legal(a, b) ==
      <<a, b>> \in {<<"SCHEDULED", "RUNNING">>, <<"SCHEDULED", "DELETING">>, <<"DELETING", "CANCELLED">>,
                    <<"RUNNING", "ABORTING">>, <<"RUNNING", "COMPLETED">>, <<"ABORTING", "ABORTED">>}
<1>1. ASSUME Inv, [Next]_vars, NEW t \in Tasks, state'[t] # state[t], "late" \notin upset'
      PROVE  Legal(state[t], state'[t])
  <2>1. TypeOK /\ Structure /\ upset \subseteq upset'
    BY <1>1, Zenon DEF Inv, vars, Next, Call, Routine, Delete, Cleanup, Lose, Add, AfterFunc, Fire, Start, End,
           Publish, Mark, NotScheduled, DeleteCompleted, StopAndDelete, Clear
  <2>2. Orderly
    BY <1>1, <2>1, Zenon DEF Inv
  <2>3. ~UNCHANGED state
    BY <1>1, Zenon
  <2>4. CASE Start(t)
    BY <1>1, <2>1, <2>4, Zenon DEF Start, MayRun, TypeOK
  <2>5. CASE End(t)
    BY <1>1, <2>1, <2>2, <2>5 DEF End, Outcome, TypeOK, Orderly
  <2>6. ASSUME NEW d \in Deletes, Mark(d) PROVE Legal(state[t], state'[t])
    BY <1>1, <2>1, <2>6 DEF Mark, Aborting, TypeOK
  <2>7. ASSUME NEW d \in Deletes, Clear(d) PROVE Legal(state[t], state'[t])
    <3>1. target[d] \in Tasks /\ state[target[d]] \in {"DELETING", "CANCELLED"}
      BY <2>1, <2>2, <2>7 DEF Clear, TypeOK, Structure, Orderly
    <3> QED
      BY <1>1, <2>1, <2>7, <3>1 DEF Clear, TypeOK
  <2>8. ASSUME NEW u \in Tasks, Start(u) \/ End(u) PROVE u = t
    BY <1>1, <2>1, <2>8, Zenon DEF Start, End, TypeOK
  <2> QED
    BY <1>1, <2>3, <2>4, <2>5, <2>6, <2>7, <2>8, Zenon DEF vars, Next, Call, Routine, Delete, Cleanup, Lose, Add,
       AfterFunc, Fire, Publish, NotScheduled, DeleteCompleted, StopAndDelete
<1>2. Inv /\ [Next]_vars =>
        [\A t \in Tasks : state'[t] # state[t] /\ "late" \notin upset' => Legal(state[t], state'[t])]_vars
  BY <1>1, Zenon
<1> QED
  BY <1>2, Invariance, PTL DEF Spec, StatesAdvance

==============================================================================
