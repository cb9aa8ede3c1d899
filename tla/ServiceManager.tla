--------------------------- MODULE ServiceManager ---------------------------
(***************************************************************************)
(* The topology service manager of the master node                         *)
(* (server/control/couchbase/service_manager.go) and the shutdown of the   *)
(* nodes it ejects.  ns_server, which is outside the repository, prepares  *)
(* a change, starts it, polls the task list until the task is gone, and    *)
(* may cancel the task; it does one change at a time.                      *)
(* StartTopologyChange() forks a goroutine for each ejected node, which    *)
(* asks the node to shut down, watches it, and counts itself completed.    *)
(* These goroutines read m.eject without the lock, each time they need the *)
(* name of their node.  A step is a critical section of the manager's      *)
(* mutex, a remote call, or a read without the mutex.                      *)
(***************************************************************************)
EXTENDS Integers, FiniteSets, SequencesExt, ServerShutdown

CONSTANTS Nodes,       \* node IDs, which are ordered
          Master,      \* the node this manager runs on
          MaxChanges,  \* bound on the topology changes
          MaxStarted,  \* bound on the goroutines forked for them
          MaxFaults    \* bound on the remote calls that fail

ASSUME NodesAssumption   == Nodes \subseteq Nat /\ IsFiniteSet(Nodes) /\ Master \in Nodes
ASSUME BoundsAssumption  == {MaxChanges, MaxStarted, MaxFaults} \subseteq Nat

NoChange == 0                      \* the empty changeID
Changes  == 1 .. MaxChanges
Indexes  == 1 .. MaxStarted
Shuts    == Changes \X Indexes     \* the goroutine for m.eject[i] of a change

VARIABLES
  changeID, servers, eject, started, completed,   \* state of the manager
  shut, target,        \* where each goroutine is, and the node it resolved
  cancelling, restored,   \* CancelTask(): entries of eject still to be called, new server list
  node,                \* each server
  ns, change,          \* what ns_server is at, and its latest change
  poll,                \* its call of GetTaskList()
  fresh,               \* it has the latest revision
  faults,              \* how many remote calls have failed
  panicked,            \* a goroutine read past the end of m.eject
  asked,               \* history: nodes to be shut down by a change that was started
  upset                \* history: nodes that a late step asked to shut down, or marked down

mgr  == <<changeID, servers, eject, started, completed>>
call == <<cancelling, restored>>
nsv  == <<ns, change>>
polling == <<poll, fresh>>
vars == <<mgr, shut, target, call, node, nsv, polling, faults, panicked, asked, upset>>

\* The state of a call of GetTaskList().
Idle    == [is |-> "idle"]
Waiting == [is |-> "waiting"]
Snapshot(id, begun, done) ==
  [is |-> "state", changeID |-> id, started |-> begun, completed |-> done]

Ascending(S) == SetToSortSeq(S, <)

Init ==
  /\ changeID = NoChange /\ servers = <<>> /\ eject = <<>>
  /\ started = 0 /\ completed = 0
  /\ shut = [s \in Shuts |-> "none"] /\ target = [s \in Shuts |-> Master]
  /\ cancelling = {} /\ restored = <<>>
  /\ node = [n \in Nodes |-> NewServer]
  /\ ns = "idle" /\ change = 0 /\ poll = Idle /\ fresh = FALSE
  /\ faults = 0 /\ panicked = FALSE /\ asked = {} /\ upset = {}

----------------------------------------------------------------------------
(* The lock and the revision.  CancelTask() holds the lock from its first  *)
(* remote call to its update.                                              *)

Locked   == ns = "cancelling"
Unlocked == ~panicked /\ ~Locked

\* Mutant: whoever waits is left to wait.
BugNewRev == fresh' = FALSE /\ UNCHANGED poll

\* updateStateLOCKED(): a new revision, sent to whoever waits for one.
NewRev ==
  /\ fresh' = (poll = Waiting)
  /\ poll' = IF poll = Waiting THEN Snapshot(changeID', started', completed') ELSE poll

----------------------------------------------------------------------------
(* ns_server's calls.  m.enabled holds from the first prepared change on,  *)
(* at the latest.                                                          *)

\* Once a change has been prepared, this only makes a new revision.
setInitialNodeList ==
  /\ Unlocked /\ servers = <<>>
  /\ servers' = Ascending(Nodes)
  /\ UNCHANGED <<changeID, eject, started, completed>> /\ NewRev
  /\ UNCHANGED <<shut, target, call, node, nsv, faults, panicked, asked, upset>>

\* The nodes that were known, or that the change names, and are not kept.
EjectList(keep) ==
  LET known == SelectSeq(servers, LAMBDA n : n \notin keep)
  IN  known \o Ascending((Nodes \ keep) \ ToSet(known))

PrepareTopologyChange(keep) ==
  /\ Unlocked /\ ns = "idle" /\ poll = Idle /\ change < MaxChanges
  /\ Master \in keep /\ started + Len(EjectList(keep)) <= MaxStarted
  /\ servers' = Ascending(keep) /\ eject' = EjectList(keep)
  /\ UNCHANGED <<changeID, started, completed>> /\ NewRev
  /\ ns' = "prepared" /\ change' = change + 1
  /\ UNCHANGED <<shut, target, call, node, faults, panicked, asked, upset>>

\* Each started++ is a revision of its own; ns_server does not poll in the meantime.
StartRebalance ==
  /\ Unlocked /\ ns = "prepared"
  /\ changeID' = IF eject = <<>> THEN changeID ELSE change
  /\ started' = started + Len(eject)
  /\ shut' = [s \in Shuts |-> IF s[1] = change /\ s[2] <= Len(eject) THEN "start" ELSE shut[s]]
  /\ ns' = "running" /\ asked' = asked \cup ToSet(eject) /\ fresh' = FALSE
  /\ UNCHANGED <<servers, eject, completed, target, call, node, change, poll,
                 faults, panicked, upset>>

StartFailover ==
  /\ Unlocked /\ ns = "prepared"
  /\ changeID' = NoChange /\ eject' = <<>>
  /\ ns' = "idle" /\ fresh' = FALSE
  /\ UNCHANGED <<servers, started, completed, shut, target, call, node, change,
                 poll, faults, panicked, asked, upset>>

\* GetTaskList(): wait() returns at once unless the caller has the latest revision.
GetTaskList ==
  /\ Unlocked /\ ns = "running" /\ poll = Idle
  /\ poll' = IF fresh THEN Waiting ELSE Snapshot(changeID, started, completed)
  /\ fresh' = TRUE
  /\ UNCHANGED <<mgr, shut, target, call, node, nsv, faults, panicked, asked, upset>>

\* The rest of GetTaskList() works on the state that wait() returned: a task with
\* nothing left to do is removed, any other is in the list.  ns_server is content
\* with a list that has no task.
TaskListed ==
  LET over == poll.changeID = NoChange \/ poll.completed >= poll.started IN
  /\ ~panicked /\ poll.is = "state"
  /\ IF over /\ poll.changeID # NoChange
       THEN /\ ~Locked
            /\ changeID' = NoChange /\ eject' = <<>> /\ started' = 0 /\ completed' = 0
            /\ fresh' = FALSE
       ELSE UNCHANGED <<changeID, eject, started, completed, fresh>>
  /\ poll' = Idle
  /\ ns' = IF over /\ ns = "running" THEN "idle" ELSE ns
  /\ UNCHANGED <<servers, shut, target, call, node, change, faults, panicked, asked, upset>>

\* ns_server gives up a call that waits, and keeps the revision it has.  A
\* cancellation that comes together with a new state is one that came before it.
WaitCancelled ==
  /\ Unlocked /\ poll = Waiting
  /\ poll' = Idle
  /\ UNCHANGED <<mgr, shut, target, call, node, nsv, fresh, faults, panicked, asked, upset>>

----------------------------------------------------------------------------
(* CancelTask(): all ejected nodes are called in parallel under the lock.  *)

\* Whether a remote call fails.
Fails(f) == IF f THEN faults < MaxFaults /\ faults' = faults + 1 ELSE UNCHANGED faults

CancelTask ==
  /\ Unlocked /\ ns = "running"
  /\ IF changeID = change /\ eject # <<>>
       THEN ns' = "cancelling" /\ cancelling' = DOMAIN eject /\ restored' = servers
       ELSE ns' = "idle" /\ UNCHANGED call
  /\ UNCHANGED <<mgr, shut, target, node, change, polling, faults, panicked, asked, upset>>

\* The inner append writes item over list[i], which the outer one then copies.
appendInOrder(list, item) ==
  LET later == {i \in DOMAIN list : list[i] > item}
      i     == CHOOSE j \in later : \A k \in later : j <= k
  IN  IF later = {} THEN Append(list, item)
      ELSE IF i = 1 THEN <<item>> \o list
      ELSE SubSeq(list, 1, i - 1) \o <<item, item>> \o SubSeq(list, i + 1, Len(list))

\* A goroutine is yet to ask this node to shut down, or the monitor of the node is
\* about to mark it down: either undoes the cancellation.
Overrun(n) ==
  \/ node[n].decided > 0
  \/ \E s \in Shuts : \/ shut[s] = "post" /\ target[s] = n
                      \/ shut[s] = "start" /\ s[2] \in DOMAIN eject /\ eject[s[2]] = n

CancelCall(i, delivered, answered) ==
  LET n   == eject[i]
      off == delivered /\ ShuttingDown(node[n]) /\ ~ShutDown(node[n])
  IN
  /\ ~panicked /\ i \in cancelling /\ (answered => delivered)
  /\ cancelling' = cancelling \ {i}
  /\ node' = IF delivered THEN [node EXCEPT ![n] = PostCancel(@)] ELSE node
  /\ restored' = IF answered /\ CancelAccepted(node[n]) THEN appendInOrder(restored, n)
                 ELSE restored
  /\ asked' = IF off THEN asked \ {n} ELSE asked
  /\ upset' = IF off /\ Overrun(n) THEN upset \cup {n} ELSE upset
  /\ Fails(~answered)
  /\ UNCHANGED <<mgr, shut, target, nsv, polling, panicked>>

\* Mutant: the counters are reset, under the goroutines of the cancelled change.
BugCancelEnd ==
  /\ ~panicked /\ ns = "cancelling" /\ cancelling = {}
  /\ changeID' = NoChange /\ eject' = <<>> /\ servers' = restored /\ restored' = <<>>
  /\ started' = 0 /\ completed' = 0 /\ NewRev
  /\ ns' = "idle"
  /\ UNCHANGED <<shut, target, cancelling, node, change, faults, panicked, asked, upset>>

CancelEnd ==
  /\ ~panicked /\ ns = "cancelling" /\ cancelling = {}
  /\ changeID' = NoChange /\ eject' = <<>> /\ servers' = restored /\ restored' = <<>>
  /\ UNCHANGED <<started, completed>> /\ NewRev
  /\ ns' = "idle"
  /\ UNCHANGED <<shut, target, cancelling, node, change, faults, panicked, asked, upset>>

----------------------------------------------------------------------------
(* The goroutine of an ejected node.                                       *)

ShutGo(s, from, to) == ~panicked /\ shut[s] = from /\ shut' = [shut EXCEPT ![s] = to]

\* m.eject[i], read without the lock: past the end of the list, the process dies,
\* and all goroutines with it.
ReadEject(s, from, to) ==
  IF s[2] <= Len(eject) THEN ShutGo(s, from, to) /\ UNCHANGED panicked
  ELSE /\ ~panicked /\ shut[s] = from
       /\ panicked' = TRUE /\ shut' = [t \in Shuts |-> "none"]

ResolveHost(s) ==
  /\ \/ ReadEject(s, "start", "post") /\ Fails(FALSE)
     \/ ReadEject(s, "start", "gaveUp") /\ Fails(TRUE)
  /\ LET read == s[2] <= Len(eject) IN
     /\ target' = IF read THEN [target EXCEPT ![s] = eject[s[2]]] ELSE target
     /\ upset' = IF read /\ s[1] # change THEN upset \cup {eject[s[2]]} ELSE upset
  /\ UNCHANGED <<mgr, call, node, nsv, polling, asked>>

\* The call may fail with or without having reached the node.
AskShutdown(s, delivered, answered) ==
  /\ answered => delivered
  /\ ShutGo(s, "post", IF answered THEN "posted" ELSE "failed")
  /\ node' = IF delivered THEN [node EXCEPT ![target[s]] = PostShutdown(@)] ELSE node
  /\ Fails(~answered)
  /\ UNCHANGED <<mgr, target, call, nsv, polling, panicked, asked, upset>>

\* The name of the node is read again, for the log or as an argument.
NameNode(s) ==
  /\ \/ ReadEject(s, "posted", "check")
     \/ ReadEject(s, "failed", "gaveUp")
  /\ UNCHANGED <<mgr, target, call, node, nsv, polling, faults, asked, upset>>

\* monitorShutdown() of the manager: has the change been cancelled?
CheckCancelled(s) ==
  /\ Unlocked /\ ShutGo(s, "check", IF changeID = s[1] THEN "poll" ELSE "gaveUp")
  /\ UNCHANGED <<mgr, target, call, node, nsv, polling, faults, panicked, asked, upset>>

PollShutdown(s) ==
  LET answer == GetShutdown(node[target[s]]) IN
  /\ \/ ShutGo(s, "poll", [down |-> "down", busy |-> "check", error |-> "gaveUp"][answer])
        /\ Fails(FALSE)
     \/ ShutGo(s, "poll", "gaveUp") /\ Fails(TRUE)
  /\ UNCHANGED <<mgr, target, call, node, nsv, polling, panicked, asked, upset>>

\* Mutant: the first goroutine that is through drops the list of all.
BugFinish(s) ==
  /\ Unlocked /\ shut[s] \in {"down", "gaveUp"}
  /\ shut' = [shut EXCEPT ![s] = IF @ = "down" THEN "wasDown" ELSE "hadGivenUp"]
  /\ completed' = completed + 1 /\ eject' = <<>>
  /\ changeID' = IF completed' >= started THEN NoChange ELSE changeID
  /\ UNCHANGED <<servers, started>> /\ NewRev
  /\ UNCHANGED <<target, call, node, nsv, faults, panicked, asked, upset>>

Finish(s) ==
  /\ Unlocked /\ shut[s] \in {"down", "gaveUp"}
  /\ shut' = [shut EXCEPT ![s] = IF @ = "down" THEN "wasDown" ELSE "hadGivenUp"]
  /\ completed' = completed + 1
  /\ IF completed' >= started
       THEN eject' = <<>> /\ changeID' = NoChange
       ELSE UNCHANGED <<eject, changeID>>
  /\ UNCHANGED <<servers, started>> /\ NewRev
  /\ UNCHANGED <<target, call, node, nsv, faults, panicked, asked, upset>>

----------------------------------------------------------------------------
(* monitorShutdown() of each server.                                       *)

MonitorStops(n) ==
  /\ ~panicked /\ CanStopWaiting(node[n]) /\ node' = [node EXCEPT ![n] = StopWaiting(@)]
  /\ UNCHANGED <<mgr, shut, target, call, nsv, polling, faults, panicked, asked, upset>>

MonitorMarks(n) ==
  /\ ~panicked /\ CanMarkDown(node[n]) /\ node' = [node EXCEPT ![n] = MarkDown(@)]
  /\ UNCHANGED <<mgr, shut, target, call, nsv, polling, faults, panicked, asked, upset>>

Work(s) ==
  \/ ResolveHost(s) \/ NameNode(s) \/ CheckCancelled(s) \/ PollShutdown(s) \/ Finish(s)
  \/ \E d, a \in BOOLEAN : AskShutdown(s, d, a)

Cancel  == CancelEnd \/ \E i \in Indexes, d, a \in BOOLEAN : CancelCall(i, d, a)
Poll    == GetTaskList \/ TaskListed
Monitor == \E n \in Nodes : MonitorStops(n) \/ MonitorMarks(n)

Next ==
  \/ setInitialNodeList \/ StartRebalance \/ StartFailover
  \/ \E keep \in SUBSET Nodes : PrepareTopologyChange(keep)
  \/ Poll \/ WaitCancelled \/ CancelTask \/ Cancel \/ Monitor
  \/ \E s \in Shuts : Work(s)

Spec == Init /\ [][Next]_vars

\* Goroutines run, remote calls return, requests end, and ns_server goes on polling.
FairSpec ==
  /\ Spec /\ WF_vars(Poll) /\ WF_vars(Cancel) /\ WF_vars(Monitor)
  /\ \A s \in Shuts : WF_vars(Work(s))

----------------------------------------------------------------------------
(* Properties.                                                             *)

Outstanding == {"start", "post", "posted", "failed", "check", "poll", "down", "gaveUp"}
Over        == {"none", "wasDown", "hadGivenUp"}

TypeOK ==
  /\ changeID \in 0 .. MaxChanges
  /\ servers \in Seq(Nodes) /\ eject \in Seq(Nodes)
  /\ started \in Nat /\ completed \in Nat
  /\ shut \in [Shuts -> Outstanding \cup Over] /\ target \in [Shuts -> Nodes]
  /\ cancelling \subseteq Indexes /\ restored \in Seq(Nodes)
  /\ node \in [Nodes -> Servers(2 * MaxChanges)]
  /\ ns \in {"idle", "prepared", "running", "cancelling"} /\ change \in 0 .. MaxChanges
  /\ poll.is \in {"idle", "waiting", "state"} /\ fresh \in BOOLEAN
  /\ faults \in 0 .. MaxFaults /\ panicked \in BOOLEAN /\ asked \subseteq Nodes /\ upset \subseteq Nodes

\* started and completed differ by the goroutines that are not through, those of
\* cancelled changes included, and while there is a task some goroutine is left to
\* end it: neither a task nor a state sent to a caller is ever such that
\* GetTaskList() would have to remove it, and reset the counters under goroutines
\* that still count.  The state has its types.
TaskHasWork ==
  /\ TypeOK
  /\ ~panicked => started - completed = Cardinality({s \in Shuts : shut[s] \in Outstanding})
  /\ changeID # NoChange => completed < started /\ eject # <<>>
  /\ poll.is = "state" /\ poll.changeID # NoChange => poll.completed < poll.started

\* As long as a change is the current task, its goroutines find their own node in
\* m.eject, although they read it again and again without the lock: no prepare,
\* cancellation or late goroutine of another change replaces the list under them.
OwnEjectList ==
  \A s \in Shuts : s[1] = changeID /\ shut[s] \in Outstanding =>
    /\ s[2] <= Len(eject)
    /\ shut[s] # "start" => eject[s[2]] = target[s]


\* A server shuts down only if a change that was started ejects it, and has not been
\* cancelled there.  The ways out are those of upset: a monitor that had decided to
\* mark the server down when the cancellation came, a request to shut down that was
\* overtaken by the cancellation, a goroutine that read the list of the next change.
DownWasAsked == \A n \in Nodes : ShuttingDown(node[n]) => n \in asked \cup upset

\* ns_server does not poll for ever: the task of a change that was started goes, and
\* whoever waits for a new revision hears of it.
RebalanceEnds == ns = "running" ~> (ns # "running" \/ panicked)

=============================================================================
