---------------------------- MODULE TxStatements ----------------------------
(***************************************************************************)
(* The statements of one transaction: handlePlusRequest() lets one at a    *)
(* time run (TX_INUSE of the TranContext), and queues the others on a run  *)
(* queue of the transaction, which is made and dropped as needed.  A queued*)
(* statement has given its servicer back; the statement that ends hands    *)
(* over its own.  doTransactionCleanup() rolls an expired transaction      *)
(* back.  The entries of the queue are those of RunQueue, in an array that *)
(* the queue fills; transactionQueues.mutex is held while a turn is taken  *)
(* and, by a waiter, until it has placed itself.                           *)
(***************************************************************************)
EXTENDS Integers, FiniteSets

CONSTANTS Requests, QueueSize, NoRequest

ASSUME QueueAssumption == QueueSize \in Nat \ {0} /\ NoRequest \notin Requests

VARIABLES runCnt, queueCnt, head, tail, slot, holds, sleepers, pc, turn, found,
          sawRun, sawQueue, upset

\* The queue of the transaction: no goroutine of its own, no lag.
Q == INSTANCE RunQueue WITH Servicers <- 1, FullQueue <- QueueSize, Lag <- 1

VARIABLES
  status,     \* the bits of txStatus, EXPIRED standing for a passed expiryTime as well
  overdue,    \* expired for longer than _TX_CLEANUP_AFTER
  cached,     \* in tranContextCache
  exists,     \* in transactionQueues.txQueues
  servicers,  \* servicers of the plus queue that are taken
  sweep,      \* where doTransactionCleanup() is
  oddity      \* history: what the bookkeeping is not made for

queue == <<runCnt, queueCnt, head, tail, slot, holds, sleepers, pc, turn, found, sawRun, sawQueue, upset>>
ring  == <<head, tail, slot, holds, sleepers, turn, found, sawRun, sawQueue, upset>>
tx    == <<status, overdue, cached, exists>>
vars  == <<queue, tx, servicers, sweep, oddity>>

Init ==
  /\ Q!Init
  /\ status = {} /\ overdue = FALSE /\ cached = TRUE /\ exists = FALSE
  /\ servicers = 0 /\ sweep = "rest" /\ oddity = {}

Valid == status \cap {"EXPIRED", "RELEASED"} = {}

\* No place in the queue of the transaction.
Full == exists /\ runCnt >= QueueSize

\* transactionQueues.mutex, from where a turn is due to where it is unlocked.
Unlocked == \A r \in Requests : pc[r] \notin
  {"takeTail", "look", "evict", "evicted", "place", "runEvicted", "wakeEvicted", "takeHead"}

----------------------------------------------------------------------------
(* handlePlusRequest() of one request of the transaction.                  *)

\* setupRequestContext(), and the servicer of the plus queue.
Enter(r) ==
  /\ IF cached /\ Valid
     THEN Q!Go(r, "new", "pre") /\ servicers' = servicers + 1
     ELSE Q!Go(r, "new", "end") /\ UNCHANGED servicers
  /\ UNCHANGED <<runCnt, queueCnt, ring, tx, sweep, oddity>>

\* Leaves with queue.dequeue(), from here or from one of the errors below.
Dequeue(r, from) == Q!Go(r, from, "end") /\ servicers' = servicers - 1

\* The client has gone, or the transaction is no longer valid.
PreFails(r) ==
  /\ Dequeue(r, "pre")
  /\ UNCHANGED <<runCnt, queueCnt, ring, tx, sweep, oddity>>

PreValid(r) ==
  /\ Valid
  /\ Q!Go(r, "pre", "lock")
  /\ UNCHANGED <<runCnt, queueCnt, ring, tx, servicers, sweep, oddity>>

\* handlePreTxRequest() of the statement that finds the transaction free ...
Use(r) ==
  /\ Unlocked /\ "INUSE" \notin status
  /\ IF "EXPIRED" \in status
     THEN Dequeue(r, "lock") /\ UNCHANGED status
     ELSE Q!Go(r, "lock", "running") /\ status' = status \cup {"INUSE"} /\ UNCHANGED servicers
  /\ UNCHANGED <<runCnt, queueCnt, ring, overdue, cached, exists, sweep, oddity>>

\* ... of one for which there is no place in the queue ...
QueueFull(r) ==
  /\ Unlocked /\ "INUSE" \in status
  /\ Full
  /\ Dequeue(r, "lock")
  /\ UNCHANGED <<runCnt, queueCnt, ring, tx, sweep, oddity>>

\* ... and of one that has to wait ...
Queue(r) ==
  /\ Unlocked /\ "INUSE" \in status
  /\ ~ Full
  /\ Q!Go(r, "lock", "takeTail")
  /\ exists' = TRUE
  /\ runCnt' = runCnt + 1 /\ queueCnt' = queueCnt + 1
  /\ UNCHANGED <<ring, status, overdue, cached, sweep, oddity>>

\* Mutant: a statement keeps its servicer while it waits.
BugWait(r) == Queue(r) /\ UNCHANGED servicers

\* ... without a servicer.
Wait(r) == Queue(r) /\ servicers' = servicers - 1

\* addRequest() and releaseRequest() on the queue of the transaction.
QueueStep(r) == (Q!AddRequest(r) \/ Q!HandOver(r)) /\ UNCHANGED <<tx, servicers, sweep, oddity>>

\* The client went away while the statement was waiting.
Desert(r) ==
  /\ Dequeue(r, "running")
  /\ oddity' = oddity \cup {"deserted"}
  /\ UNCHANGED <<runCnt, queueCnt, ring, tx, sweep>>

\* serviceRequest() checks the transaction again.
Service(r) ==
  /\ Q!Go(r, "running", IF Valid THEN "serving" ELSE "post")
  /\ UNCHANGED <<runCnt, queueCnt, ring, tx, servicers, sweep, oddity>>

Complete(r) ==
  /\ Q!Go(r, "serving", "post")
  /\ UNCHANGED <<runCnt, queueCnt, ring, tx, servicers, sweep, oddity>>

\* COMMIT and ROLLBACK mark the transaction as in progress; a rollback leaves it
\* to the cleanup if that did so before.
End(r) ==
  /\ Q!Go(r, "serving", "ending")
  /\ status' = status \cup {"PROGRESS"}
  /\ UNCHANGED <<runCnt, queueCnt, ring, overdue, cached, exists, servicers, sweep, oddity>>

EndElsewhere(r) ==
  /\ Q!Go(r, "serving", "ended")
  /\ "PROGRESS" \in status
  /\ UNCHANGED <<runCnt, queueCnt, ring, tx, servicers, sweep, oddity>>

Ended(r) ==
  /\ Q!Go(r, "ending", "ended")
  /\ status' = status \ {"PROGRESS"}
  /\ UNCHANGED <<runCnt, queueCnt, ring, overdue, cached, exists, servicers, sweep, oddity>>

\* DoStatementComplete(): out of the cache.
DeleteTransContext(r) ==
  /\ Q!Go(r, "ended", "post")
  /\ cached' = FALSE
  /\ status' = IF cached THEN status \cup {"RELEASED"} ELSE status
  /\ UNCHANGED <<runCnt, queueCnt, ring, overdue, exists, servicers, sweep, oddity>>

\* handlePostTxRequest(): the servicer and the transaction go to the next ...
PassOn(r, bits) ==
  /\ Unlocked /\ exists /\ runCnt > 0
  /\ Q!Go(r, "post", "takeHead")
  /\ runCnt' = runCnt - 1 /\ queueCnt' = queueCnt - 1
  /\ status' = bits
  /\ UNCHANGED <<ring, overdue, cached, exists, servicers, sweep, oddity>>

\* Mutant: the transaction is marked as free for whoever comes first.
BugHandOn(r) == PassOn(r, status \ {"INUSE"})

HandOn(r) == PassOn(r, status)

\* ... or, when nobody waits, are let go of, and the queue is dropped: the next
\* statement that has to wait makes a new one.
Drop(r, bits) ==
  /\ Unlocked
  /\ Dequeue(r, "post")
  /\ exists' = FALSE /\ status' = bits
  /\ head' = 0 /\ tail' = 0
  /\ slot' = [i \in Q!Entries |-> "EMPTY"] /\ holds' = [i \in Q!Entries |-> NoRequest]
  /\ UNCHANGED <<runCnt, queueCnt, sleepers, turn, found, sawRun, sawQueue, upset, overdue,
                 cached, sweep, oddity>>

\* Mutant: the transaction stays marked as in use.
BugLetGo(r) == ~ (exists /\ runCnt > 0) /\ Drop(r, status)

\* Mutant: the queue is dropped with the statements in it.
BugDrop(r) == Drop(r, status \ {"INUSE"})

LetGo(r) == ~ (exists /\ runCnt > 0) /\ Drop(r, status \ {"INUSE"})

Statement(r) ==
  \/ Enter(r) \/ PreFails(r) \/ PreValid(r) \/ Use(r) \/ QueueFull(r) \/ Wait(r) \/ QueueStep(r)
  \/ Service(r) \/ Complete(r) \/ End(r) \/ EndElsewhere(r) \/ Ended(r) \/ DeleteTransContext(r)
  \/ HandOn(r) \/ LetGo(r)

----------------------------------------------------------------------------
(* Time, and doTransactionCleanup().                                       *)

\* The expiry time passes, or SetTxExpiry() moves it.
Expire ==
  /\ ~ overdue
  /\ status' = status \cup {"EXPIRED"}
  /\ overdue' = ("EXPIRED" \in status)
  /\ UNCHANGED <<queue, cached, exists, servicers, sweep, oddity>>

Stage(from, to, bits) ==
  /\ sweep = from /\ sweep' = to /\ status' = bits
  /\ UNCHANGED <<queue, overdue, exists, servicers>>

\* snapshot(): the bits are read one after the other.
Expired ==
  /\ cached /\ "EXPIRED" \in status /\ "PROGRESS" \notin status
  /\ Stage("rest", "expired", status)
  /\ UNCHANGED <<cached, oddity>>

Pick ==
  /\ \/ "INUSE" \notin status /\ Stage("expired", "picked", status) /\ UNCHANGED oddity
     \/ /\ "INUSE" \in status /\ overdue /\ Stage("expired", "picked", status \ {"INUSE"})
        /\ oddity' = oddity \cup {"forced"}
     \/ "INUSE" \in status /\ ~ overdue /\ Stage("expired", "rest", status) /\ UNCHANGED oddity
  /\ UNCHANGED cached

Recheck ==
  /\ Stage("picked", IF "INUSE" \in status THEN "rest" ELSE "unused", status)
  /\ UNCHANGED <<cached, oddity>>

Recheck2 ==
  /\ Stage("unused", IF "PROGRESS" \in status THEN "rest" ELSE "delete", status)
  /\ UNCHANGED <<cached, oddity>>

Delete == Stage("delete", "rollback", status) /\ cached' = FALSE /\ UNCHANGED oddity

\* RollbackTransaction() of the datastore.
Rollback ==
  /\ Stage("rollback", IF "PROGRESS" \in status THEN "release" ELSE "rolling",
           status \cup {"PROGRESS"})
  /\ UNCHANGED <<cached, oddity>>

RolledBack == Stage("rolling", "release", status \ {"PROGRESS"}) /\ UNCHANGED <<cached, oddity>>

Release == Stage("release", "rest", status \cup {"RELEASED"}) /\ UNCHANGED <<cached, oddity>>

Cleanup == Expired \/ Pick \/ Recheck \/ Recheck2 \/ Delete \/ Rollback \/ RolledBack \/ Release

Next == Expire \/ Cleanup \/ \E r \in Requests : Statement(r) \/ Desert(r)

Spec == Init /\ [][Next]_vars

\* The goroutines of the requests and of the cleanup run; clients may stay.
FairSpec == Spec /\ WF_vars(Cleanup) /\ \A r \in Requests : WF_vars(Statement(r))

----------------------------------------------------------------------------

\* The bits, the queue and the stages of statements and cleanup have their types.
TypeOK ==
  /\ status \subseteq {"INUSE", "EXPIRED", "RELEASED", "PROGRESS"}
  /\ overdue \in BOOLEAN /\ cached \in BOOLEAN /\ exists \in BOOLEAN /\ servicers \in Int
  /\ runCnt \in Int /\ queueCnt \in Int /\ head \in Nat /\ tail \in Nat
  /\ upset = {} => runCnt \in 0 .. QueueSize
  /\ sweep \in {"rest", "expired", "picked", "unused", "delete", "rollback", "rolling", "release"}
  /\ oddity \subseteq {"deserted", "forced"}
  /\ pc \in [Q!Procs -> Q!Steps \cup {"pre", "lock", "serving", "ending", "ended", "post"}]

\* Nobody was lapped in the queue, no client deserted a released statement, and
\* the cleanup did not clear TX_INUSE of a transaction that is in use.
Orderly == upset = {} /\ oddity = {}

Owning == {"running", "serving", "ending", "ended", "post", "takeHead", "swap", "pick", "wipe", "free",
           "wake", "giveUp"}

\* Everyone who has the transaction, or is being given it.
Owners == Q!At(Owning) + Cardinality(Q!Woken) + Cardinality(Q!Credits)

\* TX_INUSE is set just when one statement has the transaction or is on the way
\* to get it from the one before: the statements of a transaction never overlap,
\* and the cleanup does not roll the transaction back under one.
OneStatement ==
  Orderly =>
    /\ Owners = IF "INUSE" \in status THEN 1 ELSE 0
    /\ sweep \in {"rollback", "rolling"} => Q!At({"serving", "ending"}) = 0

\* queue.dequeue() before the wait and the servicer handed on after it balance:
\* the plus queue counts one servicer for each request that is not waiting;
\* and the state has its types.
ServicersKept ==
  /\ TypeOK
  /\ Orderly => servicers = Owners + Cardinality({r \in Requests : pc[r] \in {"pre", "lock"}})

\* runCnt of the queue is the number of statements in it: the queue is dropped
\* when nobody is in it and nobody is still at work on its entries.
QueueInUse ==
  Orderly =>
    /\ runCnt = tail + Q!At({"takeTail"}) - (head + Q!At({"takeHead"}))
    /\ ~ exists => \A r \in Requests : pc[r] \notin Q!OnEntry

\* Every statement that waits for its transaction is run or fails.
Served == <>(~ Orderly \/ \A r \in Requests : pc[r] = "end")

=============================================================================
