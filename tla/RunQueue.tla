------------------------------ MODULE RunQueue ------------------------------
(***************************************************************************)
(* The run queues of the server (runQueue of server/server.go): a number   *)
(* of servicers, and a ring of entries in which further requests wait for  *)
(* one.  There is no lock.  A request that does not get a servicer         *)
(* reserves a place with queueCnt, takes the next entry from tail, and     *)
(* sleeps once it has swung the entry from EMPTY to FULL; a request that   *)
(* leaves hands its servicer to the entry at head, or marks that entry GO  *)
(* if it gets there before the waiter does.  Every access to shared memory *)
(* is a step.  checkWaiters() looks after what the two counters, which are *)
(* not changed together, leave behind.                                     *)
(***************************************************************************)
EXTENDS Integers, FiniteSets

CONSTANTS Requests,    \* the requests that arrive, each with its goroutine
          Servicers,   \* how many may run
          FullQueue,   \* how many may wait
          Lag,         \* how often the queue fits in its array (_LAG_MULTIPLIER)
          NoRequest    \* nil

Checker == "checkWaiters"
Procs   == Requests \cup {Checker}

ASSUME SizesAssumption == /\ Servicers \in Nat \ {0} /\ FullQueue \in Nat \ {0} /\ Lag \in Nat \ {0}
ASSUME RequestsAssumption == IsFiniteSet(Requests) /\ NoRequest \notin Procs /\ Checker \notin Requests

Size    == FullQueue * Lag
Entries == 0 .. Size - 1

VARIABLES
  runCnt, queueCnt,    \* counters, added to atomically
  head, tail,          \* how many turns wakers and waiters took
  slot, holds,         \* state and request of an entry
  sleepers,            \* the WaitGroup of each request: setSleep(), sleep(), release()
  pc,                  \* where each goroutine is
  turn, found,         \* its local variables: entry is the remainder of turn
  sawRun, sawQueue,    \* those of checkWaiters()
  upset                \* history: what disturbed the order of turns

counters == <<runCnt, queueCnt>>
ring     == <<head, tail, slot, holds>>
locals   == <<turn, found>>
seen     == <<sawRun, sawQueue>>
vars     == <<counters, ring, sleepers, pc, locals, seen, upset>>

Init ==
  /\ runCnt = 0 /\ queueCnt = 0 /\ head = 0 /\ tail = 0
  /\ slot = [i \in Entries |-> "EMPTY"] /\ holds = [i \in Entries |-> NoRequest]
  /\ sleepers = [r \in Requests |-> 0]
  /\ pc = [p \in Procs |-> IF p = Checker THEN "rest" ELSE "new"]
  /\ turn = [p \in Procs |-> 0] /\ found = [p \in Procs |-> NoRequest]
  /\ sawRun = 0 /\ sawQueue = 0 /\ upset = {}

entry(p) == turn[p] % Size

\* Where a goroutine, asleep or not, is at work on its entry.
OnEntry == {"look", "evict", "evicted", "place", "runEvicted", "wakeEvicted", "publish",
            "withdraw", "reset", "asleep", "swap", "pick", "wipe", "free"}

\* A goroutine is still at work on this entry for an earlier turn (or a later one).
Laps(n) == \E p \in Procs : pc[p] \in OnEntry /\ turn[p] # n /\ entry(p) = n % Size

\* A waker comes to an entry in which the servicer of an earlier one still waits
\* for its waiter.
Overtakes(to, n) == to = "swap" /\ slot[n % Size] = "GO"

----------------------------------------------------------------------------
(* What a step can do, apart from where it leads to.                       *)

Go(p, from, to) == pc[p] = from /\ pc' = [pc EXCEPT ![p] = to]

Jump(p, from, to) == Go(p, from, to) /\ UNCHANGED <<counters, ring, sleepers, locals, seen, upset>>

Count(p, from, to, runs, queues) ==
  /\ Go(p, from, to) /\ runCnt' = runCnt + runs /\ queueCnt' = queueCnt + queues
  /\ UNCHANGED <<ring, sleepers, locals, seen, upset>>

TakeTurn(p, to, n) ==
  /\ turn' = [turn EXCEPT ![p] = n]
  /\ upset' = IF Laps(n) \/ Overtakes(to, n) THEN upset \cup {"lapped"} ELSE upset
  /\ pc' = [pc EXCEPT ![p] = to]
  /\ UNCHANGED <<counters, slot, holds, sleepers, found, seen>>

Mark(p, from, to, state) ==
  /\ Go(p, from, to) /\ slot' = [slot EXCEPT ![entry(p)] = state]
  /\ UNCHANGED <<counters, head, tail, holds, sleepers, locals, seen, upset>>

\* CompareAndSwap from EMPTY.
MarkEmpty(p, from, state, done, failed) ==
  IF slot[entry(p)] = "EMPTY" THEN Mark(p, from, done, state) ELSE Jump(p, from, failed)

Clear(p, from, to) ==
  /\ Go(p, from, to) /\ holds' = [holds EXCEPT ![entry(p)] = NoRequest]
  /\ UNCHANGED <<counters, head, tail, slot, sleepers, locals, seen, upset>>

Find(p, from, to) ==
  /\ Go(p, from, to) /\ found' = [found EXCEPT ![p] = holds[entry(p)]]
  /\ UNCHANGED <<counters, ring, sleepers, turn, seen, upset>>

Release(p, from, to, r) ==
  /\ Go(p, from, to) /\ sleepers' = [sleepers EXCEPT ![r] = @ - 1]
  /\ found' = [found EXCEPT ![p] = NoRequest]
  /\ UNCHANGED <<counters, ring, turn, seen, upset>>

----------------------------------------------------------------------------
(* enqueue()                                                               *)

Arrive(r) == Count(r, "new", IF runCnt + 1 > Servicers THEN "backOff" ELSE "running", 1, 0)

\* Mutant: the servicer that was not there is not given back.
BugBackOff(r) == Jump(r, "backOff", "reserve")

BackOff(r) == Count(r, "backOff", "reserve", -1, 0)

Reserve(r) == Count(r, "reserve", IF queueCnt + 1 > FullQueue THEN "full" ELSE "takeTail", 0, 1)

Refuse(r) == Count(r, "full", "refused", 0, -1)

----------------------------------------------------------------------------
(* addRequest()                                                            *)

TakeTail(r) ==
  /\ pc[r] = "takeTail"
  /\ tail' = tail + 1 /\ UNCHANGED head
  /\ TakeTurn(r, "look", tail + 1)

\* The safety-net: an entry that is still taken.
Look(r) == Jump(r, "look", IF slot[entry(r)] = "FULL" THEN "evict" ELSE "place")

Evict(r) == Find(r, "evict", "evicted")

Evicted(r) == Mark(r, "evicted", "place", "EMPTY")

\* setSleep(), and the request goes into the entry.
Place(r) ==
  /\ Go(r, "place", IF found[r] # NoRequest THEN "runEvicted" ELSE "publish")
  /\ sleepers' = [sleepers EXCEPT ![r] = @ + 1]
  /\ holds' = [holds EXCEPT ![entry(r)] = r]
  /\ UNCHANGED <<counters, head, tail, slot, locals, seen, upset>>

\* Mutant: the evicted request is taken off the count of those that wait, which
\* the leaving request that comes for its turn does again.
BugRunEvicted(r) == Count(r, "runEvicted", "wakeEvicted", 1, -1)

RunEvicted(r) == Count(r, "runEvicted", "wakeEvicted", 1, 0)

WakeEvicted(r) == Release(r, "wakeEvicted", "publish", found[r])

\* Mutant: the state of the entry is not looked at.
BugPublish(r) == Mark(r, "publish", "asleep", "FULL")

\* The swap to FULL, which a waker may have been ahead of.
Publish(r) == MarkEmpty(r, "publish", "FULL", "asleep", "withdraw")

Withdraw(r) == Clear(r, "withdraw", "reset")

Reset(r) == Mark(r, "reset", "releaseSelf", "EMPTY")

ReleaseSelf(r) == Release(r, "releaseSelf", "running", r)

Wake(r) == sleepers[r] <= 0 /\ Jump(r, "asleep", "running")

----------------------------------------------------------------------------
(* dequeue(), after the request was served.                                *)

Leave(r) == Jump(r, "running", IF queueCnt > 0 THEN "claim" ELSE "quit")

Claim(r) == Count(r, "claim", IF queueCnt - 1 >= 0 THEN "takeHead" ELSE "unclaim", 0, -1)

Unclaim(r) == Count(r, "unclaim", "quit", 0, 1)

Quit(r) == Count(r, "quit", "end", -1, 0)

----------------------------------------------------------------------------
(* releaseRequest(), by a request that leaves or by checkWaiters().        *)

Released(p) == IF p = Checker THEN "loop" ELSE "end"

TakeHead(p) ==
  /\ pc[p] = "takeHead"
  /\ head' = head + 1 /\ UNCHANGED tail
  /\ TakeTurn(p, "swap", head + 1)

\* Mutant: the waker empties the entry also when it got there first.
BugSwap(p) == MarkEmpty(p, "swap", "GO", "pick", "pick")

\* The swap to GO, unless the waiter got there first.
Swap(p) == MarkEmpty(p, "swap", "GO", Released(p), "pick")

Pick(p) == Find(p, "pick", "wipe")

Wipe(p) == Clear(p, "wipe", "free")

Free(p) == Mark(p, "free", IF found[p] # NoRequest THEN "wake" ELSE "giveUp", "EMPTY")

WakeFound(p) == Release(p, "wake", Released(p), found[p])

\* Nobody to hand the servicer to.
GiveUp(p) == Count(p, "giveUp", Released(p), -1, 0)

----------------------------------------------------------------------------
(* checkWaiters()                                                          *)

See(from, to, runs, queues) ==
  /\ Go(Checker, from, to) /\ sawRun' = runs /\ sawQueue' = queues
  /\ UNCHANGED <<ring, sleepers, locals, upset>>

SeeRun == See("rest", "seeQueue", runCnt, sawQueue) /\ UNCHANGED counters

SeeQueue == See("seeQueue", "loop", sawRun, queueCnt) /\ UNCHANGED counters

\* What was seen is forgotten on the way back to sleep.
Rest(from) ==
  /\ Go(Checker, from, "rest") /\ sawRun' = 0 /\ sawQueue' = 0
  /\ turn' = [turn EXCEPT ![Checker] = 0] /\ found' = [found EXCEPT ![Checker] = NoRequest]
  /\ UNCHANGED <<ring, upset>>

Loop ==
  \/ sawRun > 0 /\ Rest("loop") /\ UNCHANGED <<counters, sleepers>>
  \/ /\ sawRun <= 0 /\ sawQueue = 0 /\ Go(Checker, "loop", "scan")
     /\ turn' = [turn EXCEPT ![Checker] = 0]
     /\ UNCHANGED <<counters, ring, sleepers, found, seen, upset>>
  \/ sawRun <= 0 /\ sawQueue # 0 /\ Jump(Checker, "loop", "pull")

Pull ==
  /\ queueCnt' = queueCnt - 1 /\ UNCHANGED runCnt
  /\ See("pull", IF queueCnt - 1 < 0 THEN "unpull" ELSE "bump", sawRun, queueCnt - 1)

Unpull ==
  /\ queueCnt' = queueCnt + 1 /\ UNCHANGED <<runCnt, sleepers>>
  /\ Rest("unpull")

Bump ==
  /\ runCnt' = runCnt + 1 /\ UNCHANGED queueCnt
  /\ See("bump", "takeHead", runCnt + 1, sawQueue)

\* Looking for a request that sleeps although nobody runs or waits: entry by
\* entry, the request, the count and the state are read one after the other.
NextEntry(from) ==
  \/ /\ turn[Checker] + 1 < Size
     /\ Go(Checker, from, "scan") /\ turn' = [turn EXCEPT ![Checker] = @ + 1]
     /\ UNCHANGED <<counters, ring, sleepers, found, seen, upset>>
  \/ turn[Checker] + 1 >= Size /\ Rest(from) /\ UNCHANGED <<counters, sleepers>>

Scan ==
  IF holds[entry(Checker)] # NoRequest THEN Find(Checker, "scan", "scanRun") ELSE NextEntry("scan")

ScanRun == IF runCnt = 0 THEN Jump(Checker, "scanRun", "scanSwap") ELSE NextEntry("scanRun")

ScanSwap ==
  \/ /\ slot[entry(Checker)] = "FULL"
     /\ Go(Checker, "scanSwap", "scanWipe")
     /\ slot' = [slot EXCEPT ![entry(Checker)] = "EMPTY"] /\ upset' = upset \cup {"scanned"}
     /\ UNCHANGED <<counters, head, tail, holds, sleepers, locals, seen>>
  \/ slot[entry(Checker)] # "FULL" /\ NextEntry("scanSwap")

ScanWipe == Clear(Checker, "scanWipe", "scanBump")

ScanBump == Count(Checker, "scanBump", "scanWake", 1, 0)

ScanWake ==
  /\ sleepers' = [sleepers EXCEPT ![found[Checker]] = @ - 1] /\ UNCHANGED counters
  /\ Rest("scanWake")

----------------------------------------------------------------------------

HandOver(p) == TakeHead(p) \/ Swap(p) \/ Pick(p) \/ Wipe(p) \/ Free(p) \/ WakeFound(p) \/ GiveUp(p)

Enqueue(r) == Arrive(r) \/ BackOff(r) \/ Reserve(r) \/ Refuse(r)

AddRequest(r) ==
  \/ TakeTail(r) \/ Look(r) \/ Evict(r) \/ Evicted(r) \/ Place(r) \/ RunEvicted(r)
  \/ WakeEvicted(r) \/ Publish(r) \/ Withdraw(r) \/ Reset(r) \/ ReleaseSelf(r) \/ Wake(r)

Dequeue(r) == Leave(r) \/ Claim(r) \/ Unclaim(r) \/ Quit(r) \/ HandOver(r)

CheckWaiters ==
  \/ SeeRun \/ SeeQueue \/ Loop \/ Pull \/ Unpull \/ Bump \/ HandOver(Checker)
  \/ Scan \/ ScanRun \/ ScanSwap \/ ScanWipe \/ ScanBump \/ ScanWake

Next == CheckWaiters \/ \E r \in Requests : Enqueue(r) \/ AddRequest(r) \/ Dequeue(r)

Spec == Init /\ [][Next]_vars

\* Every goroutine that is not waiting keeps running, and checkWaiters() never ends.
FairSpec == Spec /\ WF_vars(CheckWaiters)
                 /\ \A r \in Requests : WF_vars(Enqueue(r) \/ AddRequest(r) \/ Dequeue(r))

----------------------------------------------------------------------------

Steps == {"new", "backOff", "reserve", "full", "refused", "takeTail", "look", "evict", "evicted",
          "place", "runEvicted", "wakeEvicted", "publish", "withdraw", "reset", "releaseSelf",
          "asleep", "running", "claim", "unclaim", "quit", "takeHead", "swap", "pick", "wipe",
          "free", "wake", "giveUp", "end", "rest", "seeQueue", "loop", "pull", "unpull", "bump",
          "scan", "scanRun", "scanSwap", "scanWipe", "scanBump", "scanWake"}

\* The counters, the turns, the entries and the locals of every goroutine of
\* the run queue have their types.
TypeOK ==
  /\ runCnt \in Int /\ queueCnt \in Int /\ head \in Nat /\ tail \in Nat
  /\ slot \in [Entries -> {"EMPTY", "GO", "FULL"}] /\ holds \in [Entries -> Requests \cup {NoRequest}]
  /\ sleepers \in [Requests -> Int] /\ pc \in [Procs -> Steps]
  /\ turn \in [Procs -> Nat] /\ found \in [Procs -> Requests \cup {NoRequest}]
  /\ sawRun \in Int /\ sawQueue \in Int /\ upset \subseteq {"lapped", "scanned"}

\* Neither did a goroutine fall, or run, so far behind or ahead that another turn of
\* its entry came up, nor did checkWaiters() take a waiter out of the array by itself.
Undisturbed == upset = {}

At(steps) == Cardinality({p \in Procs : pc[p] \in steps})

Running == {r \in Requests : pc[r] = "running"}

\* Those a servicer was handed to who do not know yet.
Woken == {r \in Requests : pc[r] = "releaseSelf" \/ (pc[r] = "asleep" /\ sleepers[r] = 0)}

\* Servicers left in the array for a waiter that has not come.
Credits == {i \in Entries : slot[i] = "GO"}

\* dequeue() and enqueue() change runCnt and queueCnt one after the other, but
\* no servicer gets lost or counted twice on its way from hand to hand: runCnt
\* is at all times the number of goroutines that have one (or tried to) and of
\* entries one was left in.
ServicersOwned ==
  Undisturbed =>
    runCnt = At({"backOff", "running", "claim", "unclaim", "quit", "takeHead", "swap", "pick",
                 "wipe", "free", "wake", "giveUp"}) + Cardinality(Woken) + Cardinality(Credits)

\* The corrections of enqueue(), dequeue() and checkWaiters() to queueCnt fit
\* together: the turns taken at the tail exceed the ones at the head by queueCnt,
\* once the goroutines that are between the counter and the turn, or are about
\* to take back what they added or subtracted, are accounted for.
PlacesAccounted ==
  queueCnt = (tail + At({"takeTail"})) - (head + At({"bump"}) + At({"takeHead"}))
             + At({"full"}) - At({"unclaim", "unpull"})

\* Both counters are exact, although they change one after the other; and the state
\* has its types.
CountersExact == TypeOK /\ ServicersOwned /\ PlacesAccounted

\* release() is called once for each setSleep(), by whichever of the leaving
\* request, the request itself and checkWaiters() it falls to: the WaitGroup of a
\* request never goes below zero, which would be a panic.
ReleasedOnce == \A r \in Requests : sleepers[r] \in 0 .. 1

\* The same in every run of the queue in which no goroutine was lapped and
\* checkWaiters() scanned nobody out of the array.
OrderlyReleasedOnce == Undisturbed => ReleasedOnce

\* What enqueue() and checkWaiters() are for: every request is refused or gets to
\* run and to leave, also the waiter that came when every servicer was leaving.
Served == <>(~ Undisturbed \/ \A r \in Requests : pc[r] \in {"refused", "end"})

=============================================================================
