--------------------------- MODULE ValueExchange ---------------------------
(***************************************************************************)
(* The value exchange of execution/exchange.go between the operators that  *)
(* send on it and the operators that receive from it: a ring of values     *)
(* under one lock, two queues of sleeping operators, and a wake-up that is *)
(* only ever given to the first operator of a queue.                       *)
(*                                                                         *)
(* A step is one critical section of vLock: an operator enters it once to  *)
(* send or receive, and again each time it is woken.  The test of stop     *)
(* that precedes the lock is repeated under it and needs no step.          *)
(*                                                                         *)
(* Producers are the children of one Parallel operator, Consumers those of *)
(* the next: the last producer to end closes the exchange, the last        *)
(* consumer to end stops the producers.                                    *)
(***************************************************************************)
EXTENDS Naturals, Sequences, FiniteSets

CONSTANTS Producers, Consumers,
          Capacity,     \* cap(items)
          Threshold,    \* threshold: heartbeats before a producer yields
          Quota,        \* the request's quota for queued values; 0 for none
          MaxItems,     \* bound on what one producer sends in a run
          MaxRewinds,   \* bound on how often the exchange is reset
          NoItem        \* an empty slot

ASSUME CapacityAssumption == Capacity \in Nat \ {0}
ASSUME BoundsAssumption ==
  Threshold \in Nat /\ Quota \in Nat /\ MaxItems \in Nat /\ MaxRewinds \in Nat
ASSUME SidesAssumption == Producers \cap Consumers = {}

Actors == Producers \cup Consumers
Slots  == 0 .. Capacity - 1
Item   == Producers \X (1 .. MaxItems)

ASSUME NoItemAssumption == NoItem \notin Item

VARIABLES
  items, itemsHead, itemsTail, itemsCount,   \* valueQueue: the ring
  size,           \* valueQueue.size, every value being of size one
  heartbeat,      \* valueQueue.heartbeat, up to Threshold + 1
  closed,         \* valueQueue.closed
  readWaiters,    \* valueQueue.readWaiters
  writeWaiters,   \* valueQueue.writeWaiters
  stop,           \* operatorState.stop of each operator
  mustSignal,     \* operatorState.mustSignal: sleeps, nobody has woken it
  pc,             \* where each operator is
  total, sent,    \* what each producer has to send, and has sent
  stopping,       \* a stop is being sent to everybody
  rewinds,        \* how often the exchange was reset
  taken,          \* history: what consumers took from each producer
  toldEnd         \* history: the consumers that were told there is no more

ringVars == <<items, itemsHead, itemsTail, itemsCount>>
flowVars == <<size, heartbeat>>
waitVars == <<readWaiters, writeWaiters, mustSignal>>
exchVars == <<ringVars, flowVars, closed, waitVars, stop>>
vars == <<exchVars, pc, total, sent, stopping, rewinds, taken, toldEnd>>

Init ==
  /\ items = [s \in Slots |-> NoItem]
  /\ itemsHead = 0 /\ itemsTail = 0 /\ itemsCount = 0
  /\ size = 0 /\ heartbeat = 0 /\ closed = FALSE
  /\ readWaiters = <<>> /\ writeWaiters = <<>>
  /\ stop = [a \in Actors |-> FALSE]
  /\ mustSignal = [a \in Actors |-> FALSE]
  /\ pc = [a \in Actors |-> "ready"]
  /\ total \in [Producers -> 0 .. MaxItems]
  /\ sent = [p \in Producers |-> 0]
  /\ stopping = FALSE /\ rewinds = 0
  /\ taken = [p \in Producers |-> 0] /\ toldEnd = {}

----------------------------------------------------------------------------
(* The queues of sleepers.                                                 *)

First(q) == IF q = <<>> THEN {} ELSE {Head(q)}

\* enqueue(), after the wait: the operator takes itself out of the queue,
\* wherever in it it is by now.
Without(q, a) ==
  LET i == CHOOSE j \in 1 .. Len(q) : q[j] = a
  IN  [j \in 1 .. Len(q) - 1 |-> IF j < i THEN q[j] ELSE q[j + 1]]

\* signal() on the operators of woken; those of asleep go to sleep.
Signal(woken, asleep) ==
  mustSignal' = [a \in Actors |-> a \in asleep \/ (mustSignal[a] /\ a \notin woken)]

Succ(s) == IF s + 1 >= Capacity THEN 0 ELSE s + 1

----------------------------------------------------------------------------
(* sendItem(), from the lock on: w is the queue of writers without the     *)
(* sender, sz the size of what is queued with the new value counted in.    *)

\* Mutant: a refused sender stays linked in the queue.
BugSendRefused(p, w, sz) ==
  /\ stop[p] \/ closed
  /\ Signal(IF stop[p] THEN {} ELSE First(readWaiters) \cup First(w), {})
  /\ size' = sz
  /\ UNCHANGED <<ringVars, heartbeat, closed, readWaiters, writeWaiters, stop>>

SendRefused(p, w, sz) ==
  /\ stop[p] \/ closed
  /\ Signal(IF stop[p] THEN {} ELSE First(readWaiters) \cup First(w), {})
  /\ writeWaiters' = w
  /\ size' = sz
  /\ UNCHANGED <<ringVars, heartbeat, closed, readWaiters, stop>>

\* A full ring, a consumer that is not getting a chance to run, or too much
\* memory: each makes the producer wait, unless nothing is queued at all.
Full == itemsCount >= Capacity
Beat == IF readWaiters = <<>> \/ heartbeat > Threshold THEN heartbeat ELSE heartbeat + 1
OverQuota(sz) == Quota > 0 /\ sz > Quota

SendWaits(p, w, sz) ==
  /\ ~stop[p] /\ ~closed /\ itemsCount > 0
  /\ Full \/ (readWaiters # <<>> /\ Beat > Threshold) \/ OverQuota(sz)
  /\ heartbeat' = IF Full THEN heartbeat ELSE Beat
  /\ writeWaiters' = Append(w, p)
  /\ Signal({}, {p})
  /\ size' = sz
  /\ UNCHANGED <<ringVars, closed, readWaiters, stop>>

\* Mutant: the size is only updated when the sender has to wait.
BugSendPuts(p, v, w, sz) ==
  /\ ~stop[p] /\ ~closed
  /\ itemsCount > 0 =>
       ~Full /\ ~(readWaiters # <<>> /\ Beat > Threshold) /\ ~OverQuota(sz)
  /\ items' = [items EXCEPT ![itemsHead] = v]
  /\ itemsHead' = Succ(itemsHead)
  /\ itemsCount' = itemsCount + 1
  /\ heartbeat' = IF itemsCount = 0 THEN heartbeat ELSE Beat
  /\ Signal(First(readWaiters) \cup (IF itemsCount + 1 < Capacity THEN First(w) ELSE {}), {})
  /\ writeWaiters' = w
  /\ UNCHANGED <<itemsTail, size, closed, readWaiters, stop>>

SendPuts(p, v, w, sz) ==
  /\ ~stop[p] /\ ~closed
  /\ itemsCount > 0 =>
       ~Full /\ ~(readWaiters # <<>> /\ Beat > Threshold) /\ ~OverQuota(sz)
  /\ items' = [items EXCEPT ![itemsHead] = v]
  /\ itemsHead' = Succ(itemsHead)
  /\ itemsCount' = itemsCount + 1
  /\ heartbeat' = IF itemsCount = 0 THEN heartbeat ELSE Beat
  /\ Signal(First(readWaiters) \cup (IF itemsCount + 1 < Capacity THEN First(w) ELSE {}), {})
  /\ writeWaiters' = w
  /\ size' = sz
  /\ UNCHANGED <<itemsTail, closed, readWaiters, stop>>

----------------------------------------------------------------------------
(* getItem(), from the lock on: r is the queue of readers without the      *)
(* receiver.                                                               *)

GetStopped(c, r) ==
  /\ stop[c]
  /\ readWaiters' = r
  /\ UNCHANGED <<ringVars, flowVars, closed, writeWaiters, mustSignal, stop>>

\* Mutant: the wake-up is not passed on to the next reader.
BugGetTakesReader(c, r) ==
  /\ ~stop[c] /\ itemsCount > 0
  /\ items' = [items EXCEPT ![itemsTail] = NoItem]
  /\ itemsTail' = Succ(itemsTail)
  /\ itemsCount' = itemsCount - 1
  /\ size' = IF size > 0 THEN size - 1 ELSE size
  /\ heartbeat' = 0
  /\ Signal(First(writeWaiters), {})
  /\ readWaiters' = r
  /\ UNCHANGED <<itemsHead, closed, writeWaiters, stop>>

GetTakes(c, r) ==
  /\ ~stop[c] /\ itemsCount > 0
  /\ items' = [items EXCEPT ![itemsTail] = NoItem]
  /\ itemsTail' = Succ(itemsTail)
  /\ itemsCount' = itemsCount - 1
  /\ size' = IF size > 0 THEN size - 1 ELSE size
  /\ heartbeat' = 0
  /\ Signal(First(writeWaiters) \cup (IF itemsCount - 1 > 0 THEN First(r) ELSE {}), {})
  /\ readWaiters' = r
  /\ UNCHANGED <<itemsHead, closed, writeWaiters, stop>>

\* Mutant: a closed exchange ends before it is empty.
BugGetEnds(c, r) ==
  /\ ~stop[c] /\ closed
  /\ Signal(First(r) \cup First(writeWaiters), {})
  /\ readWaiters' = r
  /\ UNCHANGED <<ringVars, flowVars, closed, writeWaiters, stop>>

GetEnds(c, r) ==
  /\ ~stop[c] /\ itemsCount = 0 /\ closed
  /\ Signal(First(r) \cup First(writeWaiters), {})
  /\ readWaiters' = r
  /\ UNCHANGED <<ringVars, flowVars, closed, writeWaiters, stop>>

GetWaits(c, r) ==
  /\ ~stop[c] /\ itemsCount = 0 /\ ~closed
  /\ Signal(First(writeWaiters), {c})
  /\ readWaiters' = Append(r, c)
  /\ UNCHANGED <<ringVars, flowVars, closed, writeWaiters, stop>>

----------------------------------------------------------------------------
(* The two sides.                                                          *)

Go(a, where) == pc' = [pc EXCEPT ![a] = where]

\* sendItem(): the first entry into the critical section counts the value in,
\* and it stays counted if the value is refused.
Send(p) ==
  /\ pc[p] = "ready" /\ sent[p] < total[p]
  /\ LET sz == IF Quota > 0 THEN size + 1 ELSE size IN
       \/ SendRefused(p, writeWaiters, sz) /\ Go(p, "end") /\ UNCHANGED sent
       \/ SendWaits(p, writeWaiters, sz) /\ Go(p, "asleep") /\ UNCHANGED sent
       \/ /\ SendPuts(p, <<p, sent[p] + 1>>, writeWaiters, sz)
          /\ sent' = [sent EXCEPT ![p] = @ + 1]
          /\ UNCHANGED pc
  /\ UNCHANGED <<total, stopping, rewinds, taken, toldEnd>>

SendAgain(p) ==
  /\ pc[p] = "asleep" /\ ~mustSignal[p] /\ p \in Producers
  /\ LET w == Without(writeWaiters, p) IN
       \/ SendRefused(p, w, size) /\ Go(p, "end") /\ UNCHANGED sent
       \/ SendWaits(p, w, size) /\ UNCHANGED <<pc, sent>>
       \/ /\ SendPuts(p, <<p, sent[p] + 1>>, w, size)
          /\ sent' = [sent EXCEPT ![p] = @ + 1]
          /\ Go(p, "ready")
  /\ UNCHANGED <<total, stopping, rewinds, taken, toldEnd>>

\* The producer has nothing more to send.
SendDone(p) ==
  /\ pc[p] = "ready" /\ sent[p] = total[p]
  /\ Go(p, "end")
  /\ UNCHANGED <<exchVars, total, sent, stopping, rewinds, taken, toldEnd>>

\* close(), by the last producer to end: keepAlive() counts them down.
Close ==
  /\ \A p \in Producers : pc[p] = "end"
  /\ ~closed /\ closed' = TRUE
  /\ Signal(First(readWaiters) \cup First(writeWaiters), {})
  /\ UNCHANGED <<ringVars, flowVars, readWaiters, writeWaiters, stop, pc, total, sent,
                 stopping, rewinds, taken, toldEnd>>

\* The value at the tail was put there by the producer it names.
CountTaken == taken' = [taken EXCEPT ![items[itemsTail][1]] = @ + 1]

GetBranch(c, r) ==
  \/ GetStopped(c, r) /\ Go(c, "end") /\ UNCHANGED <<taken, toldEnd>>
  \/ GetTakes(c, r) /\ Go(c, "ready") /\ CountTaken /\ UNCHANGED toldEnd
  \/ GetEnds(c, r) /\ Go(c, "end") /\ toldEnd' = toldEnd \cup {c} /\ UNCHANGED taken
  \/ GetWaits(c, r) /\ Go(c, "asleep") /\ UNCHANGED <<taken, toldEnd>>

Get(c) ==
  /\ pc[c] = "ready"
  /\ GetBranch(c, readWaiters)
  /\ UNCHANGED <<total, sent, stopping, rewinds>>

GetAgain(c) ==
  /\ pc[c] = "asleep" /\ ~mustSignal[c] /\ c \in Consumers
  /\ GetBranch(c, Without(readWaiters, c))
  /\ UNCHANGED <<total, sent, stopping, rewinds>>

\* processItem() fails with an exception, which stops the request.
GetFails(c) ==
  /\ pc[c] = "ready"
  /\ stopping' = TRUE
  /\ Go(c, "end")
  /\ UNCHANGED <<exchVars, total, sent, rewinds, taken, toldEnd>>

\* Somebody stops the request ...
RequestStop ==
  /\ ~stopping /\ stopping' = TRUE
  /\ UNCHANGED <<exchVars, pc, total, sent, rewinds, taken, toldEnd>>

\* Mutant: the stop is recorded, the sleeper is not woken.
BugSendStop(a) ==
  /\ ~stop[a]
  /\ stopping \/ (a \in Producers /\ \A c \in Consumers : pc[c] = "end")
  /\ stop' = [stop EXCEPT ![a] = TRUE]
  /\ UNCHANGED <<ringVars, flowVars, closed, waitVars, pc, total, sent,
                 stopping, rewinds, taken, toldEnd>>

\* ... and sendStop() reaches the operators one by one; that also happens to
\* the producers once the last consumer is gone.
SendStop(a) ==
  /\ ~stop[a]
  /\ stopping \/ (a \in Producers /\ \A c \in Consumers : pc[c] = "end")
  /\ stop' = [stop EXCEPT ![a] = TRUE]
  /\ Signal({a}, {})
  /\ UNCHANGED <<ringVars, flowVars, closed, readWaiters, writeWaiters, pc, total, sent,
                 stopping, rewinds, taken, toldEnd>>

\* reset(), for the next run of both sides.  The queues of sleepers, and the
\* sleepers' flags, are left as they are.
Reset ==
  /\ rewinds < MaxRewinds
  /\ closed /\ \A a \in Actors : pc[a] = "end"
  /\ items' = [s \in Slots |-> NoItem]
  /\ itemsHead' = 0 /\ itemsTail' = 0 /\ itemsCount' = 0
  /\ size' = 0 /\ heartbeat' = 0 /\ closed' = FALSE
  /\ stop' = [a \in Actors |-> FALSE]
  /\ pc' = [a \in Actors |-> "ready"]
  /\ total' \in [Producers -> 0 .. MaxItems]
  /\ sent' = [p \in Producers |-> 0] /\ taken' = [p \in Producers |-> 0]
  /\ stopping' = FALSE /\ rewinds' = rewinds + 1 /\ toldEnd' = {}
  /\ UNCHANGED waitVars

ProducerStep(p) == Send(p) \/ SendAgain(p) \/ SendDone(p)
ConsumerStep(c) == Get(c) \/ GetAgain(c)

Next ==
  \/ \E p \in Producers : ProducerStep(p)
  \/ \E c \in Consumers : ConsumerStep(c) \/ GetFails(c)
  \/ \E a \in Actors : SendStop(a)
  \/ Close \/ RequestStop \/ Reset

Spec == Init /\ [][Next]_vars

(* Operators that can go on do; a stop that was begun reaches everybody.   *)
Fairness ==
  /\ \A p \in Producers : WF_vars(ProducerStep(p))
  /\ \A c \in Consumers : WF_vars(ConsumerStep(c))
  /\ \A a \in Actors : WF_vars(SendStop(a))
  /\ WF_vars(Close)

FairSpec == Spec /\ Fairness

----------------------------------------------------------------------------
\* The i-th value from the tail on.
Wrap(n) == IF n >= Capacity THEN n - Capacity ELSE n
Queued(i) == items[Wrap(itemsTail + i)]

\* The ring, the waiters' queues and the counts of the exchange have their types.
TypeOK ==
  /\ items \in [Slots -> Item \cup {NoItem}]
  /\ itemsHead \in Slots /\ itemsTail \in Slots /\ itemsCount \in 0 .. Capacity
  /\ size \in Nat /\ heartbeat \in 0 .. Threshold + 1 /\ closed \in BOOLEAN
  /\ readWaiters \in Seq(Consumers) /\ writeWaiters \in Seq(Producers)
  /\ stop \in [Actors -> BOOLEAN] /\ mustSignal \in [Actors -> BOOLEAN]
  /\ pc \in [Actors -> {"ready", "asleep", "end"}]
  /\ total \in [Producers -> 0 .. MaxItems] /\ sent \in [Producers -> 0 .. MaxItems]
  /\ taken \in [Producers -> 0 .. MaxItems]
  /\ stopping \in BOOLEAN /\ rewinds \in 0 .. MaxRewinds /\ toldEnd \subseteq Consumers

\* Nothing is lost, duplicated or reordered on the way: the ring holds, in the
\* order they were sent, exactly the values of each producer that were sent and
\* not yet taken.
InOrder ==
  /\ \A i \in 0 .. itemsCount - 1 : Queued(i) # NoItem
  /\ \A i \in 0 .. itemsCount - 1 :
        taken[Queued(i)[1]] < Queued(i)[2] /\ Queued(i)[2] <= sent[Queued(i)[1]]
  /\ \A p \in Producers : \A n \in taken[p] + 1 .. sent[p] :
        \E i \in 0 .. itemsCount - 1 : Queued(i) = <<p, n>>
  /\ \A i, j \in 0 .. itemsCount - 1 :
        i < j /\ Queued(i)[1] = Queued(j)[1] => Queued(i)[2] < Queued(j)[2]

\* Membership in a queue of sleepers, and that nobody is in it twice.
In(q, a) == \E i \in 1 .. Len(q) : q[i] = a
Once(q) == \A i, j \in 1 .. Len(q) : q[i] = q[j] => i = j

\* An operator sleeps if and only if it is in the queue of its side, once.  So
\* the operators that enqueue() linked together have all unlinked themselves
\* by the time reset() leaves the queues as they are.
SleepersQueued ==
  /\ \A c \in Consumers : pc[c] = "asleep" <=> In(readWaiters, c)
  /\ \A p \in Producers : pc[p] = "asleep" <=> In(writeWaiters, p)
  /\ Once(readWaiters) /\ Once(writeWaiters)
  /\ \A a \in Actors : mustSignal[a] => pc[a] = "asleep"

\* signal() wakes one sleeper, and that one passes the wake-up on.  As long as
\* nobody was stopped, the first sleeping reader has been woken whenever there
\* is a value to take ...
ReaderWoken ==
  itemsCount > 0 /\ readWaiters # <<>> /\ (\A a \in Actors : ~stop[a])
    => ~mustSignal[Head(readWaiters)]

\* ... and the first sleeping writer whenever the ring is empty, which is the
\* one state in which a writer is sure not to be throttled.
WriterWoken ==
  itemsCount = 0 /\ writeWaiters # <<>> /\ (\A a \in Actors : ~stop[a])
    => ~mustSignal[Head(writeWaiters)]

\* No wake-up is lost on either side, although signal() wakes only the first.
FirstWoken == ReaderWoken /\ WriterWoken

\* With a quota, size never falls short of what is queued, so that the unsigned
\* subtraction in getItem() does not wrap around.
SizeCovers == Quota > 0 => size >= itemsCount

\* The exchange is a bounded first-in first-out channel.
Channel == INSTANCE BoundedChannel WITH
  Readers <- Consumers,
  buf <- [i \in 1 .. itemsCount |-> Queued(i - 1)], isClosed <- closed, told <- toldEnd

IsChannel == Channel!Spec

\* Every operator on either side gets to its end, in every run.
AllEnd == []<>(\A a \in Actors : pc[a] = "end")

=============================================================================
