------------------------ MODULE ValueExchangeProofs ------------------------
(***************************************************************************)
(* For every capacity, threshold and quota, and any number of operators on *)
(* the two sides of a value exchange.                                      *)
(***************************************************************************)
EXTENDS ValueExchange, SequenceTheorems, TLAPS

----------------------------------------------------------------------------
(* The queues of sleepers.                                                 *)

\* enqueue() after the wait: taking an operator out of a queue leaves the
\* others, in their order.
LEMMA WithoutProps ==
  ASSUME NEW S, NEW q \in Seq(S), NEW a, In(q, a), Once(q)
  PROVE  /\ Without(q, a) \in Seq(S)
         /\ Len(Without(q, a)) = Len(q) - 1
         /\ Once(Without(q, a))
         /\ \A b : In(Without(q, a), b) <=> In(q, b) /\ b # a
         /\ q[1] # a => Len(q) > 1 /\ Without(q, a)[1] = q[1]
<1> DEFINE i == CHOOSE j \in 1 .. Len(q) : q[j] = a
           w == [j \in 1 .. Len(q) - 1 |-> IF j < i THEN q[j] ELSE q[j + 1]]
<1>1. i \in 1 .. Len(q) /\ q[i] = a
  BY Zenon DEF In
<1>2. Without(q, a) = w
  BY Zenon DEF Without
<1> HIDE DEF i
<1>3. Len(q) \in Nat /\ Len(q) - 1 \in Nat /\ \A j \in 1 .. Len(q) : q[j] \in S
  BY <1>1
<1>4. w \in Seq(S) /\ Len(w) = Len(q) - 1
  BY <1>1, <1>3
<1>5. \A j \in 1 .. Len(q) - 1 : w[j] = IF j < i THEN q[j] ELSE q[j + 1]
  OBVIOUS
<1> HIDE DEF w
<1>6. Once(w)
  BY <1>1, <1>3, <1>4, <1>5 DEF Once
<1>7. ASSUME NEW b PROVE In(w, b) <=> In(q, b) /\ b # a
  <2>1. In(w, b) => In(q, b) /\ b # a
    BY <1>1, <1>3, <1>4, <1>5 DEF In, Once
  <2>2. ASSUME NEW k \in 1 .. Len(q), q[k] = b, b # a PROVE In(w, b)
    <3>1. CASE k < i
      <4>1. k \in 1 .. Len(q) - 1 /\ w[k] = q[k]
        BY <3>1, <1>1, <1>3, <1>5
      <4> QED
        BY <4>1, <2>2, <1>4, Zenon DEF In
    <3>2. CASE k > i
      <4>1. k - 1 \in 1 .. Len(q) - 1 /\ w[k - 1] = q[k]
        BY <3>2, <1>1, <1>3, <1>5
      <4> QED
        BY <4>1, <2>2, <1>4, Zenon DEF In
    <3> QED
      BY <3>1, <3>2, <2>2, <1>1, <1>3
  <2> QED
    BY <2>1, <2>2, Zenon DEF In
<1>8. q[1] # a => Len(q) > 1 /\ w[1] = q[1]
  BY <1>1, <1>3, <1>5
<1> QED
  BY <1>2, <1>4, <1>6, <1>7, <1>8, Zenon

\* Going to sleep at the end of a queue.
LEMMA AppendProps ==
  ASSUME NEW S, NEW q \in Seq(S), NEW a \in S, ~In(q, a), Once(q)
  PROVE  /\ Append(q, a) \in Seq(S)
         /\ Once(Append(q, a))
         /\ \A b : In(Append(q, a), b) <=> In(q, b) \/ b = a
         /\ Append(q, a) # <<>>
         /\ q # <<>> => Head(Append(q, a)) = Head(q)
         /\ q = <<>> => Head(Append(q, a)) = a
<1> DEFINE w == Append(q, a)
<1>1. w \in Seq(S) /\ Len(w) = Len(q) + 1 /\ Len(q) \in Nat
  OBVIOUS
<1>2. w[Len(q) + 1] = a /\ \A j \in 1 .. Len(q) : w[j] = q[j]
  OBVIOUS
<1> HIDE DEF w
<1>3. Once(w)
  BY <1>1, <1>2 DEF Once, In
<1>4. \A b : In(w, b) <=> In(q, b) \/ b = a
  BY <1>1, <1>2 DEF In
<1>5. w # <<>> /\ Head(w) = w[1]
  BY <1>1
<1>6. q # <<>> => Head(q) = q[1] /\ Len(q) > 0
  OBVIOUS
<1>7. q = <<>> => Len(q) = 0
  OBVIOUS
<1> QED
  BY <1>1, <1>2, <1>3, <1>4, <1>5, <1>6, <1>7 DEF w

----------------------------------------------------------------------------
(* The ring.                                                               *)

\* Where the next value goes follows from where the oldest one is.
RingOK == itemsHead = Wrap(itemsTail + itemsCount)

\* A producer that sleeps has a value in its hands.
HasMore == \A p \in Producers : pc[p] = "asleep" => sent[p] < total[p]

\* Only what was sent is taken.
CountsOK == \A p \in Producers : taken[p] <= sent[p] /\ sent[p] <= total[p]

RingInv == TypeOK /\ RingOK /\ InOrder /\ CountsOK

\* A step that leaves the ring and the counts alone leaves the ring invariant alone.
LEMMA RingUnchanged ==
  ASSUME RingOK, InOrder, CountsOK, UNCHANGED <<ringVars, total, sent, taken>>
  PROVE  RingOK' /\ InOrder' /\ CountsOK'
<1>1. /\ itemsHead' = itemsHead /\ itemsTail' = itemsTail /\ itemsCount' = itemsCount
      /\ items' = items /\ total' = total /\ sent' = sent /\ taken' = taken
  BY Zenon DEF ringVars
<1>2. RingOK' /\ CountsOK'
  BY <1>1, Zenon DEF RingOK, CountsOK
<1>3. InOrder'
  BY <1>1, Zenon DEF InOrder, Queued
<1> QED
  BY <1>2, <1>3, Zenon

LEMMA QueuedItem ==
  ASSUME RingInv
  PROVE  \A i \in 0 .. itemsCount - 1 :
           /\ Wrap(itemsTail + i) \in Slots
           /\ Queued(i) \in Item
           /\ Queued(i) = <<Queued(i)[1], Queued(i)[2]>>
           /\ Queued(i)[1] \in Producers /\ Queued(i)[2] \in 1 .. MaxItems
<1> TAKE i \in 0 .. itemsCount - 1
<1>1. Wrap(itemsTail + i) \in Slots
  BY CapacityAssumption DEF RingInv, TypeOK, Slots, Wrap
<1>2. Queued(i) \in Item
  BY <1>1, Zenon DEF RingInv, TypeOK, InOrder, Queued
<1> QED
  BY <1>1, <1>2 DEF Item

\* A value that is put becomes the last of the queue.
LEMMA PutQueued ==
  ASSUME RingInv, NEW v, NEW p, NEW w, NEW sz, SendPuts(p, v, w, sz)
  PROVE  /\ itemsCount < Capacity
         /\ itemsCount' = itemsCount + 1
         /\ itemsHead' \in Slots /\ itemsTail' = itemsTail
         /\ RingOK'
         /\ \A i \in 0 .. itemsCount - 1 : Queued(i)' = Queued(i)
         /\ \A i \in Nat : i = itemsCount => Queued(i)' = v
<1> USE CapacityAssumption DEF RingInv, TypeOK, RingOK, Slots, Wrap, Succ
<1>1. itemsCount < Capacity /\ itemsCount' = itemsCount + 1 /\ itemsTail' = itemsTail
  BY DEF SendPuts, Full
<1>2. itemsHead' = Succ(itemsHead) /\ items' = [items EXCEPT ![itemsHead] = v]
  BY Zenon DEF SendPuts
<1>3. itemsHead' \in Slots /\ RingOK'
  BY <1>1, <1>2
<1>4. \A i \in 0 .. itemsCount - 1 : Wrap(itemsTail + i) # itemsHead /\ Wrap(itemsTail + i) \in Slots
  BY <1>1
<1>5. \A i \in 0 .. itemsCount - 1 : Queued(i)' = Queued(i)
  BY <1>1, <1>2, <1>4, Zenon DEF Queued
<1>6. ASSUME NEW i \in Nat, i = itemsCount PROVE Queued(i)' = v
  BY <1>1, <1>2, <1>6, Zenon DEF Queued
<1> QED
  BY <1>1, <1>3, <1>5, <1>6, Zenon

\* A value that is taken was the first of the queue.
LEMMA TakeQueued ==
  ASSUME RingInv, NEW c, NEW r, GetTakes(c, r)
  PROVE  /\ itemsCount > 0 /\ itemsCount' = itemsCount - 1
         /\ itemsTail' \in Slots /\ itemsHead' = itemsHead
         /\ RingOK'
         /\ \A i \in 0 .. itemsCount - 2 : Queued(i)' = Queued(i + 1)
         /\ Queued(0) = items[itemsTail]
<1> USE CapacityAssumption DEF RingInv, TypeOK, RingOK, Slots, Wrap, Succ
<1>1. itemsCount > 0 /\ itemsCount' = itemsCount - 1 /\ itemsHead' = itemsHead
  BY Zenon DEF GetTakes
<1>2. itemsTail' = Succ(itemsTail) /\ items' = [items EXCEPT ![itemsTail] = NoItem]
  BY Zenon DEF GetTakes
<1>3. itemsTail' \in Slots /\ RingOK'
  BY <1>1, <1>2
<1>4. \A i \in 0 .. itemsCount - 2 : Wrap(itemsTail + (i + 1)) # itemsTail
  BY <1>1
<1>5. \A i \in 0 .. itemsCount - 2 : Wrap(itemsTail' + i) = Wrap(itemsTail + (i + 1))
  BY <1>1, <1>2
<1>6. \A i \in 0 .. itemsCount - 2 : Wrap(itemsTail + (i + 1)) \in Slots
  BY <1>1
<1>7. \A i \in 0 .. itemsCount - 2 : Queued(i)' = Queued(i + 1)
  <2> TAKE i \in 0 .. itemsCount - 2
  <2>1. Queued(i)' = items'[Wrap(itemsTail' + i)]
    BY Zenon DEF Queued
  <2> QED
    BY <2>1, <1>2, <1>4, <1>5, <1>6, Zenon DEF Queued
<1>8. Queued(0) = items[itemsTail]
  BY DEF Queued
<1> QED
  BY <1>1, <1>3, <1>7, <1>8, Zenon

\* sendItem() keeps the order.
LEMMA PutInOrder ==
  ASSUME RingInv, NEW p \in Producers, NEW w, NEW sz, SendPuts(p, <<p, sent[p] + 1>>, w, sz),
         sent' = [sent EXCEPT ![p] = @ + 1], taken' = taken, sent[p] < total[p]
  PROVE  InOrder'
<1> DEFINE v == <<p, sent[p] + 1>>
<1>1. /\ itemsCount \in Nat /\ itemsCount' = itemsCount + 1
      /\ \A i \in 0 .. itemsCount - 1 : Queued(i)' = Queued(i)
      /\ \A i \in Nat : i = itemsCount => Queued(i)' = v
  BY PutQueued DEF RingInv, TypeOK
<1>2. \A i \in 0 .. itemsCount - 1 :
        /\ Queued(i) # NoItem /\ Queued(i)[1] \in Producers /\ Queued(i)[2] \in Nat
        /\ taken[Queued(i)[1]] < Queued(i)[2] /\ Queued(i)[2] <= sent[Queued(i)[1]]
  BY QueuedItem DEF RingInv, InOrder
<1>3. v \in Item /\ v # NoItem /\ v[1] = p /\ v[2] = sent[p] + 1
  BY NoItemAssumption, BoundsAssumption DEF RingInv, TypeOK, Item
<1>4. /\ \A q \in Producers : sent[q] \in Nat /\ taken[q] \in Nat /\ taken[q] <= sent[q]
      /\ \A q \in Producers : sent'[q] = IF q = p THEN sent[q] + 1 ELSE sent[q]
  BY BoundsAssumption DEF RingInv, TypeOK, CountsOK
<1> HIDE DEF v
<1>5. \A i \in 0 .. itemsCount' - 1 : i \in 0 .. itemsCount - 1 \/ (i = itemsCount /\ i \in Nat)
  BY <1>1
<1>6. ASSUME NEW i \in 0 .. itemsCount' - 1
      PROVE  /\ Queued(i)' # NoItem
             /\ taken'[Queued(i)'[1]] < Queued(i)'[2] /\ Queued(i)'[2] <= sent'[Queued(i)'[1]]
  <2>1. CASE i \in 0 .. itemsCount - 1
    BY <2>1, <1>1, <1>2, <1>4
  <2>2. CASE i = itemsCount
    BY <2>2, <1>1, <1>3, <1>4
  <2> QED
    BY <2>1, <2>2, <1>5, Zenon
<1>7. ASSUME NEW q \in Producers, NEW n \in taken'[q] + 1 .. sent'[q]
      PROVE  \E i \in 0 .. itemsCount' - 1 : Queued(i)' = <<q, n>>
  <2>1. CASE q = p /\ n = sent[p] + 1
    BY <2>1, <1>1 DEF v
  <2>2. CASE ~(q = p /\ n = sent[p] + 1)
    <3>1. n \in taken[q] + 1 .. sent[q]
      BY <2>2, <1>4, <1>7
    <3>2. PICK i \in 0 .. itemsCount - 1 : Queued(i) = <<q, n>>
      BY <3>1, Zenon DEF RingInv, InOrder
    <3> QED
      BY <3>2, <1>1
  <2> QED
    BY <2>1, <2>2, Zenon
<1>8. ASSUME NEW i \in 0 .. itemsCount' - 1, NEW j \in 0 .. itemsCount' - 1, i < j,
             Queued(i)'[1] = Queued(j)'[1]
      PROVE  Queued(i)'[2] < Queued(j)'[2]
  <2>1. i \in 0 .. itemsCount - 1
    BY <1>1, <1>8
  <2>2. CASE j \in 0 .. itemsCount - 1
    BY <2>1, <2>2, <1>1, <1>8, Zenon DEF RingInv, InOrder
  <2>3. CASE j = itemsCount
    BY <2>1, <2>3, <1>1, <1>2, <1>3, <1>4, <1>8
  <2> QED
    BY <2>2, <2>3, <1>5, Zenon
<1> QED
  BY <1>6, <1>7, <1>8, Zenon DEF InOrder

\* So does getItem().
LEMMA TakeInOrder ==
  ASSUME RingInv, NEW c, NEW r, GetTakes(c, r), CountTaken, sent' = sent
  PROVE  /\ InOrder' /\ taken' \in [Producers -> 0 .. MaxItems]
         /\ \A q \in Producers : taken'[q] <= sent[q]
<1> DEFINE p == Queued(0)[1]
<1>1. /\ itemsCount \in Nat /\ itemsCount > 0 /\ itemsCount' = itemsCount - 1
      /\ \A i \in 0 .. itemsCount - 2 : Queued(i)' = Queued(i + 1)
      /\ Queued(0) = items[itemsTail]
  BY TakeQueued DEF RingInv, TypeOK
<1>2. \A i \in 0 .. itemsCount - 1 :
        /\ Queued(i) # NoItem /\ Queued(i)[1] \in Producers /\ Queued(i)[2] \in Nat
        /\ taken[Queued(i)[1]] < Queued(i)[2] /\ Queued(i)[2] <= sent[Queued(i)[1]]
        /\ Queued(i) = <<Queued(i)[1], Queued(i)[2]>>
  BY QueuedItem DEF RingInv, InOrder
<1>3. p \in Producers /\ taken' = [taken EXCEPT ![p] = @ + 1]
  <2>1. items[itemsTail][1] = p
    BY <1>1, Zenon
  <2>2. p \in Producers
    BY <1>1, <1>2
  <2> HIDE DEF p
  <2>3. taken' = [taken EXCEPT ![p] = taken[p] + 1]
    BY <2>1, Zenon DEF CountTaken
  <2> QED
    BY <2>2, <2>3, Zenon
<1>4. /\ \A q \in Producers : sent[q] \in 0 .. MaxItems /\ taken[q] \in Nat /\ taken[q] <= sent[q]
      /\ \A q \in Producers : taken'[q] = IF q = p THEN taken[q] + 1 ELSE taken[q]
  BY <1>3, BoundsAssumption DEF RingInv, TypeOK, CountsOK
\* The oldest value of a producer is the one after those taken.
<1>5. Queued(0)[2] = taken[p] + 1
  <2>1. taken[p] + 1 \in taken[p] + 1 .. sent[p]
    BY <1>1, <1>2, <1>3, <1>4
  <2>2. PICK k \in 0 .. itemsCount - 1 : Queued(k) = <<p, taken[p] + 1>>
    BY <1>3, <2>1, Zenon DEF RingInv, InOrder
  <2>3. k = 0
    <3> SUFFICES ASSUME k > 0 PROVE FALSE
      BY <2>2
    <3>1. Queued(0)[2] < Queued(k)[2]
      BY <2>2, <1>1 DEF RingInv, InOrder
    <3> QED
      BY <3>1, <2>2, <1>1, <1>2, <1>3, <1>4
  <2> QED
    BY <2>2, <2>3
<1> HIDE DEF p
<1>6. taken' \in [Producers -> 0 .. MaxItems] /\ \A q \in Producers : taken'[q] <= sent[q]
  <2>1. taken[p] + 1 <= sent[p]
    BY <1>1, <1>2, <1>5 DEF p
  <2>2. taken' \in [Producers -> Nat]
    BY <1>3, BoundsAssumption DEF RingInv, TypeOK
  <2>3. \A q \in Producers : taken'[q] <= sent[q]
    BY <2>1, <1>4, Zenon
  <2>4. \A q \in Producers : taken'[q] \in 0 .. MaxItems
    BY <2>2, <2>3, <1>4, BoundsAssumption
  <2> QED
    BY <2>2, <2>3, <2>4, Zenon
<1>7. ASSUME NEW i \in 0 .. itemsCount' - 1
      PROVE  /\ Queued(i)' # NoItem
             /\ taken'[Queued(i)'[1]] < Queued(i)'[2] /\ Queued(i)'[2] <= sent'[Queued(i)'[1]]
  <2>1. i + 1 \in 0 .. itemsCount - 1 /\ Queued(i)' = Queued(i + 1)
    BY <1>1
  <2>2. CASE Queued(i + 1)[1] = p
    <3>1. Queued(0)[2] < Queued(i + 1)[2]
      BY <2>1, <2>2, <1>1 DEF RingInv, InOrder, p
    <3> QED
      BY <3>1, <2>1, <2>2, <1>2, <1>3, <1>4, <1>5, Zenon
  <2>3. CASE Queued(i + 1)[1] # p
    BY <2>1, <2>3, <1>2, <1>4, Zenon
  <2> QED
    BY <2>2, <2>3, Zenon
<1>8. ASSUME NEW q \in Producers, NEW n \in taken'[q] + 1 .. sent'[q]
      PROVE  \E i \in 0 .. itemsCount' - 1 : Queued(i)' = <<q, n>>
  <2>1. n \in taken[q] + 1 .. sent[q] /\ (q = p => n # taken[p] + 1)
    BY <1>4, <1>8
  <2>2. PICK k \in 0 .. itemsCount - 1 : Queued(k) = <<q, n>>
    BY <2>1, Zenon DEF RingInv, InOrder
  <2>3. k # 0
    BY <2>1, <2>2, <1>5 DEF p
  <2>4. k - 1 \in 0 .. itemsCount' - 1 /\ Queued(k - 1)' = Queued(k)
    BY <2>2, <2>3, <1>1
  <2> QED
    BY <2>2, <2>4, Zenon
<1>9. ASSUME NEW i \in 0 .. itemsCount' - 1, NEW j \in 0 .. itemsCount' - 1, i < j,
             Queued(i)'[1] = Queued(j)'[1]
      PROVE  Queued(i)'[2] < Queued(j)'[2]
  <2>1. /\ i + 1 \in 0 .. itemsCount - 1 /\ j + 1 \in 0 .. itemsCount - 1
        /\ Queued(i)' = Queued(i + 1) /\ Queued(j)' = Queued(j + 1)
    BY <1>1
  <2> QED
    BY <2>1, <1>9 DEF RingInv, InOrder
<1> QED
  BY <1>6, <1>7, <1>8, <1>9, Zenon DEF InOrder

----------------------------------------------------------------------------
(* The inductive invariant, and one lemma for each side of the exchange.   *)

Inv == RingInv /\ SleepersQueued /\ HasMore /\ ReaderWoken /\ WriterWoken

\* signal() keeps the flags Booleans.
LEMMA SignalType ==
  ASSUME mustSignal \in [Actors -> BOOLEAN], NEW W, NEW A, Signal(W, A)
  PROVE  /\ mustSignal' \in [Actors -> BOOLEAN]
         /\ \A a \in Actors : mustSignal'[a] <=> a \in A \/ (mustSignal[a] /\ a \notin W)
BY Zenon DEF Signal

\* The queue of writers when the sender left it, and when it joined it.
LEMMA QueuesAfterSend ==
  ASSUME SleepersQueued, HasMore, NEW p \in Producers, p \notin Consumers,
         pc \in [Actors -> {"ready", "asleep", "end"}],
         NEW w, Once(w), \A b : In(w, b) <=> In(writeWaiters, b) /\ b # p,
         NEW where \in {"ready", "end"}, pc' = [pc EXCEPT ![p] = where],
         readWaiters' = readWaiters, writeWaiters' = w, total' = total, ~mustSignal[p],
         \A a \in Actors : mustSignal'[a] => mustSignal[a],
         \A q \in Producers : q # p => sent'[q] = sent[q]
  PROVE  SleepersQueued' /\ HasMore'
<1>1. /\ \A a \in Actors : pc'[a] = IF a = p THEN where ELSE pc[a]
      /\ p \in Actors /\ where # "asleep"
      /\ \A c \in Consumers : c \in Actors /\ c # p
      /\ \A q \in Producers : q \in Actors
  BY Zenon DEF Actors
<1>2. \A c \in Consumers : pc'[c] = "asleep" <=> In(readWaiters, c)
  BY <1>1, Zenon DEF SleepersQueued
<1>3. \A q \in Producers : pc'[q] = "asleep" <=> In(w, q)
  BY <1>1, Zenon DEF SleepersQueued
<1>4. \A a \in Actors : mustSignal'[a] => pc'[a] = "asleep"
  BY <1>1, Zenon DEF SleepersQueued
<1>5. SleepersQueued'
  BY <1>2, <1>3, <1>4, Zenon DEF SleepersQueued
<1>6. HasMore'
  BY <1>1, Zenon DEF HasMore
<1> QED
  BY <1>5, <1>6, Zenon

LEMMA QueuesAfterWait ==
  ASSUME SleepersQueued, HasMore, NEW p \in Producers, p \notin Consumers,
         sent[p] < total[p],
         pc \in [Actors -> {"ready", "asleep", "end"}],
         NEW w, \A b : In(w, b) <=> In(writeWaiters, b) /\ b # p,
         Once(writeWaiters'), \A b : In(writeWaiters', b) <=> In(w, b) \/ b = p,
         pc' = [pc EXCEPT ![p] = "asleep"],
         readWaiters' = readWaiters, sent' = sent, total' = total,
         \A a \in Actors : mustSignal'[a] <=> a = p \/ mustSignal[a]
  PROVE  SleepersQueued' /\ HasMore'
<1>1. /\ \A a \in Actors : pc'[a] = IF a = p THEN "asleep" ELSE pc[a]
      /\ p \in Actors
      /\ \A c \in Consumers : c \in Actors /\ c # p
      /\ \A q \in Producers : q \in Actors
  BY Zenon DEF Actors
<1>2. \A c \in Consumers : pc'[c] = "asleep" <=> In(readWaiters, c)
  BY <1>1, Zenon DEF SleepersQueued
<1>3. \A q \in Producers : pc'[q] = "asleep" <=> In(writeWaiters', q)
  BY <1>1, Zenon DEF SleepersQueued
<1>4. \A a \in Actors : mustSignal'[a] => pc'[a] = "asleep"
  BY <1>1, Zenon DEF SleepersQueued
<1>5. SleepersQueued'
  BY <1>2, <1>3, <1>4, Zenon DEF SleepersQueued
<1>6. HasMore'
  BY <1>1, Zenon DEF HasMore
<1> QED
  BY <1>5, <1>6, Zenon

\* What sendItem() comes to, on the first entry and after a wait alike.
SendOutcome(p, w, sz) ==
  \/ SendRefused(p, w, sz) /\ Go(p, "end") /\ UNCHANGED sent
  \/ SendWaits(p, w, sz) /\ Go(p, "asleep") /\ UNCHANGED sent
  \/ /\ SendPuts(p, <<p, sent[p] + 1>>, w, sz)
     /\ sent' = [sent EXCEPT ![p] = @ + 1]
     /\ Go(p, "ready")

\* sendItem() preserves the invariant.
LEMMA SendStep ==
  ASSUME Inv, NEW p \in Producers, sent[p] < total[p], ~mustSignal[p],
         NEW w \in Seq(Producers), Once(w),
         \A b : In(w, b) <=> In(writeWaiters, b) /\ b # p,
         NEW sz \in Nat, SendOutcome(p, w, sz),
         UNCHANGED <<total, stopping, rewinds, taken, toldEnd>>
  PROVE  Inv'
<1> USE SidesAssumption, CapacityAssumption, BoundsAssumption
<1> USE DEF ringVars, flowVars, waitVars
<1>1. /\ p \in Actors /\ TypeOK /\ RingInv /\ p \notin Consumers
      /\ \A c \in Consumers : c \in Actors /\ c # p
  BY Zenon DEF Inv, RingInv, Actors
<1>2. CASE SendRefused(p, w, sz) /\ Go(p, "end") /\ UNCHANGED sent
  <2> DEFINE W == IF stop[p] THEN {} ELSE First(readWaiters) \cup First(w)
  <2>1. /\ Signal(W, {}) /\ writeWaiters' = w /\ size' = sz /\ (stop[p] \/ closed)
        /\ UNCHANGED <<items, itemsHead, itemsTail, itemsCount, heartbeat, closed, readWaiters, stop>>
        /\ pc' = [pc EXCEPT ![p] = "end"] /\ sent' = sent
    BY <1>2, Zenon DEF SendRefused, Go
  <2> HIDE DEF W
  <2>2. /\ mustSignal' \in [Actors -> BOOLEAN]
        /\ \A a \in Actors : mustSignal'[a] => mustSignal[a] /\ a \notin W
    BY <1>1, <2>1, SignalType, Zenon DEF TypeOK
  <2>3. TypeOK'
    BY <1>1, <2>1, <2>2, Zenon DEF TypeOK
  <2>4. RingOK' /\ InOrder' /\ CountsOK'
    BY <1>1, <2>1, RingUnchanged, Zenon DEF RingInv
  <2>5. SleepersQueued' /\ HasMore'
    BY <1>1, <2>1, <2>2, QueuesAfterSend, Zenon DEF Inv, TypeOK
  <2>6. ReaderWoken'
    BY <1>1, <2>1, <2>2 DEF Inv, ReaderWoken, TypeOK
  <2>7. WriterWoken'
    <3> SUFFICES ASSUME w # <<>>, ~stop[p] PROVE ~mustSignal'[Head(w)]
      BY <1>1, <2>1, Zenon DEF WriterWoken
    <3>1. Head(w) \in W /\ Head(w) \in Actors
      BY DEF W, First, Actors
    <3> QED
      BY <3>1, <2>2, Zenon
  <2> QED
    BY <2>3, <2>4, <2>5, <2>6, <2>7, Zenon DEF Inv, RingInv
<1>3. CASE SendWaits(p, w, sz) /\ Go(p, "asleep") /\ UNCHANGED sent
  <2>1. /\ Signal({}, {p}) /\ writeWaiters' = Append(w, p) /\ size' = sz /\ itemsCount > 0
        /\ UNCHANGED <<items, itemsHead, itemsTail, itemsCount, closed, readWaiters, stop>>
        /\ pc' = [pc EXCEPT ![p] = "asleep"] /\ sent' = sent
        /\ heartbeat' = IF Full THEN heartbeat ELSE Beat
    BY <1>3, Zenon DEF SendWaits, Go
  <2>2. /\ mustSignal' \in [Actors -> BOOLEAN]
        /\ \A a \in Actors : mustSignal'[a] <=> a = p \/ mustSignal[a]
    BY <1>1, <2>1, SignalType DEF TypeOK
  <2>3. /\ writeWaiters' \in Seq(Producers) /\ Once(writeWaiters')
        /\ \A b : In(writeWaiters', b) <=> In(w, b) \/ b = p
    BY <2>1, AppendProps, Zenon
  <2>4. heartbeat' \in 0 .. Threshold + 1
    BY <1>1, <2>1 DEF TypeOK, Beat
  <2>5. TypeOK'
    BY <1>1, <2>1, <2>2, <2>3, <2>4, Zenon DEF TypeOK
  <2>6. RingOK' /\ InOrder' /\ CountsOK'
    BY <1>1, <2>1, RingUnchanged, Zenon DEF RingInv
  <2>7. SleepersQueued' /\ HasMore'
    BY <1>1, <2>1, <2>2, <2>3, QueuesAfterWait, Zenon DEF Inv, TypeOK
  <2>8. ReaderWoken'
    BY <1>1, <2>1, <2>2 DEF Inv, ReaderWoken, TypeOK
  <2>9. WriterWoken'
    BY <1>1, <2>1 DEF WriterWoken, TypeOK
  <2> QED
    BY <2>5, <2>6, <2>7, <2>8, <2>9, Zenon DEF Inv, RingInv
<1>4. CASE /\ SendPuts(p, <<p, sent[p] + 1>>, w, sz)
           /\ sent' = [sent EXCEPT ![p] = @ + 1]
           /\ Go(p, "ready")
  <2> DEFINE W == First(readWaiters) \cup (IF itemsCount + 1 < Capacity THEN First(w) ELSE {})
  <2>1. /\ Signal(W, {}) /\ writeWaiters' = w /\ size' = sz
        /\ UNCHANGED <<closed, readWaiters, stop>>
        /\ pc' = [pc EXCEPT ![p] = "ready"]
        /\ heartbeat' = IF itemsCount = 0 THEN heartbeat ELSE Beat
        /\ items' = [items EXCEPT ![itemsHead] = <<p, sent[p] + 1>>]
    BY <1>4, Zenon DEF SendPuts, Go
  <2> HIDE DEF W
  <2>2. /\ mustSignal' \in [Actors -> BOOLEAN]
        /\ \A a \in Actors : mustSignal'[a] => mustSignal[a] /\ a \notin W
    BY <1>1, <2>1, SignalType, Zenon DEF TypeOK
  <2>3. heartbeat' \in 0 .. Threshold + 1
    BY <1>1, <2>1 DEF TypeOK, Beat
  <2>4. /\ itemsHead' \in Slots /\ itemsTail' \in Slots /\ itemsCount' \in 0 .. Capacity
        /\ itemsCount' = itemsCount + 1 /\ RingOK'
    BY <1>1, <1>4, PutQueued DEF TypeOK
  <2>5. /\ sent' \in [Producers -> 0 .. MaxItems]
        /\ \A q \in Producers : sent'[q] = IF q = p THEN sent[q] + 1 ELSE sent[q]
    BY <1>1, <1>4 DEF TypeOK
  <2>6. items' \in [Slots -> Item \cup {NoItem}]
    <3>1. <<p, sent[p] + 1>> \in Item
      BY <1>1 DEF TypeOK, Item
    <3> QED
      BY <3>1, <2>1, <1>1, Zenon DEF TypeOK
  <2>7. TypeOK'
    BY <1>1, <2>1, <2>2, <2>3, <2>4, <2>5, <2>6, Zenon DEF TypeOK
  <2>8. InOrder'
    BY <1>1, <1>4, PutInOrder, Zenon
  <2>9. CountsOK'
    <3>1. taken' = taken /\ total' = total /\ CountsOK
      BY <1>1, Zenon DEF RingInv
    <3>2. \A q \in Producers : sent[q] \in Nat /\ total[q] \in Nat /\ taken[q] \in Nat
      BY <1>1 DEF TypeOK
    <3>3. /\ sent[p] < total[p]
          /\ \A q \in Producers : taken[q] <= sent[q] /\ sent[q] <= total[q]
      BY <1>1, <1>4, <3>1, Zenon DEF CountsOK
    <3>4. ASSUME NEW q \in Producers
          PROVE  taken'[q] <= sent'[q] /\ sent'[q] <= total'[q]
      <4>1. CASE q = p
        BY <3>1, <3>2, <3>3, <2>5, <4>1
      <4>2. CASE q # p
        BY <3>1, <3>3, <2>5, <4>2, Zenon
      <4> QED
        BY <4>1, <4>2, Zenon
    <3> QED
      BY <3>4, Zenon DEF CountsOK
  <2>10. SleepersQueued' /\ HasMore'
    BY <1>1, <2>1, <2>2, <2>5, QueuesAfterSend, Zenon DEF Inv, TypeOK
  <2>11. ReaderWoken'
    <3> SUFFICES ASSUME readWaiters # <<>> PROVE ~mustSignal'[Head(readWaiters)]
      BY <2>1, Zenon DEF ReaderWoken
    <3>1. Head(readWaiters) \in W /\ Head(readWaiters) \in Actors
      BY <1>1 DEF W, First, Actors, TypeOK
    <3> QED
      BY <3>1, <2>2, Zenon
  <2>12. WriterWoken'
    BY <1>1, <2>4 DEF WriterWoken, TypeOK
  <2> QED
    BY <2>4, <2>7, <2>8, <2>9, <2>10, <2>11, <2>12, Zenon DEF Inv, RingInv
<1> QED
  BY <1>2, <1>3, <1>4, Zenon DEF SendOutcome

\* The queue of readers after getItem(): left behind, or joined, by the
\* receiver, as its new place in the code says.
LEMMA QueuesAfterGet ==
  ASSUME SleepersQueued, HasMore, NEW c \in Consumers, c \notin Producers,
         pc \in [Actors -> {"ready", "asleep", "end"}],
         NEW r, \A b : In(r, b) <=> In(readWaiters, b) /\ b # c,
         NEW where, pc' = [pc EXCEPT ![c] = where],
         Once(readWaiters'),
         \A b : In(readWaiters', b) <=> In(r, b) \/ (b = c /\ where = "asleep"),
         writeWaiters' = writeWaiters, sent' = sent, total' = total,
         \A a \in Actors :
            mustSignal'[a] => (a # c /\ mustSignal[a]) \/ (a = c /\ where = "asleep")
  PROVE  SleepersQueued' /\ HasMore'
<1>1. /\ \A a \in Actors : pc'[a] = IF a = c THEN where ELSE pc[a]
      /\ c \in Actors
      /\ \A d \in Consumers : d \in Actors
      /\ \A q \in Producers : q \in Actors /\ q # c
  BY Zenon DEF Actors
<1>2. \A d \in Consumers : pc'[d] = "asleep" <=> In(readWaiters', d)
  BY <1>1, Zenon DEF SleepersQueued
<1>3. \A q \in Producers : pc'[q] = "asleep" <=> In(writeWaiters, q)
  BY <1>1, Zenon DEF SleepersQueued
<1>4. \A a \in Actors : mustSignal'[a] => pc'[a] = "asleep"
  BY <1>1, Zenon DEF SleepersQueued
<1>5. SleepersQueued'
  BY <1>2, <1>3, <1>4, Zenon DEF SleepersQueued
<1>6. HasMore'
  BY <1>1, Zenon DEF HasMore
<1> QED
  BY <1>5, <1>6, Zenon

\* getItem() preserves the invariant.
LEMMA GetStep ==
  ASSUME Inv, NEW c \in Consumers, ~mustSignal[c],
         NEW r \in Seq(Consumers), Once(r),
         \A b : In(r, b) <=> In(readWaiters, b) /\ b # c,
         GetBranch(c, r), UNCHANGED <<total, sent, stopping, rewinds>>
  PROVE  Inv'
<1> USE SidesAssumption, CapacityAssumption, BoundsAssumption
<1> USE DEF ringVars, flowVars, waitVars
<1>1. /\ c \in Actors /\ TypeOK /\ RingInv /\ c \notin Producers
      /\ \A p \in Producers : p \in Actors /\ p # c
      /\ SleepersQueued /\ HasMore /\ pc \in [Actors -> {"ready", "asleep", "end"}]
  BY Zenon DEF Inv, RingInv, TypeOK, Actors
<1>2. CASE GetStopped(c, r) /\ Go(c, "end") /\ UNCHANGED <<taken, toldEnd>>
  <2>1. /\ stop[c] /\ readWaiters' = r
        /\ UNCHANGED <<items, itemsHead, itemsTail, itemsCount, size, heartbeat, closed,
                       writeWaiters, mustSignal, stop, taken, toldEnd>>
        /\ pc' = [pc EXCEPT ![c] = "end"]
    BY <1>2, Zenon DEF GetStopped, Go
  <2>2. TypeOK'
    BY <1>1, <2>1, Zenon DEF TypeOK
  <2>3. RingOK' /\ InOrder' /\ CountsOK'
    BY <1>1, <2>1, RingUnchanged, Zenon DEF RingInv
  <2>4. SleepersQueued' /\ HasMore'
    <3>1. /\ Once(readWaiters')
          /\ \A b : In(readWaiters', b) <=> In(r, b) \/ (b = c /\ "end" = "asleep")
      BY <2>1, Zenon
    <3>2. \A a \in Actors :
             mustSignal'[a] => (a # c /\ mustSignal[a]) \/ (a = c /\ "end" = "asleep")
      BY <2>1, Zenon
    <3> QED
      BY <1>1, <2>1, <3>1, <3>2, QueuesAfterGet, Zenon
  <2>5. ReaderWoken' /\ WriterWoken'
    BY <1>1, <2>1, Zenon DEF ReaderWoken, WriterWoken
  <2> QED
    BY <2>2, <2>3, <2>4, <2>5, Zenon DEF Inv, RingInv
<1>3. CASE GetTakes(c, r) /\ Go(c, "ready") /\ CountTaken /\ UNCHANGED toldEnd
  <2> DEFINE W == First(writeWaiters) \cup (IF itemsCount - 1 > 0 THEN First(r) ELSE {})
  <2>1. /\ Signal(W, {}) /\ readWaiters' = r
        /\ UNCHANGED <<closed, writeWaiters, stop, toldEnd>>
        /\ items' = [items EXCEPT ![itemsTail] = NoItem]
        /\ size' = IF size > 0 THEN size - 1 ELSE size
        /\ heartbeat' = 0
        /\ pc' = [pc EXCEPT ![c] = "ready"]
    BY <1>3, Zenon DEF GetTakes, Go
  <2> HIDE DEF W
  <2>2. /\ mustSignal' \in [Actors -> BOOLEAN]
        /\ \A a \in Actors : mustSignal'[a] => mustSignal[a] /\ a \notin W
    BY <1>1, <2>1, SignalType, Zenon DEF TypeOK
  <2>3. /\ itemsCount > 0 /\ itemsCount' = itemsCount - 1 /\ itemsCount \in Nat
        /\ itemsTail' \in Slots /\ itemsHead' = itemsHead /\ RingOK'
    BY <1>1, <1>3, TakeQueued DEF TypeOK
  <2>4. /\ InOrder' /\ taken' \in [Producers -> 0 .. MaxItems]
        /\ \A q \in Producers : taken'[q] <= sent[q]
    BY <1>1, <1>3, TakeInOrder, Zenon
  <2>5. TypeOK'
    <3>1. /\ items' \in [Slots -> Item \cup {NoItem}]
          /\ itemsCount' \in 0 .. Capacity /\ size' \in Nat /\ heartbeat' \in 0 .. Threshold + 1
      BY <1>1, <2>1, <2>3 DEF TypeOK
    <3> QED
      BY <1>1, <2>1, <2>2, <2>3, <2>4, <3>1, Zenon DEF TypeOK
  <2>6. CountsOK'
    BY <1>1, <2>4, Zenon DEF RingInv, CountsOK
  <2>7. SleepersQueued' /\ HasMore'
    <3>1. /\ Once(readWaiters')
          /\ \A b : In(readWaiters', b) <=> In(r, b) \/ (b = c /\ "ready" = "asleep")
      BY <2>1, Zenon
    <3>2. \A a \in Actors :
             mustSignal'[a] => (a # c /\ mustSignal[a]) \/ (a = c /\ "ready" = "asleep")
      BY <2>2, Zenon
    <3> QED
      BY <1>1, <2>1, <3>1, <3>2, QueuesAfterGet, Zenon
  <2>8. ReaderWoken'
    <3> SUFFICES ASSUME r # <<>>, itemsCount - 1 > 0 PROVE ~mustSignal'[Head(r)]
      BY <2>1, <2>3, Zenon DEF ReaderWoken
    <3>1. Head(r) \in W /\ Head(r) \in Actors
      BY DEF W, First, Actors
    <3> QED
      BY <3>1, <2>2, Zenon
  <2>9. WriterWoken'
    <3> SUFFICES ASSUME writeWaiters # <<>> PROVE ~mustSignal'[Head(writeWaiters)]
      BY <2>1, Zenon DEF WriterWoken
    <3>1. Head(writeWaiters) \in W /\ Head(writeWaiters) \in Actors
      BY <1>1 DEF W, First, Actors, TypeOK
    <3> QED
      BY <3>1, <2>2, Zenon
  <2> QED
    BY <2>3, <2>4, <2>5, <2>6, <2>7, <2>8, <2>9, Zenon DEF Inv, RingInv
<1>4. CASE GetEnds(c, r) /\ Go(c, "end") /\ toldEnd' = toldEnd \cup {c} /\ UNCHANGED taken
  <2> DEFINE W == First(r) \cup First(writeWaiters)
  <2>1. /\ itemsCount = 0 /\ Signal(W, {}) /\ readWaiters' = r
        /\ UNCHANGED <<items, itemsHead, itemsTail, itemsCount, size, heartbeat, closed,
                       writeWaiters, stop, taken>>
        /\ toldEnd' = toldEnd \cup {c}
        /\ pc' = [pc EXCEPT ![c] = "end"]
    BY <1>4, Zenon DEF GetEnds, Go
  <2> HIDE DEF W
  <2>2. /\ mustSignal' \in [Actors -> BOOLEAN]
        /\ \A a \in Actors : mustSignal'[a] => mustSignal[a] /\ a \notin W
    BY <1>1, <2>1, SignalType, Zenon DEF TypeOK
  <2>3. TypeOK'
    BY <1>1, <2>1, <2>2, Zenon DEF TypeOK
  <2>4. RingOK' /\ InOrder' /\ CountsOK'
    BY <1>1, <2>1, RingUnchanged, Zenon DEF RingInv
  <2>5. SleepersQueued' /\ HasMore'
    <3>1. /\ Once(readWaiters')
          /\ \A b : In(readWaiters', b) <=> In(r, b) \/ (b = c /\ "end" = "asleep")
      BY <2>1, Zenon
    <3>2. \A a \in Actors :
             mustSignal'[a] => (a # c /\ mustSignal[a]) \/ (a = c /\ "end" = "asleep")
      BY <2>1, <2>2, Zenon
    <3> QED
      BY <1>1, <2>1, <3>1, <3>2, QueuesAfterGet, Zenon
  <2>6. ReaderWoken'
    BY <2>1 DEF ReaderWoken
  <2>7. WriterWoken'
    <3> SUFFICES ASSUME writeWaiters # <<>> PROVE ~mustSignal'[Head(writeWaiters)]
      BY <2>1, Zenon DEF WriterWoken
    <3>1. Head(writeWaiters) \in W /\ Head(writeWaiters) \in Actors
      BY <1>1 DEF W, First, Actors, TypeOK
    <3> QED
      BY <3>1, <2>2, Zenon
  <2> QED
    BY <2>3, <2>4, <2>5, <2>6, <2>7, Zenon DEF Inv, RingInv
<1>5. CASE GetWaits(c, r) /\ Go(c, "asleep") /\ UNCHANGED <<taken, toldEnd>>
  <2> DEFINE W == First(writeWaiters)
  <2>1. /\ itemsCount = 0 /\ Signal(W, {c}) /\ readWaiters' = Append(r, c)
        /\ UNCHANGED <<items, itemsHead, itemsTail, itemsCount, size, heartbeat, closed,
                       writeWaiters, stop, taken, toldEnd>>
        /\ pc' = [pc EXCEPT ![c] = "asleep"]
    BY <1>5, Zenon DEF GetWaits, Go
  <2> HIDE DEF W
  <2>2. /\ mustSignal' \in [Actors -> BOOLEAN]
        /\ \A a \in Actors : mustSignal'[a] => a = c \/ (mustSignal[a] /\ a \notin W)
    BY <1>1, <2>1, SignalType DEF TypeOK
  <2>3. /\ readWaiters' \in Seq(Consumers) /\ Once(readWaiters')
        /\ \A b : In(readWaiters', b) <=> In(r, b) \/ b = c
    <3>1. ~In(r, c) /\ c \in Consumers /\ r \in Seq(Consumers) /\ Once(r)
      OBVIOUS
    <3> QED
      BY <2>1, <3>1, AppendProps
  <2>4. TypeOK'
    BY <1>1, <2>1, <2>2, <2>3, Zenon DEF TypeOK
  <2>5. RingOK' /\ InOrder' /\ CountsOK'
    BY <1>1, <2>1, RingUnchanged, Zenon DEF RingInv
  <2>6. SleepersQueued' /\ HasMore'
    <3>1. /\ Once(readWaiters')
          /\ \A b : In(readWaiters', b) <=> In(r, b) \/ (b = c /\ "asleep" = "asleep")
      BY <2>3, Zenon
    <3>2. \A a \in Actors :
             mustSignal'[a] => (a # c /\ mustSignal[a]) \/ (a = c /\ "asleep" = "asleep")
      BY <2>2, Zenon
    <3> QED
      BY <1>1, <2>1, <3>1, <3>2, QueuesAfterGet, Zenon
  <2>7. ReaderWoken'
    BY <2>1 DEF ReaderWoken
  <2>8. WriterWoken'
    <3> SUFFICES ASSUME writeWaiters # <<>> PROVE ~mustSignal'[Head(writeWaiters)]
      BY <2>1, Zenon DEF WriterWoken
    <3>1. /\ Head(writeWaiters) \in W /\ Head(writeWaiters) \in Actors
          /\ Head(writeWaiters) # c
      BY <1>1 DEF W, First, Actors, TypeOK
    <3> QED
      BY <3>1, <2>2, Zenon
  <2> QED
    BY <2>4, <2>5, <2>6, <2>7, <2>8, Zenon DEF Inv, RingInv
<1> QED
  BY <1>2, <1>3, <1>4, <1>5, Zenon DEF GetBranch

----------------------------------------------------------------------------
(* Every step.                                                             *)

LEMMA InvInit == Init => Inv
<1> SUFFICES ASSUME Init PROVE Inv
  OBVIOUS
<1> USE CapacityAssumption, BoundsAssumption DEF Init
<1>1. TypeOK
  <2>1. 0 \in Slots /\ 0 \in 0 .. Capacity /\ 0 \in 0 .. Threshold + 1
        /\ 0 \in 0 .. MaxItems /\ 0 \in 0 .. MaxRewinds /\ 0 \in Nat
    BY DEF Slots
  <2>2. items \in [Slots -> Item \cup {NoItem}] /\ pc \in [Actors -> {"ready", "asleep", "end"}]
    OBVIOUS
  <2>3. stop \in [Actors -> BOOLEAN] /\ mustSignal \in [Actors -> BOOLEAN]
    OBVIOUS
  <2>4. /\ total \in [Producers -> 0 .. MaxItems] /\ sent \in [Producers -> 0 .. MaxItems]
        /\ taken \in [Producers -> 0 .. MaxItems]
    BY <2>1, Zenon
  <2>5. readWaiters \in Seq(Consumers) /\ writeWaiters \in Seq(Producers)
    OBVIOUS
  <2> QED
    BY <2>1, <2>2, <2>3, <2>4, <2>5, Zenon DEF TypeOK
<1>2. RingOK
  BY DEF RingOK, Wrap
<1>3. InOrder /\ CountsOK
  BY DEF InOrder, CountsOK, Queued
<1>4. SleepersQueued /\ HasMore
  BY DEF SleepersQueued, HasMore, Actors, In, Once
<1>5. ReaderWoken /\ WriterWoken
  BY Zenon DEF ReaderWoken, WriterWoken
<1> QED
  BY <1>1, <1>2, <1>3, <1>4, <1>5, Zenon DEF Inv, RingInv

\* An operator that is not queued finds the queue without itself in it.
LEMMA SendCase ==
  ASSUME Inv, NEW p \in Producers, Send(p) \/ SendAgain(p)
  PROVE  \E w \in Seq(Producers), sz \in Nat :
           /\ Once(w) /\ \A b : In(w, b) <=> In(writeWaiters, b) /\ b # p
           /\ ~mustSignal[p] /\ sent[p] < total[p]
           /\ SendOutcome(p, w, sz)
           /\ UNCHANGED <<total, stopping, rewinds, taken, toldEnd>>
<1>1. /\ SleepersQueued /\ HasMore /\ p \in Actors /\ size \in Nat
      /\ writeWaiters \in Seq(Producers) /\ Once(writeWaiters)
      /\ pc \in [Actors -> {"ready", "asleep", "end"}]
  BY Zenon DEF Inv, RingInv, TypeOK, SleepersQueued, Actors
<1>2. CASE Send(p)
  <2> DEFINE sz == IF Quota > 0 THEN size + 1 ELSE size
  <2>1. pc[p] = "ready" /\ sent[p] < total[p] /\ UNCHANGED <<total, stopping, rewinds, taken, toldEnd>>
    BY <1>2, Zenon DEF Send
  <2>2. /\ ~In(writeWaiters, p) /\ ~mustSignal[p]
        /\ \A b : In(writeWaiters, b) <=> In(writeWaiters, b) /\ b # p
    BY <1>1, <2>1, Zenon DEF SleepersQueued
  <2>3. SendOutcome(p, writeWaiters, sz)
    <3>1. pc' = pc => Go(p, "ready")
      BY <1>1, <2>1, Zenon DEF Go
    <3> QED
      BY <1>2, <3>1, Zenon DEF Send, SendOutcome
  <2>4. sz \in Nat
    BY <1>1
  <2> HIDE DEF sz
  <2> QED
    BY <1>1, <2>1, <2>2, <2>3, <2>4, Zenon
<1>3. CASE SendAgain(p)
  <2>1. pc[p] = "asleep" /\ ~mustSignal[p] /\ UNCHANGED <<total, stopping, rewinds, taken, toldEnd>>
    BY <1>3, Zenon DEF SendAgain
  <2>2. In(writeWaiters, p) /\ sent[p] < total[p]
    BY <1>1, <2>1, Zenon DEF SleepersQueued, HasMore
  <2> DEFINE w == Without(writeWaiters, p)
  <2>3. w \in Seq(Producers) /\ Once(w) /\ \A b : In(w, b) <=> In(writeWaiters, b) /\ b # p
    BY <1>1, <2>2, WithoutProps, Zenon
  <2>4. SendOutcome(p, w, size)
    <3>1. pc' = pc => Go(p, "asleep")
      BY <1>1, <2>1, Zenon DEF Go
    <3> QED
      BY <1>3, <3>1, Zenon DEF SendAgain, SendOutcome
  <2> HIDE DEF w
  <2> QED
    BY <1>1, <2>1, <2>2, <2>3, <2>4, Zenon
<1> QED
  BY <1>2, <1>3, Zenon

LEMMA GetCase ==
  ASSUME Inv, NEW c \in Consumers, ConsumerStep(c)
  PROVE  \E r \in Seq(Consumers) :
           /\ Once(r) /\ \A b : In(r, b) <=> In(readWaiters, b) /\ b # c
           /\ ~mustSignal[c]
           /\ GetBranch(c, r)
           /\ UNCHANGED <<total, sent, stopping, rewinds>>
<1>1. /\ SleepersQueued /\ c \in Actors
      /\ readWaiters \in Seq(Consumers) /\ Once(readWaiters)
  BY Zenon DEF Inv, RingInv, TypeOK, SleepersQueued, Actors
<1>2. CASE Get(c)
  <2>1. /\ pc[c] = "ready" /\ GetBranch(c, readWaiters)
        /\ UNCHANGED <<total, sent, stopping, rewinds>>
    BY <1>2, Zenon DEF Get
  <2>2. /\ ~In(readWaiters, c) /\ ~mustSignal[c]
        /\ \A b : In(readWaiters, b) <=> In(readWaiters, b) /\ b # c
    BY <1>1, <2>1, Zenon DEF SleepersQueued
  <2> QED
    BY <1>1, <2>1, <2>2, Zenon
<1>3. CASE GetAgain(c)
  <2> DEFINE r == Without(readWaiters, c)
  <2>1. /\ pc[c] = "asleep" /\ ~mustSignal[c] /\ GetBranch(c, r)
        /\ UNCHANGED <<total, sent, stopping, rewinds>>
    BY <1>3, Zenon DEF GetAgain
  <2>2. In(readWaiters, c)
    BY <1>1, <2>1, Zenon DEF SleepersQueued
  <2>3. r \in Seq(Consumers) /\ Once(r) /\ \A b : In(r, b) <=> In(readWaiters, b) /\ b # c
    BY <1>1, <2>2, WithoutProps, Zenon
  <2> HIDE DEF r
  <2> QED
    BY <2>1, <2>2, <2>3, Zenon
<1> QED
  BY <1>2, <1>3, Zenon DEF ConsumerStep

LEMMA InvUnchanged ==
  ASSUME Inv, UNCHANGED <<exchVars, pc, total, sent, rewinds, taken, toldEnd>>,
         stopping' \in BOOLEAN
  PROVE  Inv'
<1> USE DEF ringVars, flowVars, waitVars, exchVars
<1>1. TypeOK'
  BY Zenon DEF Inv, RingInv, TypeOK
<1>2. RingOK' /\ InOrder' /\ CountsOK'
  BY RingUnchanged, Zenon DEF Inv, RingInv
<1>3. SleepersQueued' /\ HasMore'
  BY DEF Inv, SleepersQueued, HasMore, In, Once
<1>4. ReaderWoken' /\ WriterWoken'
  BY Zenon DEF Inv, ReaderWoken, WriterWoken
<1> QED
  BY <1>1, <1>2, <1>3, <1>4, Zenon DEF Inv, RingInv

\* The steps that touch neither the ring nor the queues.
LEMMA OtherStep ==
  ASSUME Inv,
         \/ \E p \in Producers : SendDone(p)
         \/ \E c \in Consumers : GetFails(c)
         \/ \E a \in Actors : SendStop(a)
         \/ Close \/ RequestStop
  PROVE  Inv'
<1> USE DEF ringVars, flowVars, waitVars, exchVars
<1>1. /\ TypeOK /\ RingInv /\ SleepersQueued /\ HasMore /\ ReaderWoken /\ WriterWoken
      /\ \A p \in Producers : p \in Actors
      /\ \A c \in Consumers : c \in Actors
  BY Zenon DEF Inv, RingInv, Actors
<1>2. ASSUME NEW a \in Actors, pc[a] = "ready", Go(a, "end"), stopping' \in BOOLEAN,
             UNCHANGED <<exchVars, total, sent, rewinds, taken, toldEnd>>
      PROVE  Inv'
  <2>1. \A b \in Actors : (pc'[b] = "asleep") <=> (pc[b] = "asleep")
    BY <1>1, <1>2, Zenon DEF Go, TypeOK
  <2>2. TypeOK'
    BY <1>1, <1>2, Zenon DEF TypeOK, Go
  <2>3. RingOK' /\ InOrder' /\ CountsOK'
    BY <1>1, <1>2, RingUnchanged, Zenon DEF RingInv
  <2>4. SleepersQueued' /\ HasMore'
    <3>1. /\ readWaiters' = readWaiters /\ writeWaiters' = writeWaiters
          /\ mustSignal' = mustSignal /\ sent' = sent /\ total' = total
      BY <1>2, Zenon
    <3>2. SleepersQueued'
      BY <1>1, <2>1, <3>1, Zenon DEF SleepersQueued, In, Once
    <3>3. HasMore'
      BY <1>1, <2>1, <3>1, Zenon DEF HasMore
    <3> QED
      BY <3>2, <3>3, Zenon
  <2>5. ReaderWoken' /\ WriterWoken'
    BY <1>1, <1>2, Zenon DEF ReaderWoken, WriterWoken
  <2> QED
    BY <2>2, <2>3, <2>4, <2>5, Zenon DEF Inv, RingInv
<1>3. ASSUME NEW W, Signal(W, {}), NEW st, stop' = st, st \in [Actors -> BOOLEAN],
             \A a \in Actors : stop[a] => st[a],
             closed' \in BOOLEAN, stopping' \in BOOLEAN,
             UNCHANGED <<ringVars, flowVars, readWaiters, writeWaiters, pc, total, sent,
                         rewinds, taken, toldEnd>>
      PROVE  Inv'
  <2>1. /\ mustSignal' \in [Actors -> BOOLEAN]
        /\ \A a \in Actors : mustSignal'[a] => mustSignal[a]
    <3>1. mustSignal \in [Actors -> BOOLEAN] /\ Signal(W, {})
      BY <1>1, <1>3, Zenon DEF TypeOK
    <3> QED
      BY <3>1, SignalType
  <2>2. TypeOK'
    BY <1>1, <1>3, <2>1, Zenon DEF TypeOK
  <2>3. RingOK' /\ InOrder' /\ CountsOK'
    BY <1>1, <1>3, RingUnchanged, Zenon DEF RingInv
  <2>4. SleepersQueued' /\ HasMore'
    BY <1>1, <1>3, <2>1, Zenon DEF SleepersQueued, HasMore, In, Once
  <2>5. ReaderWoken' /\ WriterWoken'
    <3>1. \A a \in Actors : ~stop'[a] => ~stop[a]
      BY <1>3, Zenon
    <3>2. /\ readWaiters # <<>> => Head(readWaiters) \in Actors
          /\ writeWaiters # <<>> => Head(writeWaiters) \in Actors
      BY <1>1 DEF TypeOK, Actors
    <3>3. ReaderWoken'
      BY <1>1, <1>3, <2>1, <3>1, <3>2, Zenon DEF ReaderWoken
    <3>4. WriterWoken'
      BY <1>1, <1>3, <2>1, <3>1, <3>2, Zenon DEF WriterWoken
    <3> QED
      BY <3>3, <3>4, Zenon
  <2> QED
    BY <2>2, <2>3, <2>4, <2>5, Zenon DEF Inv, RingInv
<1>4. CASE \E p \in Producers : SendDone(p)
  BY <1>1, <1>2, <1>4, Zenon DEF SendDone, TypeOK
<1>5. CASE \E c \in Consumers : GetFails(c)
  BY <1>1, <1>2, <1>5, Zenon DEF GetFails
<1>6. ASSUME NEW a \in Actors, SendStop(a)
      PROVE  Inv'
  <2>1. /\ [stop EXCEPT ![a] = TRUE] \in [Actors -> BOOLEAN]
        /\ \A b \in Actors : stop[b] => [stop EXCEPT ![a] = TRUE][b]
        /\ closed' \in BOOLEAN /\ stopping' \in BOOLEAN
    BY <1>1, <1>6, Zenon DEF TypeOK, SendStop
  <2> QED
    BY <1>3, <1>6, <2>1, Zenon DEF SendStop
<1>7. CASE Close
  BY <1>1, <1>3, <1>7, Zenon DEF Close, TypeOK
<1>8. CASE RequestStop
  BY <1>8, InvUnchanged, Zenon DEF RequestStop
<1> QED
  BY <1>4, <1>5, <1>6, <1>7, <1>8, Zenon

\* Between two runs nobody sleeps, so reset() finds both queues empty.
LEMMA QueuesEmpty ==
  ASSUME Inv, Reset
  PROVE  readWaiters = <<>> /\ writeWaiters = <<>>
<1>1. /\ TypeOK /\ SleepersQueued /\ \A a \in Actors : pc[a] = "end"
      /\ readWaiters \in Seq(Consumers) /\ writeWaiters \in Seq(Producers)
  BY Zenon DEF Inv, RingInv, Reset, TypeOK
<1>2. \A b : ~In(readWaiters, b) /\ ~In(writeWaiters, b)
  <2>1. /\ \A i \in 1 .. Len(readWaiters) : readWaiters[i] \in Consumers
        /\ \A i \in 1 .. Len(writeWaiters) : writeWaiters[i] \in Producers
    BY <1>1
  <2>2. /\ \A c \in Consumers : ~In(readWaiters, c)
        /\ \A p \in Producers : ~In(writeWaiters, p)
    BY <1>1, Zenon DEF SleepersQueued, Actors
  <2> QED
    BY <2>1, <2>2, Zenon DEF In
<1>3. ASSUME NEW S, NEW q \in Seq(S), \A b : ~In(q, b) PROVE q = <<>>
  <2>1. Len(q) \in Nat /\ (Len(q) >= 1 => In(q, q[1]))
    BY <1>3 DEF In
  <2> QED
    BY <1>3, <2>1
<1> QED
  BY <1>1, <1>2, <1>3, Zenon

LEMMA ResetStep ==
  ASSUME Inv, Reset
  PROVE  Inv'
<1> USE CapacityAssumption, BoundsAssumption DEF waitVars
<1>1. /\ TypeOK /\ SleepersQueued /\ \A a \in Actors : pc[a] = "end"
      /\ readWaiters \in Seq(Consumers) /\ writeWaiters \in Seq(Producers)
  BY Zenon DEF Inv, RingInv, Reset, TypeOK
<1>3. readWaiters = <<>> /\ writeWaiters = <<>>
  BY QueuesEmpty, Zenon
<1>4. TypeOK'
  <2>1. 0 \in Slots /\ 0 \in 0 .. Capacity /\ 0 \in 0 .. Threshold + 1
        /\ 0 \in 0 .. MaxItems /\ rewinds' \in 0 .. MaxRewinds /\ 0 \in Nat
    BY <1>1 DEF Slots, Reset, TypeOK
  <2>2. items' \in [Slots -> Item \cup {NoItem}] /\ pc' \in [Actors -> {"ready", "asleep", "end"}]
    BY Zenon DEF Reset
  <2>3. stop' \in [Actors -> BOOLEAN] /\ mustSignal' \in [Actors -> BOOLEAN]
    BY <1>1, Zenon DEF Reset, TypeOK
  <2>4. /\ total' \in [Producers -> 0 .. MaxItems] /\ sent' \in [Producers -> 0 .. MaxItems]
        /\ taken' \in [Producers -> 0 .. MaxItems]
    BY <2>1, Zenon DEF Reset
  <2>5. readWaiters' \in Seq(Consumers) /\ writeWaiters' \in Seq(Producers)
    BY <1>1, Zenon DEF Reset
  <2>6. /\ itemsHead' \in Slots /\ itemsTail' \in Slots /\ itemsCount' \in 0 .. Capacity
        /\ size' \in Nat /\ heartbeat' \in 0 .. Threshold + 1 /\ closed' \in BOOLEAN
        /\ stopping' \in BOOLEAN /\ toldEnd' \subseteq Consumers
    BY <2>1, Zenon DEF Reset
  <2> QED
    BY <2>1, <2>2, <2>3, <2>4, <2>5, <2>6, Zenon DEF TypeOK
<1>5. RingOK'
  BY DEF Reset, RingOK, Wrap
<1>6. InOrder' /\ CountsOK'
  <2>1. /\ itemsCount' = 0 /\ total' \in [Producers -> 0 .. MaxItems]
        /\ \A p \in Producers : sent'[p] = 0 /\ taken'[p] = 0
    BY Zenon DEF Reset
  <2>2. \A p \in Producers : total'[p] \in Nat
    BY <2>1
  <2>3. CountsOK'
    BY <2>1, <2>2 DEF CountsOK
  <2>4. InOrder'
    BY <2>1 DEF InOrder
  <2> QED
    BY <2>3, <2>4, Zenon
<1>7. SleepersQueued' /\ HasMore'
  <2>1. /\ readWaiters' = <<>> /\ writeWaiters' = <<>> /\ mustSignal' = mustSignal
        /\ \A a \in Actors : pc'[a] = "ready" /\ ~mustSignal[a]
    BY <1>1, <1>3, Zenon DEF Reset, SleepersQueued
  <2>2. \A b : ~In(readWaiters', b) /\ ~In(writeWaiters', b)
    BY <2>1 DEF In
  <2>3. Once(readWaiters') /\ Once(writeWaiters')
    BY <2>1 DEF Once
  <2> QED
    BY <2>1, <2>2, <2>3, Zenon DEF SleepersQueued, HasMore, Actors
<1>8. ReaderWoken' /\ WriterWoken'
  BY <1>3, Zenon DEF Reset, ReaderWoken, WriterWoken
<1> QED
  BY <1>4, <1>5, <1>6, <1>7, <1>8, Zenon DEF Inv, RingInv

LEMMA InvStep == Inv /\ [Next]_vars => Inv'
<1> SUFFICES ASSUME Inv, [Next]_vars PROVE Inv'
  OBVIOUS
<1>1. ASSUME NEW p \in Producers, Send(p) \/ SendAgain(p) PROVE Inv'
  BY <1>1, SendCase, SendStep, Zenon
<1>2. ASSUME NEW c \in Consumers, ConsumerStep(c) PROVE Inv'
  BY <1>2, GetCase, GetStep, Zenon
<1>3. CASE UNCHANGED vars
  BY <1>3, InvUnchanged, Zenon DEF vars, Inv, RingInv, TypeOK
<1> QED
  BY <1>1, <1>2, <1>3, OtherStep, ResetStep, Zenon DEF Next, ProducerStep

LEMMA Invariance == Spec => []Inv
BY InvInit, InvStep, PTL DEF Spec

\* Type correctness of the exchange, for any number of producers and consumers
\* and any capacity, throttling threshold and quota.
THEOREM TypeCorrect == Spec => []TypeOK
<1>1. Inv => TypeOK
  BY Zenon DEF Inv, RingInv
<1> QED
  BY <1>1, Invariance, PTL

\* The ring holds exactly what was sent and not taken, in the order of sending:
\* sendItem() and getItem() lose, duplicate and reorder nothing.
THEOREM KeepsOrder == Spec => []InOrder
<1>1. Inv => InOrder
  BY Zenon DEF Inv, RingInv
<1> QED
  BY <1>1, Invariance, PTL

\* An operator is linked in a queue of waiters, once, exactly while it sleeps,
\* in whatever order enqueue() links and unlinks them.
THEOREM QueuesExact == Spec => []SleepersQueued
<1>1. Inv => SleepersQueued
  BY Zenon DEF Inv
<1> QED
  BY <1>1, Invariance, PTL

\* No wake-up is lost while nobody is stopped, although signal() only ever
\* wakes the first of each queue.
THEOREM WakesUp == Spec => []FirstWoken
<1>1. Inv => FirstWoken
  BY Zenon DEF Inv, FirstWoken
<1> QED
  BY <1>1, Invariance, PTL

----------------------------------------------------------------------------
(* The size charged against the quota.                                     *)

\* Every sleeping producer's value is charged as well as the queued ones.
SleepersCharged == Quota > 0 => size >= itemsCount + Len(writeWaiters)

LEMMA ChargedStep == Inv /\ SleepersCharged /\ [Next]_vars => SleepersCharged'
<1> SUFFICES ASSUME Inv, SleepersCharged, [Next]_vars, Quota > 0
             PROVE  size' >= itemsCount' + Len(writeWaiters')
  BY Zenon DEF SleepersCharged
<1> USE CapacityAssumption, BoundsAssumption
<1>1. /\ size \in Nat /\ itemsCount \in Nat /\ size >= itemsCount + Len(writeWaiters)
      /\ writeWaiters \in Seq(Producers) /\ Len(writeWaiters) \in Nat
      /\ SleepersQueued
  BY DEF SleepersCharged, Inv, RingInv, TypeOK
<1>2. ASSUME NEW p \in Producers, NEW w \in Seq(Producers), NEW sz \in Nat,
             SendOutcome(p, w, sz), sz >= itemsCount + Len(w) + 1
      PROVE  size' >= itemsCount' + Len(writeWaiters')
  <2>1. CASE SendRefused(p, w, sz)
    BY <1>1, <1>2, <2>1 DEF SendRefused, ringVars
  <2>2. CASE SendWaits(p, w, sz)
    <3>1. Len(Append(w, p)) = Len(w) + 1
      OBVIOUS
    <3> QED
      BY <1>1, <1>2, <2>2, <3>1 DEF SendWaits, ringVars
  <2>3. CASE SendPuts(p, <<p, sent[p] + 1>>, w, sz)
    BY <1>1, <1>2, <2>3 DEF SendPuts
  <2> QED
    BY <1>2, <2>1, <2>2, <2>3, Zenon DEF SendOutcome
<1>3. ASSUME NEW p \in Producers, Send(p) PROVE size' >= itemsCount' + Len(writeWaiters')
  <2>1. SendOutcome(p, writeWaiters, size + 1)
    <3>1. pc[p] = "ready" /\ pc \in [Actors -> {"ready", "asleep", "end"}]
      BY <1>3, Zenon DEF Send, Inv, RingInv, TypeOK
    <3>2. pc' = pc => Go(p, "ready")
      BY <3>1, Zenon DEF Go
    <3> QED
      BY <1>3, <3>2, Zenon DEF Send, SendOutcome
  <2>2. size + 1 \in Nat /\ size + 1 >= itemsCount + Len(writeWaiters) + 1
    BY <1>1
  <2> QED
    BY <1>1, <1>2, <2>1, <2>2, Zenon
<1>4. ASSUME NEW p \in Producers, SendAgain(p) PROVE size' >= itemsCount' + Len(writeWaiters')
  <2>1. In(writeWaiters, p) /\ Once(writeWaiters)
    BY <1>1, <1>4, Zenon DEF SendAgain, SleepersQueued
  <2> DEFINE w == Without(writeWaiters, p)
  <2>2. w \in Seq(Producers) /\ Len(w) = Len(writeWaiters) - 1
    BY <1>1, <2>1, WithoutProps, Zenon
  <2>3. SendOutcome(p, w, size)
    <3>1. pc[p] = "asleep" /\ pc \in [Actors -> {"ready", "asleep", "end"}]
      BY <1>4, Zenon DEF SendAgain, Inv, RingInv, TypeOK
    <3>2. pc' = pc => Go(p, "asleep")
      BY <3>1, Zenon DEF Go
    <3> QED
      BY <1>4, <3>2, Zenon DEF SendAgain, SendOutcome
  <2> HIDE DEF w
  <2> QED
    BY <1>1, <1>2, <2>2, <2>3
<1>5. ASSUME NEW c \in Consumers, ConsumerStep(c) PROVE size' >= itemsCount' + Len(writeWaiters')
  <2>1. PICK r : GetBranch(c, r)
    BY <1>5, Zenon DEF ConsumerStep, Get, GetAgain
  <2> QED
    BY <1>1, <2>1 DEF GetBranch, GetStopped, GetTakes, GetEnds, GetWaits, ringVars, flowVars
<1>6. CASE Reset
  <2>1. size' = 0 /\ itemsCount' = 0 /\ writeWaiters' = <<>>
    BY <1>6, QueuesEmpty, Zenon DEF Reset, waitVars
  <2> QED
    BY <2>1
<1>7. CASE UNCHANGED <<itemsCount, size, writeWaiters>>
  BY <1>1, <1>7, Zenon
<1> USE DEF vars, exchVars, ringVars, flowVars, waitVars
<1>8. ASSUME NEW a \in Actors, GetFails(a) \/ SendStop(a) \/ SendDone(a)
      PROVE  UNCHANGED <<itemsCount, size, writeWaiters>>
  BY <1>8, Zenon DEF GetFails, SendStop, SendDone
<1>9. ASSUME Close \/ RequestStop \/ UNCHANGED vars PROVE UNCHANGED <<itemsCount, size, writeWaiters>>
  BY <1>9, Zenon DEF Close, RequestStop
<1> QED
  BY <1>3, <1>4, <1>5, <1>6, <1>7, <1>8, <1>9, Zenon DEF Next, ProducerStep, Actors

\* With a quota, what sendItem() charged for the values in the ring is always
\* still charged, so getItem() never subtracts more than there is.
THEOREM SizeSuffices == Spec => []SizeCovers
<1>1. Init => SleepersCharged
  BY DEF Init, SleepersCharged
<1>2. Inv /\ SleepersCharged => SizeCovers
  <2> SUFFICES ASSUME Inv, SleepersCharged PROVE SizeCovers
    OBVIOUS
  <2>1. size \in Nat /\ itemsCount \in Nat /\ Len(writeWaiters) \in Nat
    BY CapacityAssumption DEF Inv, RingInv, TypeOK
  <2> QED
    BY <2>1 DEF SleepersCharged, SizeCovers
<1> QED
  BY <1>1, <1>2, Invariance, ChargedStep, PTL DEF Spec

----------------------------------------------------------------------------
(* The refinement of BoundedChannel: what the ring holds, from the tail on, *)
(* is the channel's buffer.                                                *)

Held == [i \in 1 .. itemsCount |-> Queued(i - 1)]

LEMMA HeldSeq ==
  ASSUME Inv
  PROVE  Held \in Seq(Item) /\ Len(Held) = itemsCount /\ (Held = <<>> <=> itemsCount = 0)
<1>1. itemsCount \in Nat /\ RingInv
  BY CapacityAssumption DEF Inv, RingInv, TypeOK
<1>2. \A i \in 1 .. itemsCount : Queued(i - 1) \in Item
  BY <1>1, QueuedItem
<1> QED
  BY <1>1, <1>2 DEF Held

LEMMA PutIsPut ==
  ASSUME Inv, NEW p \in Producers, sent[p] < total[p], NEW w, NEW sz,
         SendPuts(p, <<p, sent[p] + 1>>, w, sz), toldEnd' = toldEnd
  PROVE  Channel!Put
<1> DEFINE v == <<p, sent[p] + 1>>
<1>1. /\ RingInv /\ itemsCount \in Nat /\ v \in Item /\ ~closed /\ closed' = closed
      /\ itemsCount < Capacity
  <2>1. /\ RingInv /\ itemsCount \in 0 .. Capacity /\ Capacity \in Nat \ {0} /\ MaxItems \in Nat
        /\ sent[p] \in 0 .. MaxItems /\ total[p] \in 0 .. MaxItems
    BY CapacityAssumption, BoundsAssumption, Zenon DEF Inv, RingInv, TypeOK
  <2>2. v \in Item
    BY <2>1 DEF Item
  <2>3. ~closed /\ closed' = closed /\ (itemsCount > 0 => ~(itemsCount >= Capacity))
    BY Zenon DEF SendPuts, Full
  <2> QED
    BY <2>1, <2>2, <2>3
<1> HIDE DEF v
<1>2. /\ itemsCount' = itemsCount + 1
      /\ \A i \in 0 .. itemsCount - 1 : Queued(i)' = Queued(i)
      /\ \A i \in Nat : i = itemsCount => Queued(i)' = v
  BY <1>1, PutQueued, Zenon DEF v
<1>3. Held' = Append(Held, v)
  <2>1. Held' = [i \in 1 .. itemsCount + 1 |-> Queued(i - 1)']
    BY <1>2, Zenon DEF Held
  <2>2. \A i \in 1 .. itemsCount + 1 :
           Queued(i - 1)' = IF i <= itemsCount THEN Queued(i - 1) ELSE v
    BY <1>1, <1>2
  <2>3. Held \in Seq(Item) /\ Len(Held) = itemsCount
    BY HeldSeq, Zenon
  <2>4. \A i \in 1 .. itemsCount : Held[i] = Queued(i - 1) /\ Queued(i - 1) \in Item
    BY <1>1, QueuedItem DEF Held
  <2>5. /\ Append(Held, v) \in Seq(Item) /\ Len(Append(Held, v)) = itemsCount + 1
        /\ \A i \in 1 .. itemsCount : Append(Held, v)[i] = Held[i]
        /\ Append(Held, v)[itemsCount + 1] = v
    BY <1>1, <2>3, AppendProperties
  <2>6. Held' \in Seq(Item) /\ Len(Held') = itemsCount + 1
    <3>1. Held' \in [1 .. itemsCount + 1 -> Item]
      <4>1. \A i \in 1 .. itemsCount + 1 : Queued(i - 1)' \in Item
        <5> TAKE i \in 1 .. itemsCount + 1
        <5>1. i <= itemsCount => i \in 1 .. itemsCount
          BY <1>1
        <5> QED
          BY <1>1, <2>2, <2>4, <5>1, Zenon
      <4> QED
        BY <2>1, <4>1, Zenon
    <3> QED
      BY <1>1, <3>1
  <2>7. \A i \in 1 .. itemsCount + 1 : Held'[i] = Append(Held, v)[i]
    <3> TAKE i \in 1 .. itemsCount + 1
    <3>1. Held'[i] = Queued(i - 1)'
      BY <2>1, Zenon
    <3>2. CASE i = itemsCount + 1
      BY <1>1, <2>2, <2>5, <3>1, <3>2
    <3>3. CASE i # itemsCount + 1
      <4>1. i \in 1 .. itemsCount
        BY <1>1, <3>3
      <4>2. Queued(i - 1)' = Queued(i - 1)
        BY <1>1, <2>2, <4>1
      <4>3. Append(Held, v)[i] = Queued(i - 1)
        BY <2>4, <2>5, <4>1, Zenon
      <4> QED
        BY <3>1, <4>2, <4>3, Zenon
    <3> QED
      BY <3>2, <3>3, Zenon
  <2> QED
    BY <2>5, <2>6, <2>7, SeqEqual, Zenon
<1> QED
  BY <1>1, <1>3, HeldSeq, Zenon DEF Channel!Put, Held

LEMMA TakeIsTake ==
  ASSUME Inv, NEW c, NEW r, GetTakes(c, r), toldEnd' = toldEnd
  PROVE  Channel!Take
<1>1. /\ RingInv /\ itemsCount \in Nat /\ closed' = closed
  BY DEF Inv, RingInv, TypeOK, GetTakes
<1>2. /\ itemsCount > 0 /\ itemsCount' = itemsCount - 1
      /\ \A i \in 0 .. itemsCount - 2 : Queued(i)' = Queued(i + 1)
  BY <1>1, TakeQueued, Zenon
<1>3. Held' = Tail(Held)
  <2>1. Held' = [i \in 1 .. itemsCount - 1 |-> Queued(i - 1)']
    BY <1>2, Zenon DEF Held
  <2>2. \A i \in 1 .. itemsCount - 1 : Queued(i - 1)' = Queued(i)
    BY <1>1, <1>2
  <2>3. Held \in Seq(Item) /\ Len(Held) = itemsCount
    BY HeldSeq, Zenon
  <2>4. \A i \in 1 .. itemsCount - 1 : Held[i + 1] = Queued(i) /\ Queued(i) \in Item
    BY <1>1, QueuedItem DEF Held
  <2>5. Held # <<>>
    BY <1>2, <2>3
  <2>6. /\ Tail(Held) \in Seq(Item) /\ Len(Tail(Held)) = itemsCount - 1
        /\ \A i \in 1 .. itemsCount - 1 : Tail(Held)[i] = Held[i + 1]
    BY <2>3, <2>5, HeadTailProperties, Zenon
  <2>7. Held' \in Seq(Item) /\ Len(Held') = itemsCount - 1
    <3>1. Held' \in [1 .. itemsCount - 1 -> Item] /\ itemsCount - 1 \in Nat
      BY <1>1, <1>2, <2>1, <2>2, <2>4
    <3> QED
      BY <3>1
  <2>8. \A i \in 1 .. itemsCount - 1 : Held'[i] = Tail(Held)[i]
    BY <2>1, <2>2, <2>4, <2>6, Zenon
  <2> QED
    BY <2>6, <2>7, <2>8, SeqEqual, Zenon
<1> QED
  BY <1>1, <1>2, <1>3, HeldSeq DEF Channel!Take, Held

LEMMA ChannelStep ==
  Inv /\ [Next]_vars => [Channel!Next]_<<Held, closed, toldEnd>>
<1> SUFFICES ASSUME Inv, [Next]_vars
             PROVE  Channel!Next \/ UNCHANGED <<Held, closed, toldEnd>>
  OBVIOUS
<1> USE DEF ringVars, flowVars, waitVars, exchVars
<1>1. UNCHANGED <<items, itemsTail, itemsCount>> => Held' = Held
  BY Zenon DEF Held, Queued
<1>2. ASSUME NEW p \in Producers, Send(p) \/ SendAgain(p)
      PROVE  Channel!Next \/ UNCHANGED <<Held, closed, toldEnd>>
  <2>1. PICK w \in Seq(Producers), sz \in Nat :
          sent[p] < total[p] /\ SendOutcome(p, w, sz) /\ toldEnd' = toldEnd
    BY <1>2, SendCase, Zenon
  <2> QED
    BY <1>1, <2>1, PutIsPut, Zenon DEF SendOutcome, SendRefused, SendWaits, Channel!Next
<1>3. ASSUME NEW c \in Consumers, ConsumerStep(c)
      PROVE  Channel!Next \/ UNCHANGED <<Held, closed, toldEnd>>
  <2>1. PICK r \in Seq(Consumers) : GetBranch(c, r)
    BY <1>3, GetCase, Zenon
  <2>2. CASE GetTakes(c, r) /\ UNCHANGED toldEnd
    BY <2>2, TakeIsTake, Zenon DEF Channel!Next
  <2>3. CASE GetEnds(c, r) /\ toldEnd' = toldEnd \cup {c}
    <3>1. closed /\ itemsCount = 0 /\ closed' = closed /\ Held' = Held
      BY <1>1, <2>3, Zenon DEF GetEnds
    <3>2. Held = <<>>
      BY <3>1, HeldSeq, Zenon
    <3> QED
      BY <2>3, <3>1, <3>2, Zenon DEF Channel!Next, Channel!TellEnd, Held
  <2> QED
    BY <1>1, <2>1, <2>2, <2>3, Zenon DEF GetBranch, GetStopped, GetWaits
<1>4. CASE Close
  BY <1>1, <1>4, Zenon DEF Close, Channel!Next, Channel!Close, Held
<1>5. CASE Reset
  <2>1. closed /\ closed' = FALSE /\ toldEnd' = {} /\ itemsCount' = 0
    BY <1>5, Zenon DEF Reset
  <2>2. Held' = <<>>
    BY <2>1 DEF Held
  <2> QED
    BY <2>1, <2>2, Zenon DEF Channel!Next, Channel!Rewind, Held
<1>6. ASSUME NEW p \in Producers, SendDone(p) PROVE UNCHANGED <<Held, closed, toldEnd>>
  BY <1>1, <1>6, Zenon DEF SendDone
<1>7. ASSUME NEW c \in Consumers, GetFails(c) PROVE UNCHANGED <<Held, closed, toldEnd>>
  BY <1>1, <1>7, Zenon DEF GetFails
<1>8. ASSUME NEW a \in Actors, SendStop(a) PROVE UNCHANGED <<Held, closed, toldEnd>>
  BY <1>1, <1>8, Zenon DEF SendStop
<1>9. CASE RequestStop
  BY <1>1, <1>9, Zenon DEF RequestStop
<1>10. CASE UNCHANGED vars
  BY <1>1, <1>10, Zenon DEF vars
<1> QED
  BY <1>2, <1>3, <1>4, <1>5, <1>6, <1>7, <1>8, <1>9, <1>10, Zenon DEF Next, ProducerStep

\* The value exchange implements a bounded first-in first-out channel: what its
\* critical sections do, in any interleaving with sleeping, signalling, stopping
\* and resetting, is a Put, a Take, a Close, a TellEnd, a Rewind, or nothing.
THEOREM ImplementsChannel == Spec => IsChannel
<1>1. Init => Channel!Init
  <2> SUFFICES ASSUME Init PROVE Channel!Init
    OBVIOUS
  <2>1. itemsCount = 0 /\ closed = FALSE /\ toldEnd = {}
    BY Zenon DEF Init
  <2>2. Held = <<>>
    BY <2>1 DEF Held
  <2> QED
    BY <2>1, <2>2, Zenon DEF Channel!Init, Held
<1>2. Inv /\ [Next]_vars => [Channel!Next]_<<[i \in 1 .. itemsCount |-> Queued(i - 1)], closed, toldEnd>>
  BY ChannelStep, Zenon DEF Held
<1> QED
  BY <1>1, <1>2, Invariance, PTL DEF Spec, IsChannel, Channel!Spec

=============================================================================
