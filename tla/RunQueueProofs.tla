--------------------------- MODULE RunQueueProofs ---------------------------
(***************************************************************************)
(* What holds of the run queue for any number of requests, of servicers    *)
(* and of places in the queue: its types, who is at work on an entry of    *)
(* the array and what the entry can hold meanwhile, the balance of         *)
(* queueCnt against the turns taken at both ends of the array, and the     *)
(* servicers.                                                              *)
(***************************************************************************)
EXTENDS RunQueue, FiniteSetTheorems, TLAPS

----------------------------------------------------------------------------
(* The array.                                                              *)

LEMMA SizeType == Size \in Nat \ {0}
<1>1. \A m, n \in Nat \ {0} : m * n \in Nat \ {0}
  OBVIOUS
<1> QED
  BY <1>1, SizesAssumption, Zenon DEF Size

\* A turn, taken modulo the size, is an entry of the array.
LEMMA EntryType ==
  ASSUME NEW n \in Nat
  PROVE  n % Size \in Entries
BY SizeType DEF Entries

----------------------------------------------------------------------------
(* The entries, as long as nothing disturbed the order of turns.           *)

Waiting == {"look", "place", "publish", "withdraw", "reset", "asleep"}
Waking  == {"swap", "pick", "wipe", "free"}
Unseen  == {"evict", "evicted", "runEvicted", "wakeEvicted", "scanWipe", "scanBump", "scanWake"}

\* One waiter and one waker at a time are at work on an entry.
Turns ==
  /\ \A r \in Requests : pc[r] \in Waiting => turn[r] <= tail
  /\ \A p \in Procs : pc[p] \in Waking => turn[p] <= head
  /\ \A r, s \in Requests : pc[r] \in Waiting /\ pc[s] \in Waiting /\ entry(r) = entry(s) => r = s
  /\ \A p, q \in Procs : pc[p] \in Waking /\ pc[q] \in Waking /\ entry(p) = entry(q) => p = q

\* The safety-nets of addRequest() and checkWaiters() are not needed.
NoNets ==
  /\ \A p \in Procs : pc[p] \notin Unseen
  /\ \A r \in Requests : pc[r] \notin {"wipe", "free", "wake"} => found[r] = NoRequest

Sleeping(r) == pc[r] = "asleep" /\ sleepers[r] = 1

\* setSleep() and release() alternate.
Groups ==
  \A r \in Requests :
    /\ pc[r] \in {"publish", "withdraw", "reset", "releaseSelf"} => sleepers[r] = 1
    /\ pc[r] = "asleep" => sleepers[r] \in {0, 1}
    /\ pc[r] \notin {"publish", "withdraw", "reset", "releaseSelf", "asleep"} => sleepers[r] = 0

\* What an entry holds, and whether it is FULL, goes with who is at work on it.
Contents ==
  \A i \in Entries :
    /\ holds[i] # NoRequest =>
         /\ entry(holds[i]) = i
         /\ \/ pc[holds[i]] \in {"publish", "withdraw"}
            \/ Sleeping(holds[i]) /\ slot[i] = "FULL"
    /\ slot[i] = "FULL" =>
         \/ holds[i] # NoRequest /\ Sleeping(holds[i])
         \/ \E k \in Procs : pc[k] = "free" /\ entry(k) = i

Waiters ==
  \A r \in Requests :
    /\ pc[r] \in {"look", "place", "reset"} => holds[entry(r)] = NoRequest
    /\ pc[r] \in {"look", "place", "publish"} => slot[entry(r)] # "FULL"
    /\ pc[r] \in {"publish", "withdraw"} => holds[entry(r)] = r
    /\ pc[r] \in {"withdraw", "reset"} => slot[entry(r)] = "GO"

\* A waker that takes a waiter out of its entry is the only one to have it.
Wakers ==
  \A k \in Procs :
    /\ pc[k] = "swap" => slot[entry(k)] # "GO"
    /\ pc[k] \in {"pick", "wipe", "free"} => slot[entry(k)] = "FULL"
    /\ pc[k] \in {"pick", "wipe"} => holds[entry(k)] # NoRequest
    /\ pc[k] = "wipe" => found[k] = holds[entry(k)]
    /\ pc[k] = "free" => holds[entry(k)] = NoRequest /\ entry(found[k]) = entry(k)
    /\ pc[k] \in {"free", "wake"} =>
         /\ found[k] \in Requests /\ Sleeping(found[k])
         /\ \A i \in Entries : holds[i] # found[k]
         /\ \A q \in Procs : pc[q] \in {"free", "wake"} /\ found[q] = found[k] => q = k

RingOK == Turns /\ NoNets /\ Groups /\ Contents /\ Waiters /\ Wakers

\* The goroutines keep their turns unless they take a new one.
LEMMA TurnsKept ==
  ASSUME TypeOK, Turns, NEW p \in Procs, NEW from, NEW to, Go(p, from, to),
         to \in Waiting => from \in Waiting, to \in Waking => from \in Waking,
         turn'[p] = turn[p] \/ to \notin Waiting \cup Waking,
         \A q \in Procs \ {p} : turn'[q] = turn[q],
         UNCHANGED <<head, tail>>
  PROVE  Turns'
<1>1. /\ pc[p] = from /\ pc'[p] = to /\ \A q \in Procs \ {p} : pc'[q] = pc[q]
      /\ \A r \in Requests : r \in Procs
  BY Zenon DEF TypeOK, Go, Procs
<1>2. \A q \in Procs : pc'[q] \in Waiting => pc[q] \in Waiting /\ turn'[q] = turn[q]
  BY <1>1, Zenon
<1>3. \A q \in Procs : pc'[q] \in Waking => pc[q] \in Waking /\ turn'[q] = turn[q]
  BY <1>1, Zenon
<1> QED
  BY <1>1, <1>2, <1>3, Zenon DEF Turns, entry

\* A step of a goroutine that has nothing to do with the entries.
LEMMA QuietStep ==
  ASSUME TypeOK, RingOK, NEW p \in Procs, NEW from, NEW to, Go(p, from, to),
         from \notin Waiting \cup Waking \cup Unseen \cup {"releaseSelf", "wake"},
         to \notin Waiting \cup Waking \cup Unseen \cup {"releaseSelf", "wake"},
         UNCHANGED <<head, tail, slot, holds, sleepers>>,
         \A q \in Procs \ {p} : turn'[q] = turn[q],
         \A q \in Requests \cup (Procs \ {p}) : found'[q] = found[q]
  PROVE  RingOK'
<1> USE DEF Waiting, Waking, Unseen
<1>1. /\ pc[p] = from /\ pc'[p] = to /\ \A q \in Procs \ {p} : pc'[q] = pc[q]
      /\ \A q \in Procs \ {p} : entry(q)' = entry(q)
      /\ \A r \in Requests : r \in Procs
  BY Zenon DEF TypeOK, Go, entry, Procs
<1>2. Turns'
  BY TurnsKept, Zenon DEF RingOK
<1>3. NoNets' /\ Groups'
  BY <1>1, Zenon DEF RingOK, NoNets, Groups
<1>4. /\ \A i \in Entries : holds[i] # p
      /\ \A k \in Procs : pc[k] \in {"free", "wake"} => found[k] # p
      /\ \A i \in Entries : holds[i] = NoRequest \/ holds[i] \in Requests
  BY <1>1, RequestsAssumption DEF RingOK, Contents, Wakers, Sleeping, TypeOK
<1>5. Contents'
  BY <1>1, <1>4 DEF RingOK, Contents, Sleeping
<1>6. Waiters'
  BY <1>1, Zenon DEF RingOK, Waiters
<1>7. Wakers'
  BY <1>1, <1>4 DEF RingOK, Wakers, Sleeping
<1> QED
  BY <1>2, <1>3, <1>5, <1>6, <1>7, Zenon DEF RingOK

----------------------------------------------------------------------------
(* The steps of the waker: releaseRequest().                               *)

LEMMA NotInEntry ==
  ASSUME TypeOK, RingOK, NEW p \in Procs, pc[p] \notin {"publish", "withdraw", "asleep"}
  PROVE  /\ \A i \in Entries : holds[i] # p /\ (holds[i] = NoRequest \/ holds[i] \in Requests)
         /\ \A k \in Procs : pc[k] \in {"free", "wake"} => found[k] # p
BY RequestsAssumption DEF TypeOK, RingOK, Contents, Wakers, Sleeping, Procs

LEMMA RingWipe ==
  ASSUME TypeOK, RingOK, NEW p \in Procs, Wipe(p)
  PROVE  RingOK'
<1> USE DEF Waiting, Waking, Unseen
<1> DEFINE e == entry(p)
<1>1. /\ (\A q \in Procs : entry(q) \in Entries) /\ \A q \in Requests : q \in Procs
      /\ pc[p] = "wipe" /\ Go(p, "wipe", "free")
      /\ pc'[p] = "free" /\ \A q \in Procs \ {p} : pc'[q] = pc[q]
      /\ slot[e] = "FULL" /\ holds[e] # NoRequest /\ found[p] = holds[e]
      /\ holds'[e] = NoRequest /\ \A i \in Entries \ {e} : holds'[i] = holds[i]
      /\ UNCHANGED <<head, tail, slot, sleepers, turn, found>>
  BY EntryType DEF Wipe, Clear, Wakers, Go, TypeOK, RingOK, entry, Procs, counters, ring, locals
<1>2. Turns' /\ \A q \in Procs : entry(q)' = entry(q)
  BY <1>1, TurnsKept, Zenon DEF RingOK, entry
<1>3. \A q \in Procs \ {p} : pc[q] \in Waking => entry(q) # e
  BY <1>1, Zenon DEF RingOK, Turns
<1>4. /\ \A i \in Entries : holds[i] # p /\ (holds[i] = NoRequest \/ holds[i] \in Requests)
      /\ \A k \in Procs : pc[k] \in {"free", "wake"} => found[k] # p
  BY <1>1, NotInEntry, Zenon
<1> HIDE DEF e
<1>5. NoNets' /\ Groups'
  BY <1>1, Zenon DEF RingOK, NoNets, Groups
<1>6. Contents'
  BY <1>1, <1>2, <1>3, <1>4 DEF e, RingOK, Contents, Sleeping
<1>7. Waiters'
  BY <1>1, <1>2 DEF e, RingOK, Waiters
<1>8. Wakers'
  <2>0. e \in Entries /\ holds[e] \in Requests /\ NoRequest \notin Requests /\ Contents /\ Wakers
    BY <1>1, <1>4, RequestsAssumption, Zenon DEF e, RingOK, Procs
  <2>1. /\ found[p] \in Requests /\ Sleeping(found[p]) /\ entry(found[p]) = e
        /\ \A i \in Entries : holds'[i] # found[p]
        /\ \A q \in Procs : pc[q] \in {"free", "wake"} => found[q] # found[p]
    <3>1. found[p] \in Requests /\ entry(found[p]) = e
      BY <1>1, <2>0, Zenon DEF Contents
    <3>2. Sleeping(found[p])
      BY <1>1, <1>3, <2>0 DEF Contents, Sleeping
    <3>3. \A i \in Entries : holds'[i] # found[p]
      BY <1>1, <2>0, <3>1 DEF Contents
    <3>4. \A q \in Procs : pc[q] \in {"free", "wake"} => found[q] # found[p]
      BY <1>1, <2>0 DEF Wakers
    <3> QED
      BY <3>1, <3>2, <3>3, <3>4, Zenon
  <2>2. \A k \in Procs, i \in Entries : pc[k] \in {"free", "wake"} => holds'[i] # found[k]
    BY <1>1, <2>0 DEF Wakers
  <2>3. \A q \in Requests : Sleeping(q) => Sleeping(q)'
    BY <1>1, Zenon DEF Sleeping
  <2> QED
    BY <1>1, <1>2, <1>3, <2>1, <2>2, <2>3 DEF e, RingOK, Wakers
<1> QED
  BY <1>2, <1>5, <1>6, <1>7, <1>8, Zenon DEF RingOK

LEMMA RingSwap ==
  ASSUME TypeOK, RingOK, NEW p \in Procs, Swap(p)
  PROVE  RingOK'
<1> USE DEF Waiting, Waking, Unseen
<1> DEFINE e == entry(p)
<1>0. Released(p) \in {"loop", "end"}
  BY Zenon DEF Released
<1>1. /\ (\A q \in Procs : entry(q) \in Entries) /\ \A q \in Requests : q \in Procs
      /\ pc[p] = "swap" /\ slot[e] # "GO" /\ \A q \in Procs \ {p} : pc'[q] = pc[q]
      /\ UNCHANGED <<head, tail, holds, sleepers, turn, found>>
  BY EntryType DEF Swap, MarkEmpty, Mark, Jump, Go, TypeOK, RingOK, Wakers, entry, Procs,
     counters, ring, locals
<1>2. \/ slot[e] = "EMPTY" /\ Go(p, "swap", Released(p)) /\ slot' = [slot EXCEPT ![e] = "GO"]
      \/ slot[e] = "FULL" /\ Go(p, "swap", "pick") /\ slot' = slot
  BY <1>1, Zenon DEF Swap, MarkEmpty, Mark, Jump, TypeOK, ring
<1>3. Turns' /\ \A q \in Procs : entry(q)' = entry(q)
  BY <1>0, <1>1, <1>2, TurnsKept, Zenon DEF RingOK, entry
<1>4. \A q \in Procs \ {p} : pc[q] \in Waking => entry(q) # e
  BY <1>1, Zenon DEF RingOK, Turns
<1>5. /\ \A i \in Entries : holds[i] # p /\ (holds[i] = NoRequest \/ holds[i] \in Requests)
      /\ \A k \in Procs : pc[k] \in {"free", "wake"} => found[k] # p
  BY <1>1, NotInEntry, Zenon
<1> HIDE DEF e
<1>6. CASE slot[e] = "EMPTY"
  <2>1. /\ pc'[p] \in {"loop", "end"} /\ slot'[e] = "GO"
        /\ \A i \in Entries \ {e} : slot'[i] = slot[i]
    BY <1>0, <1>1, <1>2, <1>6, Zenon DEF Go, TypeOK, e
  <2>2. NoNets' /\ Groups'
    BY <1>1, <2>1, Zenon DEF RingOK, NoNets, Groups
  <2>3. Contents'
    BY <1>1, <1>3, <1>5, <1>6, <2>1 DEF e, RingOK, Contents, Sleeping
  <2>4. Waiters'
    BY <1>1, <1>3, <2>1 DEF e, RingOK, Waiters
  <2>5. Wakers'
    BY <1>1, <1>3, <1>4, <1>5, <2>1 DEF e, RingOK, Wakers, Sleeping
  <2> QED
    BY <1>3, <2>2, <2>3, <2>4, <2>5, Zenon DEF RingOK
<1>7. CASE slot[e] = "FULL"
  <2>1. pc'[p] = "pick" /\ slot' = slot
    BY <1>1, <1>2, <1>7, Zenon DEF Go, TypeOK
  <2>2. NoNets' /\ Groups'
    BY <1>1, <2>1, Zenon DEF RingOK, NoNets, Groups
  <2>3. Contents'
    BY <1>1, <1>3, <1>5, <2>1 DEF RingOK, Contents, Sleeping
  <2>4. Waiters'
    BY <1>1, <1>3, <2>1, Zenon DEF RingOK, Waiters
  <2>5. holds[e] # NoRequest
    BY <1>1, <1>4, <1>7, Zenon DEF e, RingOK, Contents
  <2>6. Wakers'
    BY <1>1, <1>3, <1>5, <1>7, <2>1, <2>5 DEF e, RingOK, Wakers, Sleeping
  <2> QED
    BY <1>3, <2>2, <2>3, <2>4, <2>6, Zenon DEF RingOK
<1> QED
  BY <1>2, <1>6, <1>7, Zenon

LEMMA RingTakeHead ==
  ASSUME TypeOK, RingOK, NEW p \in Procs, TakeHead(p), Undisturbed'
  PROVE  RingOK'
<1> USE DEF Waiting, Waking, Unseen
<1> DEFINE n == head + 1
<1>1. /\ pc[p] = "takeHead" /\ pc'[p] = "swap" /\ \A q \in Procs \ {p} : pc'[q] = pc[q]
      /\ turn'[p] = n /\ \A q \in Procs \ {p} : turn'[q] = turn[q] /\ entry(q)' = entry(q)
      /\ \A q \in Requests : q \in Procs
      /\ UNCHANGED <<tail, slot, holds, sleepers, found>> /\ head' = n
      /\ n \in Nat /\ entry(p)' = n % Size /\ n % Size \in Entries
  BY EntryType DEF TypeOK, entry, Procs, TakeHead, TakeTurn
<1>2. ~Laps(n) /\ slot[n % Size] # "GO"
  BY Zenon DEF Undisturbed, TakeHead, TakeTurn, Overtakes
<1>3. \A q \in Procs : pc[q] \in OnEntry /\ entry(q) = n % Size => turn[q] = n
  BY <1>2, Zenon DEF Laps
<1>4. \A q \in Procs : pc[q] \in Waking => turn[q] \in Nat /\ turn[q] <= head /\ head \in Nat
  BY <1>1, Zenon DEF RingOK, Turns, TypeOK
<1>5. \A q \in Procs : pc[q] \in Waking => entry(q) # n % Size
  BY <1>1, <1>3, <1>4 DEF OnEntry
<1>6. Turns'
  <2>1. \A q \in Procs : pc'[q] \in Waking => turn'[q] <= head'
    BY <1>1, <1>4
  <2>2. \A q \in Requests : pc'[q] \in Waiting => pc[q] \in Waiting /\ q # p
    BY <1>1, Zenon
  <2>3. \A q, s \in Procs : pc'[q] \in Waking /\ pc'[s] \in Waking /\ entry(q)' = entry(s)' => q = s
    BY <1>1, <1>5 DEF RingOK, Turns
  <2> QED
    BY <1>1, <2>1, <2>2, <2>3 DEF RingOK, Turns
<1>7. NoNets' /\ Groups'
  BY <1>1, Zenon DEF RingOK, NoNets, Groups
<1>8. /\ \A i \in Entries : holds[i] # p /\ (holds[i] = NoRequest \/ holds[i] \in Requests)
      /\ \A k \in Procs : pc[k] \in {"free", "wake"} => found[k] # p
  BY <1>1, NotInEntry, Zenon
<1>9. Contents'
  BY <1>1, <1>8 DEF RingOK, Contents, Sleeping
<1>10. Waiters'
  BY <1>1, Zenon DEF RingOK, Waiters
<1>11. Wakers'
  BY <1>1, <1>2, <1>8 DEF RingOK, Wakers, Sleeping
<1> QED
  BY <1>6, <1>7, <1>9, <1>10, <1>11, Zenon DEF RingOK

LEMMA RingPick ==
  ASSUME TypeOK, RingOK, NEW p \in Procs, Pick(p)
  PROVE  RingOK'
<1> USE DEF Waiting, Waking, Unseen
<1> DEFINE e == entry(p)
<1>1. /\ (\A q \in Procs : entry(q) \in Entries) /\ \A q \in Requests : q \in Procs
      /\ pc[p] = "pick" /\ Go(p, "pick", "wipe")
      /\ pc'[p] = "wipe" /\ \A q \in Procs \ {p} : pc'[q] = pc[q]
      /\ slot[e] = "FULL" /\ holds[e] # NoRequest
      /\ found'[p] = holds[e] /\ \A q \in Procs \ {p} : found'[q] = found[q]
      /\ UNCHANGED <<head, tail, slot, holds, sleepers, turn>>
  BY EntryType, Zenon DEF Pick, Find, Wakers, Go, TypeOK, RingOK, entry, Procs, counters, ring, locals
<1>2. Turns' /\ \A q \in Procs : entry(q)' = entry(q)
  BY <1>1, TurnsKept, Zenon DEF RingOK, entry
<1>3. \A q \in Procs \ {p} : pc[q] \in Waking => entry(q) # e
  BY <1>1, Zenon DEF RingOK, Turns
<1>4. /\ \A i \in Entries : holds[i] # p /\ (holds[i] = NoRequest \/ holds[i] \in Requests)
      /\ \A k \in Procs : pc[k] \in {"free", "wake"} => found[k] # p
  BY <1>1, NotInEntry, Zenon
<1> HIDE DEF e
<1>5. NoNets' /\ Groups'
  BY <1>1, Zenon DEF RingOK, NoNets, Groups
<1>6. Contents'
  BY <1>1, <1>2, <1>3, <1>4 DEF e, RingOK, Contents, Sleeping
<1>7. Waiters'
  BY <1>1, <1>2, Zenon DEF e, RingOK, Waiters
<1>8. Wakers'
  BY <1>1, <1>2, <1>3, <1>4 DEF e, RingOK, Wakers, Sleeping
<1> QED
  BY <1>2, <1>5, <1>6, <1>7, <1>8, Zenon DEF RingOK

LEMMA RingFree ==
  ASSUME TypeOK, RingOK, NEW p \in Procs, Free(p)
  PROVE  RingOK'
<1> USE DEF Waiting, Waking, Unseen
<1> DEFINE e == entry(p)
<1>0. pc[p] = "free" /\ slot[e] = "FULL" /\ holds[e] = NoRequest /\ found[p] \in Requests
  BY Zenon DEF Free, Mark, Go, RingOK, Wakers
<1>1. /\ (\A q \in Procs : entry(q) \in Entries) /\ \A q \in Requests : q \in Procs
      /\ pc[p] = "free" /\ Go(p, "free", "wake")
      /\ pc'[p] = "wake" /\ \A q \in Procs \ {p} : pc'[q] = pc[q]
      /\ slot[e] = "FULL" /\ holds[e] = NoRequest /\ found[p] \in Requests
      /\ slot'[e] = "EMPTY" /\ \A i \in Entries \ {e} : slot'[i] = slot[i]
      /\ UNCHANGED <<head, tail, holds, sleepers, turn, found>>
  BY <1>0, EntryType, RequestsAssumption, Zenon DEF Free, Mark, Go, TypeOK, entry, Procs, counters,
     ring, locals
<1>2. Turns' /\ \A q \in Procs : entry(q)' = entry(q)
  BY <1>1, TurnsKept, Zenon DEF RingOK, entry
<1>3. \A q \in Procs \ {p} : pc[q] \in Waking => entry(q) # e
  BY <1>1, Zenon DEF RingOK, Turns
<1>4. /\ \A i \in Entries : holds[i] # p /\ (holds[i] = NoRequest \/ holds[i] \in Requests)
      /\ \A k \in Procs : pc[k] \in {"free", "wake"} => found[k] # p
  BY <1>1, NotInEntry, Zenon
<1> HIDE DEF e
<1>5. NoNets' /\ Groups'
  BY <1>1, Zenon DEF RingOK, NoNets, Groups
<1>6. Contents'
  BY <1>1, <1>2, <1>3, <1>4 DEF e, RingOK, Contents, Sleeping
<1>7. Waiters'
  BY <1>1, <1>2 DEF e, RingOK, Waiters
<1>8. Wakers'
  BY <1>1, <1>2, <1>3, <1>4 DEF e, RingOK, Wakers, Sleeping
<1> QED
  BY <1>2, <1>5, <1>6, <1>7, <1>8, Zenon DEF RingOK

LEMMA RingWakeFound ==
  ASSUME TypeOK, RingOK, NEW p \in Procs, WakeFound(p)
  PROVE  RingOK'
<1> USE DEF Waiting, Waking, Unseen
<1>0. Released(p) \in {"loop", "end"}
  BY Zenon DEF Released
<1>1. /\ (\A q \in Procs : entry(q) \in Entries) /\ \A q \in Requests : q \in Procs
      /\ pc[p] = "wake" /\ Go(p, "wake", Released(p))
      /\ pc'[p] = Released(p) /\ \A q \in Procs \ {p} : pc'[q] = pc[q]
      /\ found[p] \in Requests /\ sleepers[found[p]] = 1 /\ pc[found[p]] = "asleep"
      /\ sleepers' = [sleepers EXCEPT ![found[p]] = sleepers[found[p]] - 1]
      /\ found'[p] = NoRequest /\ \A q \in Procs \ {p} : found'[q] = found[q]
      /\ UNCHANGED <<head, tail, slot, holds, turn>>
  BY EntryType, Zenon DEF WakeFound, Release, Wakers, Sleeping, Go, TypeOK, RingOK, entry, Procs,
     counters, ring, locals
<1>3. sleepers'[found[p]] = 0 /\ \A q \in Requests \ {found[p]} : sleepers'[q] = sleepers[q]
  BY <1>1 DEF TypeOK
<1>2. Turns' /\ \A q \in Procs : entry(q)' = entry(q)
  BY <1>0, <1>1, TurnsKept, Zenon DEF RingOK, entry
<1>4. /\ \A i \in Entries : holds[i] # p /\ (holds[i] = NoRequest \/ holds[i] \in Requests)
      /\ \A k \in Procs : pc[k] \in {"free", "wake"} => found[k] # p
  BY <1>1, NotInEntry, Zenon
<1>5. NoNets' /\ Groups'
  BY <1>0, <1>1, <1>3 DEF RingOK, NoNets, Groups
<1>6. Contents'
  BY <1>0, <1>1, <1>2, <1>4, <1>3 DEF RingOK, Contents, Wakers, Sleeping
<1>7. Waiters'
  BY <1>0, <1>1, <1>2 DEF RingOK, Waiters
<1>8. Wakers'
  BY <1>0, <1>1, <1>2, <1>4, <1>3 DEF RingOK, Wakers, Sleeping
<1> QED
  BY <1>2, <1>5, <1>6, <1>7, <1>8, Zenon DEF RingOK

----------------------------------------------------------------------------
(* The steps of a request that waits: addRequest().                        *)

LEMMA RingTakeTail ==
  ASSUME TypeOK, RingOK, NEW r \in Requests, TakeTail(r), Undisturbed'
  PROVE  RingOK'
<1> USE DEF Waiting, Waking, Unseen, TakeTail, TakeTurn
<1> DEFINE n == tail + 1
<1>1. /\ pc[r] = "takeTail" /\ pc'[r] = "look" /\ \A q \in Procs \ {r} : pc'[q] = pc[q]
      /\ turn'[r] = n /\ \A q \in Procs \ {r} : turn'[q] = turn[q] /\ entry(q)' = entry(q)
      /\ \A q \in Requests : q \in Procs
      /\ UNCHANGED <<head, slot, holds, sleepers, found>> /\ tail' = n
      /\ n \in Nat /\ entry(r)' = n % Size /\ n % Size \in Entries
  BY EntryType DEF TypeOK, entry, Procs
<1>2. ~Laps(n)
  BY Zenon DEF Undisturbed
<1>3. \A q \in Procs : pc[q] \in OnEntry /\ entry(q) = n % Size => turn[q] = n
  BY <1>2, Zenon DEF Laps
<1>4. \A q \in Requests : pc[q] \in Waiting => turn[q] \in Nat /\ turn[q] <= tail /\ tail \in Nat
  BY <1>1, Zenon DEF RingOK, Turns, TypeOK
<1>5. \A q \in Requests : pc[q] \in Waiting => entry(q) # n % Size
  BY <1>1, <1>3, <1>4 DEF OnEntry
<1>6. Turns'
  <2>1. \A q \in Requests : pc'[q] \in Waiting => turn'[q] <= tail'
    BY <1>1, <1>4
  <2>2. \A q \in Procs : pc'[q] \in Waking => pc[q] \in Waking /\ q # r
    BY <1>1, Zenon
  <2>3. \A q, s \in Requests : pc'[q] \in Waiting /\ pc'[s] \in Waiting /\ entry(q)' = entry(s)' => q = s
    BY <1>1, <1>5 DEF RingOK, Turns
  <2> QED
    BY <1>1, <2>1, <2>2, <2>3 DEF RingOK, Turns
<1>7. holds[n % Size] = NoRequest /\ slot[n % Size] # "FULL"
  <2>1. holds[n % Size] = NoRequest
    BY <1>1, <1>5 DEF RingOK, Contents, Sleeping, TypeOK
  <2>2. ASSUME NEW k \in Procs, pc[k] = "free", entry(k) = n % Size PROVE FALSE
    BY <1>5, <2>2 DEF RingOK, Wakers, Sleeping
  <2> QED
    BY <1>1, <2>1, <2>2, Zenon DEF RingOK, Contents
<1>8. /\ \A i \in Entries : holds[i] # r
      /\ \A k \in Procs : pc[k] \in {"free", "wake"} => found[k] # r
      /\ \A i \in Entries : holds[i] = NoRequest \/ holds[i] \in Requests
  BY <1>1, RequestsAssumption DEF RingOK, Contents, Wakers, Sleeping, TypeOK, Procs
<1>9. NoNets' /\ Groups'
  BY <1>1, Zenon DEF RingOK, NoNets, Groups
<1>10. Contents'
  BY <1>1, <1>8 DEF RingOK, Contents, Sleeping
<1>11. Waiters'
  BY <1>1, <1>7 DEF RingOK, Waiters
<1>12. Wakers'
  BY <1>1, <1>8 DEF RingOK, Wakers, Sleeping
<1> QED
  BY <1>6, <1>9, <1>10, <1>11, <1>12, Zenon DEF RingOK

\* What a request that is not asleep in its entry, or taken out of it, is told by
\* the others' entries.
LEMMA NotHeld ==
  ASSUME TypeOK, RingOK, NEW r \in Requests, ~Sleeping(r)
  PROVE  /\ \A i \in Entries : holds[i] = NoRequest \/ holds[i] \in Requests
         /\ \A i \in Entries : holds[i] = r => pc[r] \in {"publish", "withdraw"} /\ entry(r) = i
         /\ \A k \in Procs : pc[k] \in {"free", "wake"} => found[k] # r
BY RequestsAssumption DEF TypeOK, RingOK, Contents, Wakers, Procs

\* A request asleep, and the entry of a goroutine, after a step.
Asleep(q) == pc'[q] = "asleep" /\ sleepers'[q] = 1
After(q)  == turn'[q] % Size

LEMMA SameRequests ==
  ASSUME NEW r \in Requests, \A q \in Procs \ {r} : pc'[q] = pc[q], \A q \in Procs : entry(q)' = entry(q),
         \A q \in Requests \ {r} : sleepers'[q] = sleepers[q]
  PROVE  \A q \in Requests \ {r} : /\ pc'[q] = pc[q] /\ (Sleeping(q) => Asleep(q))
                                  /\ After(q) = entry(q)
BY Zenon DEF Sleeping, Asleep, After, entry, Procs

LEMMA ContentsFrom ==
  ASSUME NEW i \in Entries, NEW r \in Requests, Contents, holds'[i] = holds[i], slot'[i] = slot[i],
         holds[i] = NoRequest \/ holds[i] \in Requests \ {r},
         \A q \in Requests \ {r} : pc'[q] = pc[q] /\ (Sleeping(q) => Asleep(q)) /\ After(q) = entry(q),
         \A k \in Procs : pc[k] = "free" => pc'[k] = "free" /\ After(k) = entry(k)
  PROVE  /\ holds'[i] # NoRequest =>
              /\ After(holds'[i]) = i
              /\ pc'[holds'[i]] \in {"publish", "withdraw"} \/ (Asleep(holds'[i]) /\ slot'[i] = "FULL")
         /\ slot'[i] = "FULL" => \/ holds'[i] # NoRequest /\ Asleep(holds'[i])
                                 \/ \E k \in Procs : pc'[k] = "free" /\ After(k) = i
<1>1. ASSUME NEW x, x = holds[i], x # NoRequest
      PROVE  After(x) = i /\ (pc'[x] \in {"publish", "withdraw"} \/ (Asleep(x) /\ slot[i] = "FULL"))
  <2>1. entry(x) = i /\ (pc[x] \in {"publish", "withdraw"} \/ (Sleeping(x) /\ slot[i] = "FULL"))
    BY <1>1, Zenon DEF Contents
  <2> QED
    BY <1>1, <2>1, Zenon
<1>2. ASSUME slot[i] = "FULL"
      PROVE  \/ \E x : x = holds[i] /\ x # NoRequest /\ Asleep(x)
             \/ \E k \in Procs : pc'[k] = "free" /\ After(k) = i
  <2>1. CASE holds[i] # NoRequest /\ Sleeping(holds[i])
    BY <2>1, Zenon
  <2>2. CASE \E k \in Procs : pc[k] = "free" /\ entry(k) = i
    BY <2>2, Zenon
  <2> QED
    BY <1>2, <2>1, <2>2, Zenon DEF Contents
<1> QED
  BY <1>1, <1>2, Zenon

\* What r does leaves an entry that it has nothing to do with as it was.
LEMMA ContentsKept ==
  ASSUME TypeOK, RingOK, NEW r \in Requests, ~Sleeping(r), pc[r] \notin {"publish", "withdraw", "free"},
         \A q \in Procs \ {r} : pc'[q] = pc[q], \A q \in Procs : entry(q)' = entry(q),
         \A q \in Requests \ {r} : sleepers'[q] = sleepers[q], UNCHANGED <<slot, holds>>
  PROVE  Contents'
<1>1. \A i \in Entries : holds[i] = NoRequest \/ holds[i] \in Requests \ {r}
  BY NotHeld, Zenon
<1>2. \A k \in Procs : pc[k] = "free" => pc'[k] = "free" /\ After(k) = entry(k)
  BY Zenon DEF After, entry
<1>3. \A i \in Entries : holds'[i] = holds[i] /\ slot'[i] = slot[i]
  OBVIOUS
<1>4. Contents
  BY Zenon DEF RingOK
<1>5. ASSUME NEW i \in Entries
      PROVE  /\ holds'[i] # NoRequest =>
                  /\ After(holds'[i]) = i
                  /\ pc'[holds'[i]] \in {"publish", "withdraw"} \/ (Asleep(holds'[i]) /\ slot'[i] = "FULL")
             /\ slot'[i] = "FULL" => \/ holds'[i] # NoRequest /\ Asleep(holds'[i])
                                     \/ \E k \in Procs : pc'[k] = "free" /\ After(k) = i
  BY <1>1, <1>2, <1>3, <1>4, SameRequests, ContentsFrom, Zenon
<1> QED
  BY <1>5, Zenon DEF Contents, Sleeping, entry, Asleep, After

\* The entry that r is at work on is its own.
LEMMA ContentsMine ==
  ASSUME TypeOK, RingOK, NEW r \in Requests, ~Sleeping(r), pc[r] # "free", entry(r) \in Entries,
         \A q \in Procs \ {r} : pc'[q] = pc[q], \A q \in Procs : entry(q)' = entry(q),
         \A q \in Requests \ {r} : sleepers'[q] = sleepers[q],
         \A i \in Entries \ {entry(r)} : holds'[i] = holds[i] /\ slot'[i] = slot[i],
         holds'[entry(r)] = NoRequest \/ (holds'[entry(r)] = r /\ pc'[r] \in {"publish", "withdraw"}),
         slot'[entry(r)] # "FULL"
  PROVE  Contents'
<1> DEFINE e == entry(r)
<1>1. \A i \in Entries \ {e} : holds[i] = NoRequest \/ holds[i] \in Requests \ {r}
  BY NotHeld, Zenon
<1>2. \A k \in Procs : pc[k] = "free" => pc'[k] = "free" /\ After(k) = entry(k)
  BY Zenon DEF After, entry
<1>3. Contents /\ After(r) = e
  BY Zenon DEF RingOK, After, entry, Procs
<1> HIDE DEF e
<1>4. ASSUME NEW i \in Entries, i # e
      PROVE  /\ holds'[i] # NoRequest =>
                  /\ After(holds'[i]) = i
                  /\ pc'[holds'[i]] \in {"publish", "withdraw"} \/ (Asleep(holds'[i]) /\ slot'[i] = "FULL")
             /\ slot'[i] = "FULL" => \/ holds'[i] # NoRequest /\ Asleep(holds'[i])
                                     \/ \E k \in Procs : pc'[k] = "free" /\ After(k) = i
  BY <1>1, <1>2, <1>3, <1>4, SameRequests, ContentsFrom, Zenon DEF e
<1>5. holds'[e] # NoRequest => After(holds'[e]) = e /\ pc'[holds'[e]] \in {"publish", "withdraw"}
  BY <1>3, Zenon DEF e
<1>6. slot'[e] # "FULL"
  BY Zenon DEF e
<1> QED
  BY <1>4, <1>5, <1>6, Zenon DEF Contents, Sleeping, entry, Asleep, After

\* A waker is not disturbed by a request that changes no entry that is FULL.
LEMMA WakersKept ==
  ASSUME TypeOK, RingOK, NEW r \in Requests, ~Sleeping(r),
         pc[r] \notin {"swap", "pick", "wipe", "free", "wake"},
         pc'[r] \notin {"swap", "pick", "wipe", "free", "wake"},
         \A q \in Procs \ {r} : pc'[q] = pc[q], \A q \in Procs \ {r} : found'[q] = found[q],
         \A q \in Procs : entry(q)' = entry(q), \A q \in Procs : entry(q) \in Entries,
         \A q \in Requests \ {r} : sleepers'[q] = sleepers[q],
         \A i \in Entries : slot'[i] = slot[i] \/ (slot[i] # "FULL" /\ slot'[i] # "GO"),
         \A i \in Entries : holds'[i] = holds[i] \/ (slot[i] # "FULL" /\ holds'[i] \in {r, NoRequest})
  PROVE  Wakers'
<1>0. Wakers /\ r \in Procs /\ \A q \in Requests : q \in Procs
  BY Zenon DEF RingOK, Procs
<1>1. \A k \in Procs : pc'[k] \in {"swap", "pick", "wipe", "free", "wake"} =>
        k # r /\ pc'[k] = pc[k] /\ found'[k] = found[k]
  BY Zenon
<1>2. \A k \in Procs : After(k) = entry(k)
  BY Zenon DEF After, entry
<1>3. \A k \in Procs : pc[k] \in {"free", "wake"} => found[k] # r
  BY NotHeld, Zenon
<1>4. \A q \in Requests \ {r} : Sleeping(q) => Asleep(q)
  BY SameRequests, Zenon
<1>5. \A i \in Entries : slot[i] = "FULL" => slot'[i] = "FULL" /\ holds'[i] = holds[i]
  BY Zenon
<1>6. \A i \in Entries : slot[i] # "GO" => slot'[i] # "GO"
  BY Zenon
<1>7. ASSUME NEW k \in Procs, NEW i \in Entries, i = entry(k)
      PROVE  /\ pc'[k] = "swap" => slot'[i] # "GO"
             /\ pc'[k] \in {"pick", "wipe", "free"} => slot'[i] = "FULL"
             /\ pc'[k] \in {"pick", "wipe"} => holds'[i] # NoRequest
             /\ pc'[k] = "wipe" => found'[k] = holds'[i]
             /\ pc'[k] = "free" => holds'[i] = NoRequest
  <2>1. /\ pc[k] = "swap" => slot[i] # "GO"
        /\ pc[k] \in {"pick", "wipe", "free"} => slot[i] = "FULL"
        /\ pc[k] \in {"pick", "wipe"} => holds[i] # NoRequest
        /\ pc[k] = "wipe" => found[k] = holds[i]
        /\ pc[k] = "free" => holds[i] = NoRequest
    BY <1>0, <1>7, Zenon DEF Wakers
  <2>2. pc'[k] = "swap" => slot'[i] # "GO"
    BY <1>1, <1>6, <2>1, Zenon
  <2>3. pc'[k] \in {"pick", "wipe", "free"} => slot[i] = "FULL" /\ slot'[i] = "FULL" /\ holds'[i] = holds[i]
    BY <1>1, <1>5, <2>1, Zenon
  <2> QED
    BY <1>1, <2>1, <2>2, <2>3, Zenon
<1>8. ASSUME NEW k \in Procs, NEW x, x = found[k], pc[k] \in {"free", "wake"}
      PROVE  /\ x \in Requests /\ Asleep(x) /\ (pc[k] = "free" => After(x) = entry(k))
             /\ \A i \in Entries : holds'[i] # x
             /\ \A q \in Procs : pc[q] \in {"free", "wake"} /\ found[q] = x => q = k
  <2>1. /\ x \in Requests /\ Sleeping(x) /\ (pc[k] = "free" => entry(x) = entry(k))
        /\ \A i \in Entries : holds[i] # x
        /\ \A q \in Procs : pc[q] \in {"free", "wake"} /\ found[q] = x => q = k
    BY <1>0, <1>8, Zenon DEF Wakers
  <2>2. x # r /\ x # NoRequest /\ x \in Procs
    BY <1>0, <1>3, <1>8, <2>1, RequestsAssumption, Zenon
  <2> QED
    BY <1>2, <1>4, <2>1, <2>2, Zenon
<1>9. ASSUME NEW k \in Procs, pc'[k] \in {"free", "wake"}
      PROVE  /\ found'[k] \in Requests /\ Asleep(found'[k])
             /\ (pc'[k] = "free" => After(found'[k]) = After(k))
             /\ \A i \in Entries : holds'[i] # found'[k]
             /\ \A q \in Procs : pc'[q] \in {"free", "wake"} /\ found'[q] = found'[k] => q = k
  <2>1. pc[k] \in {"free", "wake"} /\ found'[k] = found[k] /\ pc'[k] = pc[k]
    BY <1>1, <1>9, Zenon
  <2>2. \A q \in Procs : pc'[q] \in {"free", "wake"} => pc[q] \in {"free", "wake"} /\ found'[q] = found[q]
    BY <1>1, Zenon
  <2>3. /\ found[k] \in Requests /\ Asleep(found[k]) /\ (pc[k] = "free" => After(found[k]) = entry(k))
        /\ \A i \in Entries : holds'[i] # found[k]
        /\ \A q \in Procs : pc[q] \in {"free", "wake"} /\ found[q] = found[k] => q = k
    BY <1>8, <2>1, Zenon
  <2>4. After(k) = entry(k)
    BY <1>2, Zenon
  <2> QED
    BY <2>1, <2>2, <2>3, <2>4, Zenon
<1>10. ASSUME NEW k \in Procs
       PROVE  /\ pc'[k] = "swap" => slot'[After(k)] # "GO"
              /\ pc'[k] \in {"pick", "wipe", "free"} => slot'[After(k)] = "FULL"
              /\ pc'[k] \in {"pick", "wipe"} => holds'[After(k)] # NoRequest
              /\ pc'[k] = "wipe" => found'[k] = holds'[After(k)]
              /\ pc'[k] = "free" => holds'[After(k)] = NoRequest
  BY <1>2, <1>7, Zenon
<1> QED
  BY <1>9, <1>10, Zenon DEF Wakers, Sleeping, Asleep, After, entry

LEMMA RingLook ==
  ASSUME TypeOK, RingOK, NEW r \in Requests, Look(r)
  PROVE  RingOK'
<1> USE DEF Waiting, Waking, Unseen
<1> DEFINE e == entry(r)
<1>1. /\ r \in Procs /\ (\A q \in Procs : entry(q) \in Entries) /\ \A q \in Requests : q \in Procs
      /\ pc[r] = "look" /\ Go(r, "look", "place")
      /\ pc'[r] = "place" /\ \A q \in Procs \ {r} : pc'[q] = pc[q]
      /\ UNCHANGED <<head, tail, slot, holds, sleepers, turn, found>>
  BY EntryType, Zenon DEF Look, Jump, Waiters, Go, TypeOK, RingOK, entry, Procs, counters, ring, locals
<1>2. Turns' /\ \A q \in Procs : entry(q)' = entry(q)
  BY <1>1, TurnsKept, Zenon DEF RingOK, entry
<1> HIDE DEF e
<1>3. NoNets' /\ Groups'
  BY <1>1, Zenon DEF RingOK, NoNets, Groups
<1>4. Contents'
  BY <1>1, <1>2, ContentsKept, Zenon DEF Sleeping
<1>5. Waiters'
  BY <1>1, <1>2 DEF e, RingOK, Turns, Waiters
<1>6. Wakers'
  BY <1>1, <1>2, WakersKept, Zenon DEF Sleeping
<1> QED
  BY <1>2, <1>3, <1>4, <1>5, <1>6, Zenon DEF RingOK

LEMMA RingPlace ==
  ASSUME TypeOK, RingOK, NEW r \in Requests, Place(r)
  PROVE  RingOK'
<1> USE DEF Waiting, Waking, Unseen
<1> DEFINE e == entry(r)
<1>1. /\ r \in Procs /\ (\A q \in Procs : entry(q) \in Entries) /\ \A q \in Requests : q \in Procs
      /\ pc[r] = "place" /\ Go(r, "place", "publish")
      /\ pc'[r] = "publish" /\ \A q \in Procs \ {r} : pc'[q] = pc[q]
      /\ holds[e] = NoRequest /\ slot[e] # "FULL"
      /\ sleepers'[r] = sleepers[r] + 1 /\ \A q \in Requests \ {r} : sleepers'[q] = sleepers[q]
      /\ holds'[e] = r /\ \A i \in Entries \ {e} : holds'[i] = holds[i]
      /\ UNCHANGED <<head, tail, slot, turn, found>>
  BY EntryType, Zenon DEF Place, NoNets, Waiters, Go, TypeOK, RingOK, entry, Procs, counters, ring, locals
<1>2. Turns' /\ \A q \in Procs : entry(q)' = entry(q)
  BY <1>1, TurnsKept, Zenon DEF RingOK, entry
<1> HIDE DEF e
<1>3. NoNets' /\ Groups'
  BY <1>1 DEF RingOK, NoNets, Groups
<1>4. Contents'
  BY <1>1, <1>2, ContentsMine, Zenon DEF Sleeping, e
<1>5. Waiters'
  <2>1. \A q \in Requests \ {r} : pc[q] \in Waiting => entry(q) # e
    BY <1>1, Zenon DEF e, RingOK, Turns
  <2> QED
    BY <1>1, <1>2, <2>1 DEF e, RingOK, Waiters
<1>6. Wakers'
  BY <1>1, <1>2, WakersKept, Zenon DEF Sleeping, e
<1> QED
  BY <1>2, <1>3, <1>4, <1>5, <1>6, Zenon DEF RingOK

LEMMA RingWithdraw ==
  ASSUME TypeOK, RingOK, NEW r \in Requests, Withdraw(r)
  PROVE  RingOK'
<1> USE DEF Waiting, Waking, Unseen
<1> DEFINE e == entry(r)
<1>1. /\ r \in Procs /\ (\A q \in Procs : entry(q) \in Entries) /\ \A q \in Requests : q \in Procs
      /\ pc[r] = "withdraw" /\ Go(r, "withdraw", "reset")
      /\ pc'[r] = "reset" /\ \A q \in Procs \ {r} : pc'[q] = pc[q]
      /\ slot[e] = "GO"
      /\ holds'[e] = NoRequest /\ \A i \in Entries \ {e} : holds'[i] = holds[i]
      /\ UNCHANGED <<head, tail, slot, sleepers, turn, found>>
  BY EntryType, Zenon DEF Withdraw, Clear, Waiters, Go, TypeOK, RingOK, entry, Procs, counters, ring, locals
<1>2. Turns' /\ \A q \in Procs : entry(q)' = entry(q)
  BY <1>1, TurnsKept, Zenon DEF RingOK, entry
<1> HIDE DEF e
<1>3. NoNets' /\ Groups'
  BY <1>1, Zenon DEF RingOK, NoNets, Groups
<1>4. Contents'
  BY <1>1, <1>2, ContentsMine, Zenon DEF Sleeping, e
<1>5. Waiters'
  <2>1. \A q \in Requests \ {r} : pc[q] \in Waiting => entry(q) # e
    BY <1>1, Zenon DEF e, RingOK, Turns
  <2> QED
    BY <1>1, <1>2, <2>1 DEF e, RingOK, Waiters
<1>6. Wakers'
  BY <1>1, <1>2, WakersKept, Zenon DEF Sleeping, e
<1> QED
  BY <1>2, <1>3, <1>4, <1>5, <1>6, Zenon DEF RingOK

LEMMA RingReset ==
  ASSUME TypeOK, RingOK, NEW r \in Requests, Reset(r)
  PROVE  RingOK'
<1> USE DEF Waiting, Waking, Unseen
<1> DEFINE e == entry(r)
<1>1. /\ r \in Procs /\ (\A q \in Procs : entry(q) \in Entries) /\ \A q \in Requests : q \in Procs
      /\ pc[r] = "reset" /\ Go(r, "reset", "releaseSelf")
      /\ pc'[r] = "releaseSelf" /\ \A q \in Procs \ {r} : pc'[q] = pc[q]
      /\ slot[e] = "GO" /\ holds[e] = NoRequest
      /\ slot'[e] = "EMPTY" /\ \A i \in Entries \ {e} : slot'[i] = slot[i]
      /\ UNCHANGED <<head, tail, holds, sleepers, turn, found>>
  BY EntryType, Zenon DEF Reset, Mark, Waiters, Go, TypeOK, RingOK, entry, Procs, counters, ring, locals
<1>2. Turns' /\ \A q \in Procs : entry(q)' = entry(q)
  BY <1>1, TurnsKept, Zenon DEF RingOK, entry
<1> HIDE DEF e
<1>3. NoNets' /\ Groups'
  BY <1>1, Zenon DEF RingOK, NoNets, Groups
<1>4. Contents'
  BY <1>1, <1>2, ContentsMine, Zenon DEF Sleeping, e
<1>5. Waiters'
  <2>1. \A q \in Requests \ {r} : pc[q] \in Waiting => entry(q) # e
    BY <1>1, Zenon DEF e, RingOK, Turns
  <2> QED
    BY <1>1, <1>2, <2>1 DEF e, RingOK, Waiters
<1>6. Wakers'
  BY <1>1, <1>2, WakersKept, Zenon DEF Sleeping, e
<1> QED
  BY <1>2, <1>3, <1>4, <1>5, <1>6, Zenon DEF RingOK

LEMMA RingReleaseSelf ==
  ASSUME TypeOK, RingOK, NEW r \in Requests, ReleaseSelf(r)
  PROVE  RingOK'
<1> USE DEF Waiting, Waking, Unseen
<1> DEFINE e == entry(r)
<1>1. /\ r \in Procs /\ (\A q \in Procs : entry(q) \in Entries) /\ \A q \in Requests : q \in Procs
      /\ pc[r] = "releaseSelf" /\ Go(r, "releaseSelf", "running")
      /\ pc'[r] = "running" /\ \A q \in Procs \ {r} : pc'[q] = pc[q]
      /\ sleepers'[r] = sleepers[r] - 1 /\ \A q \in Requests \ {r} : sleepers'[q] = sleepers[q]
      /\ found'[r] = NoRequest /\ \A q \in Procs \ {r} : found'[q] = found[q]
      /\ UNCHANGED <<head, tail, slot, holds, turn>>
  BY EntryType, Zenon DEF ReleaseSelf, Release, Go, TypeOK, RingOK, entry, Procs, counters, ring, locals
<1>2. Turns' /\ \A q \in Procs : entry(q)' = entry(q)
  BY <1>1, TurnsKept, Zenon DEF RingOK, entry
<1> HIDE DEF e
<1>3. NoNets' /\ Groups'
  BY <1>1, SMTT(20) DEF RingOK, NoNets, Groups
<1>4. Contents'
  BY <1>1, <1>2, ContentsKept, Zenon DEF Sleeping
<1>5. Waiters'
  BY <1>1, <1>2 DEF RingOK, Waiters
<1>6. Wakers'
  BY <1>1, <1>2, WakersKept, Zenon DEF Sleeping
<1> QED
  BY <1>2, <1>3, <1>4, <1>5, <1>6, Zenon DEF RingOK

LEMMA RingWake ==
  ASSUME TypeOK, RingOK, NEW r \in Requests, Wake(r)
  PROVE  RingOK'
<1> USE DEF Waiting, Waking, Unseen
<1> DEFINE e == entry(r)
<1>1. /\ r \in Procs /\ (\A q \in Procs : entry(q) \in Entries) /\ \A q \in Requests : q \in Procs
      /\ pc[r] = "asleep" /\ Go(r, "asleep", "running")
      /\ pc'[r] = "running" /\ \A q \in Procs \ {r} : pc'[q] = pc[q]
      /\ sleepers[r] = 0
      /\ UNCHANGED <<head, tail, slot, holds, sleepers, turn, found>>
  BY EntryType DEF Wake, Jump, Groups, Go, TypeOK, RingOK, entry, Procs, counters, ring, locals
<1>2. Turns' /\ \A q \in Procs : entry(q)' = entry(q)
  BY <1>1, TurnsKept, Zenon DEF RingOK, entry
<1> HIDE DEF e
<1>3. NoNets' /\ Groups'
  BY <1>1, Zenon DEF RingOK, NoNets, Groups
<1>7. ~Sleeping(r)
  BY <1>1 DEF Sleeping
<1>4. Contents'
  BY <1>1, <1>2, <1>7, ContentsKept, Zenon
<1>5. Waiters'
  BY <1>1, <1>2, Zenon DEF RingOK, Waiters
<1>6. Wakers'
  BY <1>1, <1>2, <1>7, WakersKept, Zenon
<1> QED
  BY <1>2, <1>3, <1>4, <1>5, <1>6, Zenon DEF RingOK

LEMMA RingPublish ==
  ASSUME TypeOK, RingOK, NEW r \in Requests, Publish(r)
  PROVE  RingOK'
<1> USE DEF Waiting, Waking, Unseen
<1> DEFINE e == entry(r)
<1>1. /\ r \in Procs /\ (\A q \in Procs : entry(q) \in Entries) /\ \A q \in Requests : q \in Procs
      /\ pc[r] = "publish" /\ holds[e] = r /\ slot[e] # "FULL" /\ sleepers[r] = 1
      /\ \A q \in Procs \ {r} : pc'[q] = pc[q]
      /\ UNCHANGED <<head, tail, holds, sleepers, turn, found>>
  BY EntryType, Zenon DEF Publish, MarkEmpty, Mark, Jump, Go, TypeOK, RingOK, Waiters, Groups, entry, Procs,
     counters, ring, locals
<1>2. \/ slot[e] = "EMPTY" /\ Go(r, "publish", "asleep") /\ slot' = [slot EXCEPT ![e] = "FULL"]
      \/ slot[e] = "GO" /\ Go(r, "publish", "withdraw") /\ slot' = slot
  BY <1>1, Zenon DEF Publish, MarkEmpty, Mark, Jump, TypeOK, ring
<1>3. Turns' /\ \A q \in Procs : entry(q)' = entry(q)
  BY <1>1, <1>2, TurnsKept, Zenon DEF RingOK, entry
<1>4. \A q \in Requests \ {r} : pc[q] \in Waiting => entry(q) # e
  BY <1>1, Zenon DEF RingOK, Turns
<1>7. /\ \A i \in Entries : holds[i] = NoRequest \/ holds[i] \in Procs
      /\ \A i \in Entries : holds[i] = r => i = e
  BY <1>1, NotHeld, Zenon DEF Sleeping
<1> HIDE DEF e
<1>5. CASE slot[e] = "EMPTY"
  <2>1. /\ pc'[r] = "asleep" /\ slot'[e] = "FULL" /\ \A i \in Entries \ {e} : slot'[i] = slot[i]
    BY <1>1, <1>2, <1>5, Zenon DEF Go, TypeOK, e
  <2>2. NoNets' /\ Groups'
    BY <1>1, <2>1, Zenon DEF RingOK, NoNets, Groups
  <2>3. Contents'
    <3> SUFFICES ASSUME NEW i \in Entries
                 PROVE  /\ holds[i] # NoRequest =>
                             /\ entry(holds[i]) = i
                             /\ \/ pc'[holds[i]] \in {"publish", "withdraw"}
                                \/ Sleeping(holds[i])' /\ slot'[i] = "FULL"
                        /\ slot'[i] = "FULL" =>
                             \/ holds[i] # NoRequest /\ Sleeping(holds[i])'
                             \/ \E k \in Procs : pc'[k] = "free" /\ entry(k) = i
      BY <1>1, <1>3, <1>7 DEF Contents
    <3>1. CASE i = e
      BY <1>1, <2>1, <3>1, RequestsAssumption, Zenon DEF e, Sleeping
    <3>2. CASE i # e
      BY <1>1, <1>7, <2>1, <3>2 DEF RingOK, Contents, Sleeping
    <3> QED
      BY <3>1, <3>2, Zenon
  <2>4. Waiters'
    BY <1>1, <1>3, <1>4, <2>1 DEF e, RingOK, Waiters
  <2>5. Wakers'
    BY <1>1, <1>3, <2>1, WakersKept, Zenon DEF Sleeping, e
  <2> QED
    BY <1>3, <2>2, <2>3, <2>4, <2>5, Zenon DEF RingOK
<1>6. CASE slot[e] = "GO"
  <2>1. pc'[r] = "withdraw" /\ slot' = slot
    BY <1>1, <1>2, <1>6, Zenon DEF Go, TypeOK
  <2>2. NoNets' /\ Groups'
    BY <1>1, <2>1, Zenon DEF RingOK, NoNets, Groups
  <2>3. Contents'
    BY <1>1, <1>3, <2>1, ContentsMine, Zenon DEF Sleeping, e
  <2>4. Waiters'
    BY <1>1, <1>3, <1>4, <1>6, <2>1, Zenon DEF e, RingOK, Waiters
  <2>5. Wakers'
    BY <1>1, <1>3, <2>1, WakersKept, Zenon DEF Sleeping
  <2> QED
    BY <1>3, <2>2, <2>3, <2>4, <2>5, Zenon DEF RingOK
<1> QED
  BY <1>2, <1>5, <1>6, Zenon


----------------------------------------------------------------------------
(* Types.                                                                  *)

LEMMA JumpType ==
  ASSUME TypeOK, NEW p \in Procs, NEW from, NEW to \in Steps, Jump(p, from, to)
  PROVE  TypeOK'
BY Zenon DEF TypeOK, Jump, Go, counters, ring, locals, seen

LEMMA CountType ==
  ASSUME TypeOK, NEW p \in Procs, NEW from, NEW to \in Steps, NEW runs \in Int, NEW queues \in Int,
         Count(p, from, to, runs, queues)
  PROVE  TypeOK'
BY DEF TypeOK, Count, Go, ring, locals, seen

LEMMA TakeTurnType ==
  ASSUME TypeOK, NEW p \in Procs, NEW to \in Steps, NEW n \in Nat,
         TakeTurn(p, to, n), head' \in Nat, tail' \in Nat
  PROVE  TypeOK'
<1>1. upset' \subseteq {"lapped", "scanned"}
  BY Zenon DEF TypeOK, TakeTurn
<1> QED
  BY <1>1, Zenon DEF TypeOK, TakeTurn, counters, seen

LEMMA MarkType ==
  ASSUME TypeOK, NEW p \in Procs, NEW from, NEW to \in Steps, NEW state \in {"EMPTY", "GO", "FULL"},
         Mark(p, from, to, state)
  PROVE  TypeOK'
BY Zenon DEF TypeOK, Mark, Go, counters, locals, seen

LEMMA MarkEmptyType ==
  ASSUME TypeOK, NEW p \in Procs, NEW from, NEW done \in Steps, NEW failed \in Steps,
         NEW state \in {"EMPTY", "GO", "FULL"}, MarkEmpty(p, from, state, done, failed)
  PROVE  TypeOK'
BY MarkType, JumpType, Zenon DEF MarkEmpty

LEMMA ClearType ==
  ASSUME TypeOK, NEW p \in Procs, NEW from, NEW to \in Steps, Clear(p, from, to)
  PROVE  TypeOK'
BY Zenon DEF TypeOK, Clear, Go, counters, locals, seen

LEMMA FindType ==
  ASSUME TypeOK, NEW p \in Procs, NEW from, NEW to \in Steps, Find(p, from, to)
  PROVE  TypeOK'
<1>1. holds[entry(p)] \in Requests \cup {NoRequest}
  BY EntryType, Zenon DEF TypeOK, entry
<1> QED
  BY <1>1, Zenon DEF TypeOK, Find, Go, counters, ring, seen

LEMMA ReleaseType ==
  ASSUME TypeOK, NEW p \in Procs, NEW from, NEW to \in Steps, NEW r, Release(p, from, to, r)
  PROVE  TypeOK'
<1>1. sleepers' \in [Requests -> Int]
  <2>1. CASE r \in Requests
    BY <2>1 DEF TypeOK, Release
  <2>2. CASE r \notin Requests
    BY <2>2, Zenon DEF TypeOK, Release
  <2> QED
    BY <2>1, <2>2, Zenon
<1> QED
  BY <1>1, Zenon DEF TypeOK, Release, Go, counters, ring, seen

LEMMA SeeType ==
  ASSUME TypeOK, NEW from, NEW to \in Steps, NEW runs \in Int, NEW queues \in Int,
         See(from, to, runs, queues), runCnt' \in Int, queueCnt' \in Int
  PROVE  TypeOK'
BY Zenon DEF TypeOK, See, Go, ring, locals, Procs

LEMMA RestType ==
  ASSUME TypeOK, NEW from, Rest(from), runCnt' \in Int, queueCnt' \in Int,
         sleepers' \in [Requests -> Int]
  PROVE  TypeOK'
<1>1. "rest" \in Steps
  BY Zenon DEF Steps
<1> QED
  BY <1>1 DEF TypeOK, Rest, Go, ring, Procs

LEMMA NextEntryType ==
  ASSUME TypeOK, NEW from, NextEntry(from)
  PROVE  TypeOK'
<1>1. "scan" \in Steps
  BY Zenon DEF Steps
<1>2. CASE Rest(from) /\ UNCHANGED <<counters, sleepers>>
  BY <1>2, RestType, Zenon DEF TypeOK, counters
<1>3. CASE Go(Checker, from, "scan") /\ turn' = [turn EXCEPT ![Checker] = @ + 1]
           /\ UNCHANGED <<counters, ring, sleepers, found, seen, upset>>
  BY <1>1, <1>3 DEF TypeOK, Go, counters, ring, seen, Procs
<1> QED
  BY <1>2, <1>3, Zenon DEF NextEntry

LEMMA TypeHandOver ==
  ASSUME TypeOK, NEW p \in Procs, HandOver(p)
  PROVE  TypeOK'
<1>0. /\ {"swap", "pick", "wipe", "free", "wake", "giveUp"} \subseteq Steps /\ Released(p) \in Steps
  BY Zenon DEF Steps, Released
<1>1. CASE TakeHead(p)
  <2>1. head + 1 \in Nat /\ head' \in Nat /\ tail' \in Nat /\ TakeTurn(p, "swap", head + 1)
    BY <1>1 DEF TypeOK, TakeHead
  <2> QED
    BY <1>0, <2>1, TakeTurnType, Zenon
<1>2. CASE Swap(p)
  BY <1>0, <1>2, MarkEmptyType, Zenon DEF Swap
<1>3. CASE Pick(p)
  BY <1>0, <1>3, FindType, Zenon DEF Pick
<1>4. CASE Wipe(p)
  BY <1>0, <1>4, ClearType, Zenon DEF Wipe
<1>5. CASE Free(p)
  BY <1>0, <1>5, MarkType, Zenon DEF Free
<1>6. CASE WakeFound(p)
  BY <1>0, <1>6, ReleaseType, Zenon DEF WakeFound
<1>7. CASE GiveUp(p)
  BY <1>0, <1>7, CountType DEF GiveUp
<1> QED
  BY <1>1, <1>2, <1>3, <1>4, <1>5, <1>6, <1>7, Zenon DEF HandOver

LEMMA TypeRequest ==
  ASSUME TypeOK, NEW r \in Requests, Enqueue(r) \/ AddRequest(r) \/ Dequeue(r)
  PROVE  TypeOK'
<1>0. /\ r \in Procs
      /\ {"backOff", "running", "reserve", "full", "takeTail", "refused", "look"} \subseteq Steps
      /\ {"evict", "place", "evicted", "runEvicted", "publish", "wakeEvicted"} \subseteq Steps
      /\ {"asleep", "withdraw", "reset", "releaseSelf", "claim", "quit"} \subseteq Steps
      /\ {"takeHead", "unclaim", "end"} \subseteq Steps
  BY DEF Procs, Steps
<1>1. CASE Enqueue(r)
  BY <1>0, <1>1, CountType DEF Enqueue, Arrive, BackOff, Reserve, Refuse
<1>2. CASE TakeTail(r)
  <2>1. tail + 1 \in Nat /\ head' \in Nat /\ tail' \in Nat /\ TakeTurn(r, "look", tail + 1)
    BY <1>2 DEF TypeOK, TakeTail
  <2> QED
    BY <1>0, <2>1, TakeTurnType, Zenon
<1>3. CASE Place(r)
  <2>1. pc' \in [Procs -> Steps]
    <3>1. PICK to \in Steps : Go(r, "place", to)
      BY <1>0, <1>3, Zenon DEF Place
    <3> QED
      BY <3>1, Zenon DEF TypeOK, Go
  <2>2. sleepers' \in [Requests -> Int] /\ holds' \in [Entries -> Requests \cup {NoRequest}]
    <3>1. /\ sleepers' = [sleepers EXCEPT ![r] = sleepers[r] + 1]
          /\ holds' = [holds EXCEPT ![entry(r)] = r]
      BY <1>3, Zenon DEF Place
    <3>2. sleepers \in [Requests -> Int] /\ holds \in [Entries -> Requests \cup {NoRequest}]
      BY Zenon DEF TypeOK
    <3>3. sleepers' \in [Requests -> Int]
      BY <3>1, <3>2
    <3>4. holds' \in [Entries -> Requests \cup {NoRequest}]
      BY <3>1, <3>2, Zenon
    <3> QED
      BY <3>3, <3>4, Zenon
  <2> QED
    BY <1>3, <2>1, <2>2, Zenon DEF TypeOK, Place, counters, locals, seen
<1>4. CASE Look(r) \/ Wake(r)
  BY <1>0, <1>4, JumpType, Zenon DEF Look, Wake
<1>5. CASE Evict(r)
  BY <1>0, <1>5, FindType, Zenon DEF Evict
<1>6. CASE Evicted(r) \/ Reset(r)
  BY <1>0, <1>6, MarkType, Zenon DEF Evicted, Reset
<1>7. CASE RunEvicted(r)
  BY <1>0, <1>7, CountType DEF RunEvicted
<1>8. CASE WakeEvicted(r) \/ ReleaseSelf(r)
  BY <1>0, <1>8, ReleaseType, Zenon DEF WakeEvicted, ReleaseSelf
<1>9. CASE Publish(r)
  BY <1>0, <1>9, MarkEmptyType, Zenon DEF Publish
<1>10. CASE Withdraw(r)
  BY <1>0, <1>10, ClearType, Zenon DEF Withdraw
<1>11. CASE Leave(r)
  BY <1>0, <1>11, JumpType, Zenon DEF Leave
<1>12. CASE Claim(r) \/ Unclaim(r) \/ Quit(r)
  BY <1>0, <1>12, CountType DEF Claim, Unclaim, Quit
<1> QED
  BY <1>0, <1>1, <1>2, <1>3, <1>4, <1>5, <1>6, <1>7, <1>8, <1>9, <1>10, <1>11, <1>12, TypeHandOver
    , Zenon DEF AddRequest, Dequeue

LEMMA TypeChecker ==
  ASSUME TypeOK, CheckWaiters
  PROVE  TypeOK'
<1>0. /\ Checker \in Procs /\ runCnt \in Int /\ queueCnt \in Int /\ sawRun \in Int /\ sawQueue \in Int
      /\ sleepers \in [Requests -> Int]
      /\ {"seeQueue", "loop", "rest", "scan", "pull", "unpull", "bump", "takeHead"} \subseteq Steps
      /\ {"scanRun", "scanSwap", "scanWipe", "scanBump", "scanWake"} \subseteq Steps
  BY DEF Procs, Steps, TypeOK
<1>1. CASE SeeRun \/ SeeQueue
  BY <1>0, <1>1, SeeType, Zenon DEF SeeRun, SeeQueue, counters
<1>2. CASE Loop
  <2>1. CASE Rest("loop") /\ UNCHANGED <<counters, sleepers>>
    BY <1>0, <2>1, RestType, Zenon DEF counters
  <2>2. CASE /\ Go(Checker, "loop", "scan") /\ turn' = [turn EXCEPT ![Checker] = 0]
             /\ UNCHANGED <<counters, ring, sleepers, found, seen, upset>>
    BY <1>0, <2>2, Zenon DEF TypeOK, Go, counters, ring, seen
  <2>3. CASE Jump(Checker, "loop", "pull")
    BY <1>0, <2>3, JumpType, Zenon
  <2> QED
    BY <1>2, <2>1, <2>2, <2>3, Zenon DEF Loop
<1>3. CASE Pull
  <2>1. /\ queueCnt - 1 \in Int /\ runCnt' \in Int /\ queueCnt' \in Int
        /\ See("pull", IF queueCnt - 1 < 0 THEN "unpull" ELSE "bump", sawRun, queueCnt - 1)
    BY <1>0, <1>3 DEF Pull
  <2> QED
    BY <1>0, <2>1, SeeType, Zenon
<1>4. CASE Unpull
  BY <1>0, <1>4, RestType DEF Unpull
<1>5. CASE Bump
  <2>1. /\ runCnt + 1 \in Int /\ runCnt' \in Int /\ queueCnt' \in Int
        /\ See("bump", "takeHead", runCnt + 1, sawQueue)
    BY <1>0, <1>5 DEF Bump
  <2> QED
    BY <1>0, <2>1, SeeType, Zenon
<1>6. CASE Scan
  BY <1>0, <1>6, FindType, NextEntryType, Zenon DEF Scan
<1>7. CASE ScanRun
  BY <1>0, <1>7, JumpType, NextEntryType, Zenon DEF ScanRun
<1>8. CASE ScanSwap
  <2>1. CASE NextEntry("scanSwap")
    BY <2>1, NextEntryType, Zenon
  <2>2. CASE /\ Go(Checker, "scanSwap", "scanWipe")
             /\ slot' = [slot EXCEPT ![entry(Checker)] = "EMPTY"] /\ upset' = upset \cup {"scanned"}
             /\ UNCHANGED <<counters, head, tail, holds, sleepers, locals, seen>>
    BY <1>0, <2>2, Zenon DEF TypeOK, Go, counters, locals, seen
  <2> QED
    BY <1>8, <2>1, <2>2, Zenon DEF ScanSwap
<1>9. CASE ScanWipe
  BY <1>0, <1>9, ClearType, Zenon DEF ScanWipe
<1>10. CASE ScanBump
  BY <1>0, <1>10, CountType DEF ScanBump
<1>11. CASE ScanWake
  <2>1. sleepers' \in [Requests -> Int]
    <3>1. CASE found[Checker] \in Requests
      BY <1>0, <1>11, <3>1 DEF ScanWake
    <3>2. CASE found[Checker] \notin Requests
      BY <1>0, <1>11, <3>2, Zenon DEF ScanWake
    <3> QED
      BY <3>1, <3>2, Zenon
  <2> QED
    BY <1>0, <1>11, <2>1, RestType, Zenon DEF ScanWake, counters
<1> QED
  BY <1>0, <1>1, <1>2, <1>3, <1>4, <1>5, <1>6, <1>7, <1>8, <1>9, <1>10, <1>11, TypeHandOver
    , Zenon DEF CheckWaiters

----------------------------------------------------------------------------
(* Counting goroutines.                                                    *)

Bit(b) == IF b THEN 1 ELSE 0

LEMMA ProcsFinite == IsFiniteSet(Procs)
BY RequestsAssumption, FS_AddElement, Zenon DEF Procs

\* A goroutine that moves is counted out of where it was and into where it is.
LEMMA AtMoves ==
  ASSUME TypeOK, NEW p \in Procs, NEW to, pc' = [pc EXCEPT ![p] = to], NEW S
  PROVE  At(S) \in Nat /\ At(S)' = At(S) - Bit(pc[p] \in S) + Bit(to \in S)
<1> DEFINE A == {q \in Procs : pc[q] \in S}
           B == {q \in Procs : pc'[q] \in S}
<1>1. A \in SUBSET Procs /\ At(S) = Cardinality(A) /\ At(S)' = Cardinality(B)
  BY Zenon DEF At
<1>2. pc'[p] = to /\ \A q \in Procs \ {p} : pc'[q] = pc[q]
  BY Zenon DEF TypeOK
<1>3. B \ {p} = A \ {p} /\ (p \in A <=> pc[p] \in S) /\ (p \in B <=> to \in S)
  BY <1>2, Zenon
<1> HIDE DEF A, B
<1>4. IsFiniteSet(A) /\ IsFiniteSet(A \ {p}) /\ Cardinality(A) \in Nat
  BY <1>1, ProcsFinite, FS_Subset, FS_RemoveElement, FS_CardinalityType, Zenon
<1>5. Cardinality(A \ {p}) = Cardinality(A) - Bit(p \in A)
  BY <1>4, FS_RemoveElement DEF Bit
<1>6. Cardinality(B) = Cardinality(A \ {p}) + Bit(p \in B)
  <2>1. CASE p \in B
    <3>1. B = (A \ {p}) \cup {p} /\ p \notin A \ {p}
      BY <1>3, <2>1, Zenon
    <3> QED
      BY <1>4, <2>1, <3>1, FS_AddElement, Zenon DEF Bit
  <2>2. CASE p \notin B
    <3>1. B = A \ {p}
      BY <1>3, <2>2, Zenon
    <3>2. Cardinality(A \ {p}) \in Nat
      BY <1>4, FS_CardinalityType, Zenon
    <3> QED
      BY <2>2, <3>1, <3>2 DEF Bit
  <2> QED
    BY <2>1, <2>2, Zenon
<1> QED
  BY <1>1, <1>3, <1>4, <1>5, <1>6, Zenon DEF Bit

----------------------------------------------------------------------------
(* The places in the queue.                                                *)

\* What a goroutine at this step makes queueCnt differ by from the turns.
Due(step) == Bit(step \in {"takeTail", "full"}) - Bit(step \in {"bump", "takeHead", "unclaim", "unpull"})

LEMMA PlacesBalance ==
  ASSUME TypeOK, TypeOK', PlacesAccounted, NEW p \in Procs, NEW to, pc' = [pc EXCEPT ![p] = to],
         queueCnt' = queueCnt + (tail' - tail) - (head' - head) + Due(to) - Due(pc[p])
  PROVE  PlacesAccounted'
<1> DEFINE T == At({"takeTail"})  B == At({"bump"})  H == At({"takeHead"})
           F == At({"full"})  U == At({"unclaim", "unpull"})
<1>1. /\ T \in Nat /\ B \in Nat /\ H \in Nat /\ F \in Nat /\ U \in Nat
      /\ T' = T - Bit(pc[p] \in {"takeTail"}) + Bit(to \in {"takeTail"})
      /\ B' = B - Bit(pc[p] \in {"bump"}) + Bit(to \in {"bump"})
      /\ H' = H - Bit(pc[p] \in {"takeHead"}) + Bit(to \in {"takeHead"})
      /\ F' = F - Bit(pc[p] \in {"full"}) + Bit(to \in {"full"})
      /\ U' = U - Bit(pc[p] \in {"unclaim", "unpull"}) + Bit(to \in {"unclaim", "unpull"})
  BY AtMoves, Zenon
<1>2. /\ queueCnt = (tail + T) - (head + B + H) + F - U
      /\ PlacesAccounted' <=> queueCnt' = (tail' + T') - (head' + B' + H') + F' - U'
  BY Zenon DEF PlacesAccounted
<1>3. ASSUME NEW s
      PROVE Due(s) = Bit(s \in {"takeTail"}) + Bit(s \in {"full"}) - Bit(s \in {"bump"})
                     - Bit(s \in {"takeHead"}) - Bit(s \in {"unclaim", "unpull"})
  BY DEF Due, Bit
<1>4. queueCnt \in Int /\ head \in Int /\ tail \in Int /\ head' \in Int /\ tail' \in Int
  BY DEF TypeOK
<1> HIDE DEF T, B, H, F, U
<1> QED
  BY <1>1, <1>2, <1>3, <1>4 DEF Bit

\* A step that leaves the queue alone.
LEMMA PlacesMove ==
  ASSUME TypeOK, TypeOK', PlacesAccounted, NEW p \in Procs, NEW from, NEW to, Go(p, from, to),
         Due(from) = 0, Due(to) = 0, UNCHANGED <<queueCnt, head, tail>>
  PROVE  PlacesAccounted'
<1>1. queueCnt' = queueCnt + (tail' - tail) - (head' - head) + Due(to) - Due(pc[p])
  BY DEF TypeOK, Go
<1> QED
  BY <1>1, PlacesBalance, Zenon DEF Go

\* Everywhere else a goroutine is not due to change anything.
LEMMA DueValues ==
  /\ Due("takeTail") = 1 /\ Due("full") = 1
  /\ Due("bump") = -1 /\ Due("takeHead") = -1 /\ Due("unclaim") = -1 /\ Due("unpull") = -1
  /\ \A s : s \notin {"takeTail", "full", "bump", "takeHead", "unclaim", "unpull"} => Due(s) = 0
BY DEF Due, Bit

LEMMA PlacesHandOver ==
  ASSUME TypeOK, TypeOK', PlacesAccounted, NEW p \in Procs, HandOver(p)
  PROVE  PlacesAccounted'
<1> USE DEF counters, ring
<1>0. Due(Released(p)) = 0
  BY DueValues, Zenon DEF Released
<1>1. CASE TakeHead(p)
  <2>1. /\ pc' = [pc EXCEPT ![p] = "swap"] /\ pc[p] = "takeHead"
        /\ queueCnt' = queueCnt /\ tail' = tail /\ head' = head + 1
    BY <1>1, Zenon DEF TakeHead, TakeTurn
  <2>2. queueCnt' = queueCnt + (tail' - tail) - (head' - head) + Due("swap") - Due(pc[p])
    BY <2>1, DueValues DEF TypeOK
  <2> QED
    BY <2>1, <2>2, PlacesBalance, Zenon
<1>2. ASSUME NEW from, NEW to, Go(p, from, to), UNCHANGED <<queueCnt, head, tail>>,
             from \in {"swap", "pick", "wipe", "free", "wake", "giveUp"},
             to \in {"pick", "wipe", "free", "wake", "giveUp", Released(p)}
      PROVE  PlacesAccounted'
  <2>1. Due(from) = 0 /\ Due(to) = 0
    BY <1>0, <1>2, DueValues, Zenon
  <2> QED
    BY <1>2, <2>1, PlacesMove, Zenon
<1>3. CASE Swap(p)
  BY <1>2, <1>3, Zenon DEF Swap, MarkEmpty, Mark, Jump
<1>4. CASE Pick(p) \/ Wipe(p)
  BY <1>2, <1>4, Zenon DEF Pick, Wipe, Find, Clear
<1>5. CASE Free(p)
  BY <1>2, <1>5, Zenon DEF Free, Mark
<1>6. CASE WakeFound(p)
  BY <1>2, <1>6, Zenon DEF WakeFound, Release
<1>7. CASE GiveUp(p)
  BY <1>2, <1>7 DEF GiveUp, Count, TypeOK
<1> QED
  BY <1>1, <1>3, <1>4, <1>5, <1>6, <1>7, Zenon DEF HandOver

LEMMA PlacesRequest ==
  ASSUME TypeOK, TypeOK', PlacesAccounted, NEW r \in Requests, Enqueue(r) \/ AddRequest(r) \/ Dequeue(r)
  PROVE  PlacesAccounted'
<1> USE DEF counters, ring
<1>0. r \in Procs
  BY Zenon DEF Procs
<1>1. ASSUME NEW from, NEW to, NEW queues \in Int, Go(r, from, to), queueCnt' = queueCnt + queues,
             UNCHANGED <<head, tail>>, queues = Due(to) - Due(from), Due(from) \in Int, Due(to) \in Int
      PROVE  PlacesAccounted'
  <2>1. pc' = [pc EXCEPT ![r] = to] /\ pc[r] = from
    BY <1>1, Zenon DEF Go
  <2>2. queueCnt' = queueCnt + (tail' - tail) - (head' - head) + Due(to) - Due(pc[r])
    BY <1>1, <2>1 DEF TypeOK
  <2> QED
    BY <1>0, <2>1, <2>2, PlacesBalance, Zenon
<1>2. ASSUME NEW from, NEW to, Go(r, from, to), UNCHANGED <<queueCnt, head, tail>>,
             from \notin {"takeTail", "full", "bump", "takeHead", "unclaim", "unpull"},
             to \notin {"takeTail", "full", "bump", "takeHead", "unclaim", "unpull"}
      PROVE  PlacesAccounted'
  BY <1>0, <1>2, DueValues, PlacesMove, Zenon
<1>3. CASE Arrive(r) \/ BackOff(r)
  BY <1>2, <1>3 DEF Arrive, BackOff, Count, TypeOK
<1>4. CASE Reserve(r)
  <2>1. PICK to \in {"full", "takeTail"} : Count(r, "reserve", to, 0, 1)
    BY <1>4, Zenon DEF Reserve
  <2> QED
    BY <2>1, <1>1, DueValues DEF Count
<1>5. CASE Refuse(r)
  BY <1>1, <1>5, DueValues DEF Refuse, Count
<1>6. CASE TakeTail(r)
  <2>1. /\ pc' = [pc EXCEPT ![r] = "look"] /\ pc[r] = "takeTail"
        /\ queueCnt' = queueCnt /\ tail' = tail + 1 /\ head' = head
    BY <1>6, Zenon DEF TakeTail, TakeTurn
  <2>2. queueCnt' = queueCnt + (tail' - tail) - (head' - head) + Due("look") - Due(pc[r])
    BY <2>1, DueValues DEF TypeOK
  <2> QED
    BY <1>0, <2>1, <2>2, PlacesBalance, Zenon
<1>7. CASE Look(r) \/ Wake(r) \/ Leave(r)
  BY <1>2, <1>7, Zenon DEF Look, Wake, Leave, Jump
<1>8. CASE Evict(r) \/ Withdraw(r)
  BY <1>2, <1>8, Zenon DEF Evict, Withdraw, Find, Clear
<1>9. CASE Evicted(r) \/ Reset(r)
  BY <1>2, <1>9, Zenon DEF Evicted, Reset, Mark
<1>10. CASE Place(r)
  BY <1>2, <1>10, Zenon DEF Place
<1>11. CASE RunEvicted(r) \/ Quit(r)
  BY <1>2, <1>11 DEF RunEvicted, Quit, Count, TypeOK
<1>12. CASE WakeEvicted(r) \/ ReleaseSelf(r)
  BY <1>2, <1>12, Zenon DEF WakeEvicted, ReleaseSelf, Release
<1>13. CASE Publish(r)
  BY <1>2, <1>13, Zenon DEF Publish, MarkEmpty, Mark, Jump
<1>14. CASE Claim(r)
  <2>1. PICK to \in {"takeHead", "unclaim"} : Count(r, "claim", to, 0, -1)
    BY <1>14, Zenon DEF Claim
  <2> QED
    BY <2>1, <1>1, DueValues DEF Count
<1>15. CASE Unclaim(r)
  BY <1>1, <1>15, DueValues DEF Unclaim, Count
<1> QED
  BY <1>0, <1>3, <1>4, <1>5, <1>6, <1>7, <1>8, <1>9, <1>10, <1>11, <1>12, <1>13, <1>14, <1>15,
     PlacesHandOver, Zenon DEF Enqueue, AddRequest, Dequeue

LEMMA PlacesChecker ==
  ASSUME TypeOK, TypeOK', PlacesAccounted, CheckWaiters
  PROVE  PlacesAccounted'
<1> USE DEF counters, ring
<1>0. Checker \in Procs
  BY Zenon DEF Procs
<1>1. ASSUME NEW from, NEW to, NEW queues \in Int, Go(Checker, from, to), queueCnt' = queueCnt + queues,
             UNCHANGED <<head, tail>>, queues = Due(to) - Due(from), Due(from) \in Int, Due(to) \in Int
      PROVE  PlacesAccounted'
  <2>1. pc' = [pc EXCEPT ![Checker] = to] /\ pc[Checker] = from
    BY <1>1, Zenon DEF Go
  <2>2. queueCnt' = queueCnt + (tail' - tail) - (head' - head) + Due(to) - Due(pc[Checker])
    BY <1>1, <2>1 DEF TypeOK
  <2> QED
    BY <1>0, <2>1, <2>2, PlacesBalance, Zenon
<1>2. ASSUME NEW from, NEW to, Go(Checker, from, to), UNCHANGED <<queueCnt, head, tail>>,
             from \notin {"takeTail", "full", "bump", "takeHead", "unclaim", "unpull"},
             to \notin {"takeTail", "full", "bump", "takeHead", "unclaim", "unpull"}
      PROVE  PlacesAccounted'
  BY <1>0, <1>2, DueValues, PlacesMove, Zenon
<1>3. CASE SeeRun \/ SeeQueue
  BY <1>2, <1>3, Zenon DEF SeeRun, SeeQueue, See
<1>4. CASE Loop
  BY <1>2, <1>4, Zenon DEF Loop, Rest, Jump
<1>5. CASE Pull
  <2>1. PICK to \in {"unpull", "bump"} : Go(Checker, "pull", to)
    BY <1>5, Zenon DEF Pull, See
  <2>2. queueCnt' = queueCnt + (-1) /\ UNCHANGED <<head, tail>>
    BY <1>5, Zenon DEF Pull, See, TypeOK
  <2> QED
    BY <2>1, <2>2, <1>1, DueValues
<1>6. CASE Unpull
  BY <1>1, <1>6, DueValues DEF Unpull, Rest
<1>7. CASE Bump
  <2>1. Go(Checker, "bump", "takeHead") /\ queueCnt' = queueCnt + 0 /\ UNCHANGED <<head, tail>>
    BY <1>7 DEF Bump, See, TypeOK
  <2> QED
    BY <2>1, <1>1, DueValues
<1>8. ASSUME NEW from \in {"scan", "scanRun", "scanSwap"}, NextEntry(from) PROVE PlacesAccounted'
  BY <1>2, <1>8, Zenon DEF NextEntry, Rest
<1>9. CASE Scan
  BY <1>2, <1>8, <1>9, Zenon DEF Scan, Find
<1>10. CASE ScanRun
  BY <1>2, <1>8, <1>10, Zenon DEF ScanRun, Jump
<1>11. CASE ScanSwap
  BY <1>2, <1>8, <1>11, Zenon DEF ScanSwap
<1>12. CASE ScanWipe
  BY <1>2, <1>12, Zenon DEF ScanWipe, Clear
<1>13. CASE ScanBump
  BY <1>2, <1>13 DEF ScanBump, Count, TypeOK
<1>14. CASE ScanWake
  BY <1>2, <1>14, Zenon DEF ScanWake, Rest
<1> QED
  BY <1>0, <1>3, <1>4, <1>5, <1>6, <1>7, <1>9, <1>10, <1>11, <1>12, <1>13, <1>14, PlacesHandOver
    , Zenon DEF CheckWaiters

----------------------------------------------------------------------------

LEMMA AtStart ==
  ASSUME Init, NEW S, S \cap {"new", "rest"} = {}
  PROVE  At(S) = 0
<1>1. \A p \in Procs : pc[p] \in {"new", "rest"}
  BY Zenon DEF Init
<1>2. {p \in Procs : pc[p] \in S} = {}
  BY <1>1, Zenon
<1> QED
  BY <1>2, FS_EmptySet, Zenon DEF At

LEMMA PlacesInit == Init => TypeOK /\ PlacesAccounted
<1> SUFFICES ASSUME Init PROVE TypeOK /\ PlacesAccounted
  OBVIOUS
<1>1. TypeOK
  BY SizeType DEF Init, TypeOK, Steps, Entries, Procs
<1>2. /\ At({"takeTail"}) = 0 /\ At({"bump"}) = 0 /\ At({"takeHead"}) = 0
      /\ At({"full"}) = 0 /\ At({"unclaim", "unpull"}) = 0
  BY AtStart, Zenon
<1> QED
  BY <1>1, <1>2 DEF Init, PlacesAccounted

LEMMA PlacesStep == TypeOK /\ PlacesAccounted /\ [Next]_vars => TypeOK' /\ PlacesAccounted'
<1> SUFFICES ASSUME TypeOK, PlacesAccounted, [Next]_vars PROVE TypeOK' /\ PlacesAccounted'
  OBVIOUS
<1>1. CASE Next
  <2>1. TypeOK'
    BY <1>1, TypeChecker, TypeRequest, Zenon DEF Next
  <2> QED
    BY <1>1, <2>1, PlacesChecker, PlacesRequest, Zenon DEF Next
<1>2. CASE UNCHANGED vars
  BY <1>2, Zenon DEF vars, counters, ring, locals, seen, TypeOK, PlacesAccounted, At
<1> QED
  BY <1>1, <1>2, Zenon

\* Also when goroutines are lapped and checkWaiters() scans the array, every correction
\* enqueue(), dequeue() and checkWaiters() make to queueCnt is made once: the turns
\* taken at the tail exceed the ones at the head by queueCnt, once those on their way
\* to a turn are accounted for.
THEOREM PlacesAreAccounted == Spec => []PlacesAccounted
BY PlacesInit, PlacesStep, PTL DEF Spec

----------------------------------------------------------------------------
(* The servicers.                                                          *)

\* A goroutine at this step has a servicer, or tried to get one.
Owning == {"backOff", "running", "claim", "unclaim", "quit", "takeHead", "swap", "pick",
           "wipe", "free", "wake", "giveUp"}

Owns(step) == Bit(step \in Owning)

LEMMA OwnsValues ==
  /\ \A s \in Owning : Owns(s) = 1
  /\ \A s : s \notin Owning => Owns(s) = 0
BY Zenon DEF Owns, Bit

LEMMA WokenCreditsFinite ==
  /\ IsFiniteSet(Woken) /\ Cardinality(Woken) \in Nat
  /\ IsFiniteSet(Credits) /\ Cardinality(Credits) \in Nat
<1>1. IsFiniteSet(Requests) /\ IsFiniteSet(Entries)
  BY RequestsAssumption, SizeType, FS_Interval DEF Entries
<1>2. Woken \in SUBSET Requests /\ Credits \in SUBSET Entries
  BY Zenon DEF Woken, Credits
<1> QED
  BY <1>1, <1>2, FS_Subset, FS_CardinalityType, Zenon

\* A step that changes runCnt by what changes hands.
LEMMA OwnedBalance ==
  ASSUME TypeOK, Undisturbed, ServicersOwned, NEW p \in Procs, NEW to, pc' = [pc EXCEPT ![p] = to],
         runCnt' = runCnt + (Owns(to) - Owns(pc[p])) + (Cardinality(Woken)' - Cardinality(Woken))
                   + (Cardinality(Credits)' - Cardinality(Credits)),
         Cardinality(Woken)' \in Int, Cardinality(Credits)' \in Int
  PROVE  ServicersOwned'
<1>1. At(Owning) \in Nat /\ At(Owning)' = At(Owning) - Bit(pc[p] \in Owning) + Bit(to \in Owning)
  BY AtMoves, Zenon
<1>2. runCnt = At(Owning) + Cardinality(Woken) + Cardinality(Credits)
  BY Zenon DEF ServicersOwned, Owning
<1>3. Cardinality(Woken) \in Nat /\ Cardinality(Credits) \in Nat
  BY WokenCreditsFinite, Zenon
<1>4. runCnt' = At(Owning)' + Cardinality(Woken)' + Cardinality(Credits)'
  BY <1>1, <1>2, <1>3 DEF Owns, Bit
<1> QED
  BY <1>4, Zenon DEF ServicersOwned, Owning

\* A step that hands no servicer over.
LEMMA OwnedMove ==
  ASSUME TypeOK, Undisturbed, ServicersOwned, NEW p \in Procs, NEW from, NEW to, Go(p, from, to),
         Woken' = Woken, Credits' = Credits, runCnt' = runCnt + Owns(to) - Owns(from)
  PROVE  ServicersOwned'
<1>1. /\ Cardinality(Woken)' = Cardinality(Woken) /\ Cardinality(Credits)' = Cardinality(Credits)
      /\ Cardinality(Woken) \in Int /\ Cardinality(Credits) \in Int
  BY WokenCreditsFinite
<1>2. /\ Owns(to) \in Int /\ Owns(from) \in Int /\ runCnt \in Int
      /\ pc[p] = from /\ pc' = [pc EXCEPT ![p] = to]
  BY DEF Owns, Bit, TypeOK, Go
<1>3. runCnt' = runCnt + (Owns(to) - Owns(pc[p])) + (Cardinality(Woken)' - Cardinality(Woken))
                + (Cardinality(Credits)' - Cardinality(Credits))
  BY <1>1, <1>2
<1> QED
  BY <1>1, <1>2, <1>3, OwnedBalance, Zenon

\* One goroutine, or one entry, more or less.
LEMMA OneMore ==
  ASSUME NEW S, IsFiniteSet(S), NEW x, x \notin S
  PROVE  Cardinality(S \cup {x}) = Cardinality(S) + 1 /\ Cardinality(S) \in Int
BY FS_AddElement, FS_CardinalityType

LEMMA OneLess ==
  ASSUME NEW S, IsFiniteSet(S), NEW x, x \in S
  PROVE  Cardinality(S \ {x}) = Cardinality(S) - 1 /\ Cardinality(S) \in Int
BY FS_RemoveElement, FS_CardinalityType

\* A step of a goroutine that has nothing to do with the entries.
LEMMA OwnedQuiet ==
  ASSUME TypeOK, Undisturbed, ServicersOwned, NEW p \in Procs, NEW from, NEW to, Go(p, from, to),
         from \notin {"releaseSelf", "asleep"}, to \notin {"releaseSelf", "asleep"},
         UNCHANGED <<slot, sleepers>>, runCnt' = runCnt + Owns(to) - Owns(from)
  PROVE  ServicersOwned'
<1>1. \A r \in Requests : r \in Procs
  BY Zenon DEF Procs
<1>2. \A r \in Procs : pc'[r] \in {"releaseSelf", "asleep"} \/ pc[r] \in {"releaseSelf", "asleep"}
                        => pc'[r] = pc[r]
  BY Zenon DEF Go, TypeOK
<1>3. Woken' = Woken /\ Credits' = Credits
  BY <1>1, <1>2, Zenon DEF Woken, Credits
<1> QED
  BY <1>3, OwnedMove, Zenon

\* The steps of a waiter on its entry: a waiter that finds GO takes the servicer
\* left there; one that is woken has been given one.
LEMMA OwnedWaiter ==
  ASSUME TypeOK, Undisturbed, ServicersOwned, RingOK, NEW r \in Requests,
         Place(r) \/ Publish(r) \/ Withdraw(r) \/ Reset(r) \/ ReleaseSelf(r) \/ Wake(r)
  PROVE  ServicersOwned'
<1> USE DEF counters, ring, locals
<1> DEFINE e == entry(r)
<1>0. /\ r \in Procs /\ e \in Entries /\ runCnt \in Int
      /\ \A from, to : Go(r, from, to) => pc'[r] = to /\ \A q \in Requests \ {r} : pc'[q] = pc[q]
  BY EntryType, Zenon DEF entry, TypeOK, Procs, Go
<1> HIDE DEF e
<1>1. CASE Place(r)
  <2>1. Go(r, "place", "publish") /\ UNCHANGED <<slot, runCnt>>
        /\ \A q \in Requests \ {r} : sleepers'[q] = sleepers[q]
    BY <1>0, <1>1, Zenon DEF Place, Go, TypeOK, RingOK, NoNets
  <2>2. Woken' = Woken /\ Credits' = Credits
    BY <1>0, <2>1 DEF Woken, Credits, Go
  <2> QED
    BY <1>0, <2>1, <2>2, OwnedMove, OwnsValues DEF Owning
<1>2. CASE Publish(r)
  <2>1. /\ sleepers[r] = 1 /\ UNCHANGED <<sleepers, runCnt>>
        /\ \/ slot[e] = "EMPTY" /\ Go(r, "publish", "asleep") /\ slot' = [slot EXCEPT ![e] = "FULL"]
           \/ Go(r, "publish", "withdraw") /\ slot' = slot
    BY <1>0, <1>2, Zenon DEF Publish, MarkEmpty, Mark, Jump, Go, RingOK, Groups, e
  <2>2. Credits' = Credits
    BY <1>0, <2>1, Zenon DEF Credits, TypeOK
  <2>3. Woken' = Woken
    BY <1>0, <2>1 DEF Woken, Go
  <2>4. runCnt' = runCnt + Owns("asleep") - Owns("publish")
          /\ runCnt' = runCnt + Owns("withdraw") - Owns("publish")
    BY <1>0, <2>1, OwnsValues DEF Owning
  <2> QED
    BY <1>0, <2>1, <2>2, <2>3, <2>4, OwnedMove, Zenon
<1>3. CASE Withdraw(r)
  <2>1. Go(r, "withdraw", "reset") /\ UNCHANGED <<slot, sleepers, runCnt>>
    BY <1>3, Zenon DEF Withdraw, Clear
  <2> QED
    BY <1>0, <2>1, OwnedQuiet, OwnsValues DEF Owning
<1>4. CASE Reset(r)
  <2>1. /\ Go(r, "reset", "releaseSelf") /\ slot[e] = "GO" /\ slot' = [slot EXCEPT ![e] = "EMPTY"]
        /\ UNCHANGED <<sleepers, runCnt>>
    BY <1>4, Zenon DEF Reset, Mark, RingOK, Waiters, Go, e
  <2>2. Credits' = Credits \ {e} /\ e \in Credits
    BY <1>0, <2>1, Zenon DEF Credits, TypeOK
  <2>3. Woken' = Woken \cup {r} /\ r \notin Woken
    BY <1>0, <2>1, Zenon DEF Woken, Go
  <2>4. Cardinality(Woken)' = Cardinality(Woken) + 1 /\ Cardinality(Woken) \in Int
    BY <2>3, WokenCreditsFinite, OneMore, Zenon
  <2>5. Cardinality(Credits)' = Cardinality(Credits) - 1 /\ Cardinality(Credits) \in Int
    BY <2>2, WokenCreditsFinite, OneLess, Zenon
  <2>6. Owns("releaseSelf") = 0 /\ Owns(pc[r]) = 0 /\ pc' = [pc EXCEPT ![r] = "releaseSelf"]
    BY <2>1, OwnsValues, Zenon DEF Owning, Go
  <2>7. runCnt' = runCnt + (Owns("releaseSelf") - Owns(pc[r])) + (Cardinality(Woken)' - Cardinality(Woken))
                  + (Cardinality(Credits)' - Cardinality(Credits))
    BY <1>0, <2>1, <2>4, <2>5, <2>6
  <2>8. r \in Procs /\ Cardinality(Woken)' \in Int /\ Cardinality(Credits)' \in Int
    BY <1>0, <2>4, <2>5
  <2> QED
    BY <2>6, <2>7, <2>8, OwnedBalance, Zenon
<1>5. CASE ReleaseSelf(r) \/ Wake(r)
  <2>1. PICK from \in {"releaseSelf", "asleep"} : Go(r, from, "running")
    BY <1>5, Zenon DEF ReleaseSelf, Release, Wake, Jump
  <2>2. /\ from = "asleep" => sleepers[r] = 0
        /\ \A q \in Requests \ {r} : sleepers'[q] = sleepers[q]
        /\ UNCHANGED <<slot, runCnt>>
    BY <1>0, <1>5, <2>1 DEF ReleaseSelf, Release, Wake, Jump, Go, RingOK, Groups, TypeOK
  <2>3. Woken' = Woken \ {r} /\ r \in Woken /\ Credits' = Credits
    <3>1. pc'[r] = "running" /\ pc[r] = from /\ \A q \in Requests \ {r} : pc'[q] = pc[q]
      BY <1>0, <2>1, Zenon DEF Go
    <3>2. \A q \in Requests : q \in Woken' <=> q \in Woken \ {r}
      BY <2>2, <3>1, Zenon DEF Woken
    <3>3. Woken' \subseteq Requests /\ Woken \subseteq Requests
      BY Zenon DEF Woken
    <3>4. r \in Woken /\ Credits' = Credits
      BY <2>1, <2>2, <3>1, Zenon DEF Woken, Credits
    <3> QED
      BY <3>2, <3>3, <3>4, Zenon
  <2>4. Cardinality(Woken)' = Cardinality(Woken) - 1 /\ Cardinality(Woken) \in Int
    BY <2>3, WokenCreditsFinite, OneLess, Zenon
  <2>5. Cardinality(Credits)' = Cardinality(Credits) /\ Cardinality(Credits) \in Int
    BY <2>3, WokenCreditsFinite
  <2>6. Owns("running") = 1 /\ Owns(pc[r]) = 0 /\ pc' = [pc EXCEPT ![r] = "running"]
    BY <2>1, OwnsValues, Zenon DEF Owning, Go
  <2>7. runCnt' = runCnt + (Owns("running") - Owns(pc[r])) + (Cardinality(Woken)' - Cardinality(Woken))
                  + (Cardinality(Credits)' - Cardinality(Credits))
    <3>1. runCnt' = runCnt /\ runCnt \in Int
      BY <1>0, <2>2, Zenon DEF TypeOK
    <3>2. Owns("running") = 1 /\ Owns(pc[r]) = 0
      BY <2>6, Zenon
    <3> QED
      BY <2>4, <2>5, <3>1, <3>2
  <2>8. r \in Procs /\ Cardinality(Woken)' \in Int /\ Cardinality(Credits)' \in Int
    BY <1>0, <2>4, <2>5
  <2> QED
    BY <2>6, <2>7, <2>8, OwnedBalance, Zenon
<1> QED
  BY <1>1, <1>2, <1>3, <1>4, <1>5, Zenon

\* The steps of a waker on an entry: it leaves its servicer there, or to the waiter.
LEMMA OwnedWaker ==
  ASSUME TypeOK, Undisturbed, ServicersOwned, RingOK, NEW p \in Procs, HandOver(p)
  PROVE  ServicersOwned'
<1> USE DEF counters, ring, locals
<1> DEFINE e == entry(p)
<1>0. /\ e \in Entries /\ runCnt \in Int /\ \A r \in Requests : r \in Procs
      /\ \A from, to : Go(p, from, to) => pc'[p] = to /\ \A q \in Procs \ {p} : pc'[q] = pc[q]
      /\ Released(p) \in {"end", "loop"}
      /\ \A s \in {"takeHead", "swap", "pick", "wipe", "free", "wake", "giveUp"} : Owns(s) = 1
      /\ Owns(Released(p)) = 0
  BY EntryType, OwnsValues, Zenon DEF entry, TypeOK, Procs, Go, Released, Owning
<1> HIDE DEF e
<1>1. CASE TakeHead(p) \/ Pick(p) \/ Wipe(p)
  <2>1. PICK from \in {"takeHead", "pick", "wipe"}, to \in {"swap", "wipe", "free"} :
          Go(p, from, to) /\ UNCHANGED <<slot, sleepers, runCnt>>
    BY <1>1, Zenon DEF TakeHead, TakeTurn, Pick, Find, Wipe, Clear, Go
  <2>2. runCnt' = runCnt + Owns(to) - Owns(from)
    BY <1>0, <2>1
  <2> QED
    BY <2>1, <2>2, OwnedQuiet, Zenon
<1>2. CASE GiveUp(p)
  <2>1. Go(p, "giveUp", Released(p)) /\ UNCHANGED <<slot, sleepers>> /\ runCnt' = runCnt - 1
    BY <1>0, <1>2, Zenon DEF GiveUp, Count
  <2>2. runCnt' = runCnt + Owns(Released(p)) - Owns("giveUp")
    BY <1>0, <2>1
  <2> QED
    BY <1>0, <2>1, <2>2, OwnedQuiet, Zenon
<1>3. CASE Free(p)
  <2>1. PICK to \in {"wake", "giveUp"} : Go(p, "free", to)
    BY <1>3, Zenon DEF Free, Mark
  <2>2. slot[e] = "FULL" /\ slot' = [slot EXCEPT ![e] = "EMPTY"] /\ UNCHANGED <<sleepers, runCnt>>
    BY <1>3, <2>1, Zenon DEF Free, Mark, RingOK, Wakers, Go, e
  <2>3. Woken' = Woken /\ Credits' = Credits
    BY <1>0, <2>1, <2>2, Zenon DEF Woken, Credits, Go, TypeOK
  <2>4. runCnt' = runCnt + Owns(to) - Owns("free")
    BY <1>0, <2>1, <2>2
  <2> QED
    BY <2>1, <2>3, <2>4, OwnedMove, Zenon
<1>4. CASE Swap(p)
  <2>1. CASE slot[e] = "EMPTY"
    <3>1. /\ Go(p, "swap", Released(p)) /\ slot' = [slot EXCEPT ![e] = "GO"]
          /\ UNCHANGED <<sleepers, runCnt>>
      BY <1>4, <2>1, Zenon DEF Swap, MarkEmpty, Mark, e
    <3>2. Credits' = Credits \cup {e} /\ e \notin Credits
      BY <1>0, <2>1, <3>1 DEF Credits, TypeOK
    <3>3. Woken' = Woken
      BY <1>0, <3>1, Zenon DEF Woken, Go
    <3>4. Cardinality(Woken)' = Cardinality(Woken) /\ Cardinality(Woken) \in Int
      BY <3>3, WokenCreditsFinite
    <3>5. Cardinality(Credits)' = Cardinality(Credits) + 1 /\ Cardinality(Credits) \in Int
      BY <3>2, WokenCreditsFinite, OneMore, Zenon
    <3>6. Owns(pc[p]) = 1 /\ pc' = [pc EXCEPT ![p] = Released(p)]
      BY <1>0, <3>1, Zenon DEF Go
    <3>7. runCnt' = runCnt + (Owns(Released(p)) - Owns(pc[p])) + (Cardinality(Woken)' - Cardinality(Woken))
                    + (Cardinality(Credits)' - Cardinality(Credits))
      BY <1>0, <3>1, <3>4, <3>5, <3>6
    <3>8. Cardinality(Woken)' \in Int /\ Cardinality(Credits)' \in Int
      BY <3>4, <3>5
    <3> QED
      BY <3>6, <3>7, <3>8, OwnedBalance, Zenon
  <2>2. CASE slot[e] # "EMPTY"
    <3>1. Go(p, "swap", "pick") /\ UNCHANGED <<slot, sleepers, runCnt>>
      BY <1>4, <2>2, Zenon DEF Swap, MarkEmpty, Jump, e
    <3>2. runCnt' = runCnt + Owns("pick") - Owns("swap")
      BY <1>0, <3>1
    <3> QED
      BY <3>1, <3>2, OwnedQuiet, Zenon
  <2> QED
    BY <2>1, <2>2, Zenon
<1>5. CASE WakeFound(p)
  <2>1. /\ Go(p, "wake", Released(p)) /\ UNCHANGED <<slot, runCnt>>
        /\ sleepers' = [sleepers EXCEPT ![found[p]] = sleepers[found[p]] - 1]
    BY <1>5, Zenon DEF WakeFound, Release
  <2>2. found[p] \in Requests /\ Sleeping(found[p]) /\ found[p] # p
    BY <2>1, Zenon DEF RingOK, Wakers, Go, Sleeping
  <2>3. /\ sleepers'[found[p]] = 0 /\ \A q \in Requests \ {found[p]} : sleepers'[q] = sleepers[q]
    BY <2>1, <2>2 DEF TypeOK, Sleeping
  <2>4. Woken' = Woken \cup {found[p]} /\ found[p] \notin Woken /\ Credits' = Credits
    BY <1>0, <2>1, <2>2, <2>3 DEF Woken, Credits, Go, Sleeping
  <2>5. Cardinality(Woken)' = Cardinality(Woken) + 1 /\ Cardinality(Woken) \in Int
    BY <2>4, WokenCreditsFinite, OneMore, Zenon
  <2>6. Cardinality(Credits)' = Cardinality(Credits) /\ Cardinality(Credits) \in Int
    BY <2>4, WokenCreditsFinite
  <2>7. Owns(pc[p]) = 1 /\ pc' = [pc EXCEPT ![p] = Released(p)]
    BY <1>0, <2>1, Zenon DEF Go
  <2>8. runCnt' = runCnt + (Owns(Released(p)) - Owns(pc[p])) + (Cardinality(Woken)' - Cardinality(Woken))
                  + (Cardinality(Credits)' - Cardinality(Credits))
    BY <1>0, <2>1, <2>5, <2>6, <2>7
  <2>9. Cardinality(Woken)' \in Int /\ Cardinality(Credits)' \in Int
    BY <2>5, <2>6
  <2> QED
    BY <2>7, <2>8, <2>9, OwnedBalance, Zenon
<1> QED
  BY <1>1, <1>2, <1>3, <1>4, <1>5, Zenon DEF HandOver

----------------------------------------------------------------------------
(* Both together, as long as nothing disturbs the order of turns.          *)

\* Where a goroutine is not at work on an entry, nor waiting or woken.
Away == {"new", "backOff", "reserve", "full", "refused", "takeTail", "running", "claim", "unclaim",
         "quit", "takeHead", "giveUp", "end", "rest", "seeQueue", "loop", "pull", "unpull", "bump",
         "scan", "scanRun", "scanSwap"}

LEMMA AwayStep ==
  ASSUME TypeOK, Undisturbed, ServicersOwned, RingOK, NEW p \in Procs,
         NEW from \in Away, NEW to \in Away, Go(p, from, to), runCnt' = runCnt + Owns(to) - Owns(from),
         UNCHANGED <<head, tail, slot, holds, sleepers>>,
         \A q \in Procs \ {p} : turn'[q] = turn[q],
         \A q \in Requests \cup (Procs \ {p}) : found'[q] = found[q]
  PROVE  ServicersOwned' /\ RingOK'
<1>1. /\ from \notin Waiting \cup Waking \cup Unseen \cup {"releaseSelf", "wake"}
      /\ to \notin Waiting \cup Waking \cup Unseen \cup {"releaseSelf", "wake"}
  BY DEF Away, Waiting, Waking, Unseen
<1>2. from \notin {"releaseSelf", "asleep"} /\ to \notin {"releaseSelf", "asleep"}
  BY Zenon DEF Away
<1> QED
  BY <1>1, <1>2, QuietStep, OwnedQuiet, Zenon

LEMMA AwayJump ==
  ASSUME TypeOK, Undisturbed, ServicersOwned, RingOK, NEW p \in Procs,
         NEW from \in Away, NEW to \in Away, Owns(from) = Owns(to), Jump(p, from, to)
  PROVE  ServicersOwned' /\ RingOK'
<1>1. runCnt' = runCnt + Owns(to) - Owns(from)
  BY OwnsValues DEF Jump, TypeOK, Owns, Bit, counters
<1> QED
  BY <1>1, AwayStep, Zenon DEF Jump, counters, ring, locals

LEMMA AwayCount ==
  ASSUME TypeOK, Undisturbed, ServicersOwned, RingOK, NEW p \in Procs,
         NEW from \in Away, NEW to \in Away, NEW queues, NEW runs \in Int,
         runs = Owns(to) - Owns(from), Count(p, from, to, runs, queues)
  PROVE  ServicersOwned' /\ RingOK'
<1>1. runCnt' = runCnt + Owns(to) - Owns(from)
  BY Zenon DEF Count, TypeOK, Owns, Bit
<1> QED
  BY <1>1, AwayStep, Zenon DEF Count, ring, locals

LEMMA OrderHandOver ==
  ASSUME TypeOK, Undisturbed, Undisturbed', ServicersOwned, RingOK, NEW p \in Procs, HandOver(p)
  PROVE  ServicersOwned' /\ RingOK'
<1>1. CASE GiveUp(p)
  <2>1. "giveUp" \in Away /\ Released(p) \in Away /\ -1 = Owns(Released(p)) - Owns("giveUp")
    BY OwnsValues DEF Away, Owning, Released
  <2> QED
    BY <1>1, <2>1, AwayCount DEF GiveUp
<1> QED
  BY <1>1, OwnedWaker, RingTakeHead, RingSwap, RingPick, RingWipe, RingFree, RingWakeFound,
     Zenon DEF HandOver

LEMMA OrderRequest ==
  ASSUME TypeOK, Undisturbed, Undisturbed', ServicersOwned, RingOK, NEW r \in Requests,
         Enqueue(r) \/ AddRequest(r) \/ Dequeue(r)
  PROVE  ServicersOwned' /\ RingOK'
<1>0. r \in Procs
  BY Zenon DEF Procs
<1>1. CASE Arrive(r)
  <2>1. PICK to \in {"backOff", "running"} : Count(r, "new", to, 1, 0)
    BY <1>1, Zenon DEF Arrive
  <2>2. to \in Away /\ "new" \in Away /\ 1 = Owns(to) - Owns("new")
    BY OwnsValues DEF Away, Owning
  <2> QED
    BY <1>0, <2>1, <2>2, AwayCount
<1>2. CASE BackOff(r) \/ Quit(r)
  <2>1. PICK from \in {"backOff", "quit"}, to \in {"reserve", "end"} : Count(r, from, to, -1, 0)
    BY <1>2, Zenon DEF BackOff, Quit
  <2>2. from \in Away /\ to \in Away /\ -1 = Owns(to) - Owns(from)
    BY OwnsValues DEF Away, Owning
  <2> QED
    BY <1>0, <2>1, <2>2, AwayCount
<1>3. CASE Reserve(r) \/ Refuse(r)
  <2>1. PICK from \in {"reserve", "full"}, to \in {"full", "takeTail", "refused"}, queues \in {-1, 1} :
          Count(r, from, to, 0, queues)
    BY <1>3, Zenon DEF Reserve, Refuse
  <2>2. from \in Away /\ to \in Away /\ 0 = Owns(to) - Owns(from)
    BY OwnsValues DEF Away, Owning
  <2> QED
    BY <1>0, <2>1, <2>2, AwayCount
<1>4. CASE Leave(r)
  <2>1. PICK to \in {"claim", "quit"} : Jump(r, "running", to)
    BY <1>4, Zenon DEF Leave
  <2>2. "running" \in Away /\ to \in Away /\ Owns("running") = Owns(to)
    BY OwnsValues, Zenon DEF Away, Owning
  <2> QED
    BY <1>0, <2>1, <2>2, AwayJump, Zenon
<1>5. CASE Claim(r) \/ Unclaim(r)
  <2>1. PICK from \in {"claim", "unclaim"}, to \in {"takeHead", "unclaim", "quit"}, queues \in {-1, 1} :
          Count(r, from, to, 0, queues)
    BY <1>5, Zenon DEF Claim, Unclaim
  <2>2. from \in Away /\ to \in Away /\ 0 = Owns(to) - Owns(from)
    BY OwnsValues DEF Away, Owning
  <2> QED
    BY <1>0, <2>1, <2>2, AwayCount
<1>6. CASE TakeTail(r) \/ Look(r)
  <2>1. RingOK'
    BY <1>6, RingTakeTail, RingLook, Zenon
  <2>2. PICK from \in {"takeTail", "look"}, to \in {"look", "evict", "place"} :
          Go(r, from, to) /\ UNCHANGED <<slot, sleepers, runCnt>>
    BY <1>6, Zenon DEF TakeTail, TakeTurn, Look, Jump, Go, counters, ring
  <2>3. Owns(to) = 0 /\ Owns(from) = 0 /\ runCnt' = runCnt + Owns(to) - Owns(from)
    BY <2>2, OwnsValues DEF Owning, TypeOK
  <2> QED
    BY <1>0, <2>1, <2>2, <2>3, OwnedQuiet, Zenon
<1>7. CASE Evict(r) \/ Evicted(r) \/ RunEvicted(r) \/ WakeEvicted(r)
  <2>1. pc[r] \in Unseen
    BY <1>7, Zenon DEF Evict, Evicted, RunEvicted, WakeEvicted, Find, Mark, Count, Release, Go, Unseen
  <2> QED
    BY <1>0, <2>1, Zenon DEF RingOK, NoNets
<1>8. CASE Place(r) \/ Publish(r) \/ Withdraw(r) \/ Reset(r) \/ ReleaseSelf(r) \/ Wake(r)
  BY <1>8, OwnedWaiter, RingPlace, RingPublish, RingWithdraw, RingReset, RingReleaseSelf, RingWake, Zenon
<1> QED
  BY <1>0, <1>1, <1>2, <1>3, <1>4, <1>5, <1>6, <1>7, <1>8, OrderHandOver
     DEF Enqueue, AddRequest, Dequeue

LEMMA OrderChecker ==
  ASSUME TypeOK, Undisturbed, Undisturbed', ServicersOwned, RingOK, CheckWaiters
  PROVE  ServicersOwned' /\ RingOK'
<1> USE DEF counters, ring, locals
<1>0. /\ Checker \in Procs /\ Checker \notin Requests
      /\ \A q \in Requests \cup (Procs \ {Checker}) : q \in Procs \ {Checker}
  BY RequestsAssumption, Zenon DEF Procs
<1>1. ASSUME NEW from \in {"rest", "seeQueue", "loop", "pull", "unpull", "scan", "scanRun", "scanSwap"},
             NEW to \in {"rest", "seeQueue", "loop", "pull", "unpull", "bump", "scan", "scanRun",
                          "scanSwap"},
             Go(Checker, from, to), UNCHANGED <<runCnt, head, tail, slot, holds, sleepers>>,
             \A q \in Procs \ {Checker} : turn'[q] = turn[q] /\ found'[q] = found[q]
      PROVE  ServicersOwned' /\ RingOK'
  <2>1. from \in Away /\ to \in Away /\ Owns(from) = 0 /\ Owns(to) = 0
    BY OwnsValues, Zenon DEF Away, Owning
  <2>2. runCnt' = runCnt + Owns(to) - Owns(from)
    BY <1>1, <2>1 DEF TypeOK
  <2> QED
    BY <1>0, <1>1, <2>1, <2>2, AwayStep, Zenon
<1>2. CASE SeeRun \/ SeeQueue
  BY <1>1, <1>2, Zenon DEF SeeRun, SeeQueue, See
<1>3. ASSUME NEW from \in {"loop", "unpull", "scan", "scanRun", "scanSwap"}, Rest(from),
             UNCHANGED <<runCnt, sleepers>>
      PROVE  ServicersOwned' /\ RingOK'
  BY <1>0, <1>1, <1>3, Zenon DEF Rest, TypeOK
<1>4. CASE Loop
  BY <1>0, <1>1, <1>3, <1>4, Zenon DEF Loop, Jump, TypeOK
<1>5. CASE Pull
  <2>1. PICK to \in {"unpull", "bump"} : Go(Checker, "pull", to)
    BY <1>5, Zenon DEF Pull, See
  <2> QED
    BY <1>1, <1>5, <2>1, Zenon DEF Pull, See
<1>6. CASE Unpull
  BY <1>3, <1>6, Zenon DEF Unpull
<1>7. CASE Bump
  <2>1. "bump" \in Away /\ "takeHead" \in Away /\ Owns("bump") = 0 /\ Owns("takeHead") = 1
    BY OwnsValues, Zenon DEF Away, Owning
  <2>2. /\ Go(Checker, "bump", "takeHead") /\ runCnt' = runCnt + 1
        /\ UNCHANGED <<head, tail, slot, holds, sleepers, turn, found>>
    BY <1>7, Zenon DEF Bump, See
  <2>3. runCnt' = runCnt + Owns("takeHead") - Owns("bump")
    BY <2>1, <2>2 DEF TypeOK
  <2> QED
    BY <1>0, <2>1, <2>2, <2>3, AwayStep, Zenon
<1>8. ASSUME NEW from \in {"scan", "scanRun", "scanSwap"}, NextEntry(from)
      PROVE  ServicersOwned' /\ RingOK'
  BY <1>0, <1>1, <1>3, <1>8, Zenon DEF NextEntry, TypeOK
<1>9. CASE Scan
  BY <1>0, <1>1, <1>8, <1>9, Zenon DEF Scan, Find, TypeOK
<1>10. CASE ScanRun
  BY <1>1, <1>8, <1>10, Zenon DEF ScanRun, Jump
<1>11. CASE ScanSwap
  BY <1>8, <1>11, Zenon DEF ScanSwap, Undisturbed
<1>12. CASE ScanWipe \/ ScanBump \/ ScanWake
  <2>1. pc[Checker] \in Unseen
    BY <1>12, Zenon DEF ScanWipe, ScanBump, ScanWake, Clear, Count, Rest, Go, Unseen
  <2> QED
    BY <1>0, <2>1, Zenon DEF RingOK, NoNets
<1> QED
  BY <1>0, <1>2, <1>4, <1>5, <1>6, <1>7, <1>9, <1>10, <1>11, <1>12, OrderHandOver DEF CheckWaiters

\* What disturbed the order of turns is never forgotten.
LEMMA UpsetGrows == Next => upset \subseteq upset'
<1>1. \A p \in Procs : HandOver(p) => upset \subseteq upset'
  BY Zenon DEF HandOver, TakeHead, TakeTurn, Swap, MarkEmpty, Mark, Jump, Pick, Find, Wipe, Clear, Free,
         WakeFound, Release, GiveUp, Count
<1>2. \A r \in Requests : Enqueue(r) => upset \subseteq upset'
  BY Zenon DEF Enqueue, Arrive, BackOff, Reserve, Refuse, Count
<1>3. \A r \in Requests : AddRequest(r) => upset \subseteq upset'
  BY Zenon DEF AddRequest, TakeTail, TakeTurn, Look, Jump, Evict, Find, Evicted, Mark, Place, RunEvicted,
         Count, WakeEvicted, Release, Publish, MarkEmpty, Withdraw, Clear, Reset, ReleaseSelf, Wake
<1>4. \A r \in Requests : Dequeue(r) => upset \subseteq upset'
  BY <1>1, Zenon DEF Dequeue, Leave, Jump, Claim, Unclaim, Quit, Count, Procs
<1>5. CheckWaiters => upset \subseteq upset'
  BY <1>1, Zenon DEF CheckWaiters, SeeRun, SeeQueue, See, Loop, Rest, Jump, Pull, Unpull, Bump, Scan, Find,
              NextEntry, ScanRun, ScanSwap, ScanWipe, Clear, ScanBump, Count, ScanWake, Procs
<1> QED
  BY <1>2, <1>3, <1>4, <1>5, Zenon DEF Next

----------------------------------------------------------------------------
(* The inductive invariant, and what follows from it.                      *)

Inv == TypeOK /\ PlacesAccounted /\ ServicersOwned /\ (Undisturbed => RingOK)

LEMMA InvInit == Init => Inv
<1> SUFFICES ASSUME Init PROVE Inv
  OBVIOUS
<1>1. TypeOK /\ PlacesAccounted
  BY PlacesInit, Zenon
<1>2. \A p \in Procs : pc[p] \in {"new", "rest"}
  BY Zenon DEF Init
<1>3. ServicersOwned
  <2>1. Woken = {} /\ Credits = {}
    BY <1>2, Zenon DEF Init, Woken, Credits, Procs
  <2>2. At(Owning) = 0
    BY AtStart, Zenon DEF Owning
  <2> QED
    BY <2>1, <2>2, FS_EmptySet DEF Init, ServicersOwned, Owning
<1>4. RingOK
  <2>1. /\ \A p \in Procs : pc[p] \notin Waiting \cup Waking \cup Unseen \cup {"wake", "releaseSelf"}
        /\ \A i \in Entries : holds[i] = NoRequest /\ slot[i] = "EMPTY"
        /\ \A p \in Procs : found[p] = NoRequest
        /\ \A r \in Requests : r \in Procs /\ sleepers[r] = 0
    BY <1>2, Zenon DEF Init, Waiting, Waking, Unseen, Procs
  <2>2. Turns /\ NoNets
    BY <2>1, Zenon DEF Turns, NoNets
  <2>3. Groups /\ Contents
    BY <2>1, Zenon DEF Groups, Contents, Waiting
  <2>4. Waiters /\ Wakers
    BY <2>1, Zenon DEF Waiters, Wakers, Waiting, Waking
  <2> QED
    BY <2>2, <2>3, <2>4, Zenon DEF RingOK
<1> QED
  BY <1>1, <1>3, <1>4, Zenon DEF Inv

LEMMA InvStep == Inv /\ [Next]_vars => Inv'
<1> SUFFICES ASSUME Inv, [Next]_vars PROVE Inv'
  OBVIOUS
<1> USE DEF Inv
<1>1. CASE Next
  <2>1. TypeOK' /\ PlacesAccounted'
    BY <1>1, PlacesStep, Zenon
  <2>2. Undisturbed' => Undisturbed
    BY <1>1, UpsetGrows, Zenon DEF Undisturbed
  <2>3. ASSUME Undisturbed' PROVE ServicersOwned' /\ RingOK'
    BY <1>1, <2>2, <2>3, OrderChecker, OrderRequest, Zenon DEF Next
  <2>4. ~ Undisturbed' => ServicersOwned'
    BY Zenon DEF ServicersOwned
  <2> QED
    BY <2>1, <2>3, <2>4, Zenon
<1>2. CASE UNCHANGED vars
  <2>0. UNCHANGED vars
    BY <1>2, Zenon
  <2> USE <2>0 DEF vars, counters, ring, locals, seen
  <2>1. TypeOK' /\ PlacesAccounted'
    BY PlacesStep, Zenon
  <2>2. ServicersOwned'
    BY Zenon DEF ServicersOwned, Undisturbed, At, Woken, Credits
  <2>3. RingOK => RingOK'
    <3>1. Turns => Turns'
      BY Zenon DEF Turns, entry
    <3>2. (NoNets => NoNets') /\ (Groups => Groups')
      BY Zenon DEF NoNets, Groups
    <3>3. ASSUME Contents PROVE Contents'
      <4>1. slot' = slot /\ holds' = holds /\ pc' = pc
        OBVIOUS
      <4>2. \A q : (Sleeping(q) => Asleep(q)) /\ After(q) = entry(q)
        BY Zenon DEF Sleeping, Asleep, After, entry
      <4>3. ASSUME NEW i \in Entries
            PROVE  /\ holds'[i] # NoRequest =>
                        /\ After(holds'[i]) = i
                        /\ pc'[holds'[i]] \in {"publish", "withdraw"}
                             \/ (Asleep(holds'[i]) /\ slot'[i] = "FULL")
                   /\ slot'[i] = "FULL" => \/ holds'[i] # NoRequest /\ Asleep(holds'[i])
                                           \/ \E k \in Procs : pc'[k] = "free" /\ After(k) = i
        <5>1. ASSUME NEW x, x = holds[i], x # NoRequest
              PROVE  After(x) = i /\ (pc[x] \in {"publish", "withdraw"} \/ (Asleep(x) /\ slot[i] = "FULL"))
          BY <3>3, <4>2, <5>1, Zenon DEF Contents
        <5>2. slot[i] = "FULL" => \/ holds[i] # NoRequest /\ Asleep(holds[i])
                                  \/ \E k \in Procs : pc[k] = "free" /\ After(k) = i
          BY <3>3, <4>2, Zenon DEF Contents
        <5> QED
          BY <4>1, <5>1, <5>2, Zenon
      <4> QED
        BY <4>3, Zenon DEF Contents, Sleeping, entry, Asleep, After
    <3>4. Waiters => Waiters'
      BY Zenon DEF Waiters, entry
    <3>5. Wakers => Wakers'
      BY ZenonT(30) DEF Wakers, Sleeping, entry
    <3> QED
      BY <3>1, <3>2, <3>3, <3>4, <3>5, Zenon DEF RingOK
  <2>4. Undisturbed' => Undisturbed
    BY Zenon DEF Undisturbed
  <2> QED
    BY <2>1, <2>2, <2>3, <2>4, Zenon
<1> QED
  BY <1>1, <1>2, Zenon

LEMMA Invariance == Spec => []Inv
BY InvInit, InvStep, PTL DEF Spec

\* For any number of requests, servicers and entries: as long as nobody was lapped
\* and checkWaiters() scanned nobody out of the array, runCnt of enqueue() and
\* dequeue() is exactly the number of servicers in somebody's hands or left in an
\* entry, and queueCnt is always the difference of the turns once those on their
\* way to one are accounted for.
THEOREM CountersAreExact == Spec => []CountersExact
<1>1. Inv => CountersExact
  BY Zenon DEF Inv, CountersExact
<1> QED
  BY <1>1, Invariance, PTL

\* Of the leaving request, the waiter itself and checkWaiters(), exactly one releases
\* the WaitGroup that setSleep() of addRequest() raised, however they interleave on
\* the entry: it never goes below zero, and it is back at zero before it is raised again.
THEOREM EachReleasedOnce == Spec => []OrderlyReleasedOnce
<1>1. Inv => OrderlyReleasedOnce
  BY DEF Inv, RingOK, Groups, OrderlyReleasedOnce, ReleasedOnce
<1> QED
  BY <1>1, Invariance, PTL

\* In the same runs the safety-net of addRequest() is never needed: a waiter never finds
\* its entry still taken, so no request is evicted into a servicer nobody counted.
THEOREM NobodyEvicted == Spec => [](Undisturbed => NoNets)
<1>1. Inv => (Undisturbed => NoNets)
  BY Zenon DEF Inv, RingOK
<1> QED
  BY <1>1, Invariance, PTL

=============================================================================
