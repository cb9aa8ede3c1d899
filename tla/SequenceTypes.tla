----------------------------- MODULE SequenceTypes -----------------------------
(***************************************************************************)
(* For every set of nodes, every width of the integers and every sequence: *)
(* the arithmetic of blocks, the types of SequenceValues, and that an      *)
(* entry of the document's version holds the document's parameters.        *)
(***************************************************************************)
EXTENDS SequenceValues, TLAPS

----------------------------------------------------------------------------
(* Arithmetic.                                                             *)

\* The first value of a block, before it wraps.
Raw(block, s) == block * s.cache * s.increment + s.base

LEMMA Modulo ==
  ASSUME NEW N \in Nat \ {0}, NEW a \in Int
  PROVE  /\ a % N \in 0 .. N - 1
         /\ a \in 0 .. N - 1 => a % N = a
         /\ a \in N .. 2 * N - 1 => a % N = a - N
<1>1. a % N \in 0 .. N - 1
  OBVIOUS
<1>2. ASSUME a \in 0 .. N - 1 PROVE a % N = a
  BY <1>2
<1>3. ASSUME a \in N .. 2 * N - 1 PROVE a % N = a - N
  BY <1>3
<1> QED
  BY <1>1, <1>2, <1>3, Zenon

\* An integer that fits is left alone, one that is a little too large comes out
\* at the other end.
LEMMA Wraps ==
  ASSUME NEW x \in Int
  PROVE  /\ Int64(x) \in Ints
         /\ x \in Ints => Int64(x) = x
         /\ x \in Half .. 3 * Half - 1 => Int64(x) = x - 2 * Half
<1> DEFINE N == 2 * Half
           a == x + Half
<1>1. N \in Nat \ {0} /\ a \in Int /\ Half \in Nat
  BY SequenceAssumption
<1>2. /\ a % N \in 0 .. N - 1
      /\ a \in 0 .. N - 1 => a % N = a
      /\ a \in N .. 2 * N - 1 => a % N = a - N
  BY <1>1, Modulo, Zenon
<1>3. Int64(x) = (a % N) - Half
  BY Zenon DEF Int64
<1> HIDE DEF N
<1>4. N = 2 * Half
  BY Zenon DEF N
<1> QED
  BY <1>1, <1>2, <1>3, <1>4 DEF Ints, MaxInt

\* A block holds at least one value, and no more than there are integers.
LEMMA StepBounds ==
  ASSUME NEW c \in Caches, NEW i \in Increments
  PROVE  /\ c \in Nat \ {0} /\ i \in Nat \ {0} /\ c * i \in 1 .. MaxInt
         /\ c <= MaxInt /\ i <= MaxInt
<1>1. c \in Nat \ {0} /\ i \in Nat \ {0} /\ c * i <= MaxInt /\ MaxInt \in Int
  BY SequenceAssumption DEF MaxInt
<1>2. c <= c * i /\ i <= c * i
  BY <1>1
<1>3. c * i \in Nat
  BY <1>1
<1> QED
  BY <1>1, <1>2, <1>3

LEMMA RawSteps ==
  ASSUME NEW block \in Int, NEW s, s.base \in Int, s.cache \in Int, s.increment \in Int
  PROVE  /\ Raw(block, s) \in Int
         /\ Raw(block + 1, s) = Raw(block, s) + s.cache * s.increment
         /\ Raw(block, s) = Raw(block - 1, s) + s.cache * s.increment
         /\ Raw(0, s) = s.base
BY DEF Raw

LEMMA RawGrows ==
  ASSUME NEW block \in Nat, NEW s, s.base \in Int, s.cache \in Nat, s.increment \in Nat
  PROVE  Raw(block, s) >= s.base
<1>1. block * s.cache * s.increment \in Nat
  OBVIOUS
<1> QED
  BY <1>1 DEF Raw

\* nextAvailableBlock: the first block that overflows is noticed.
LEMMA BlockExact ==
  ASSUME NEW block \in Nat, NEW s, s.base \in Ints, s.cache \in Caches,
         s.increment \in Increments, Raw(block - 1, s) <= MaxInt,
         ~Overflow(First(block - 1, s), First(block, s))
  PROVE  First(block, s) = Raw(block, s)
<1> DEFINE step == s.cache * s.increment
<1>1. step \in 1 .. MaxInt /\ s.cache \in Nat /\ s.increment \in Nat
  BY StepBounds, Zenon
<1>2. Half \in Nat \ {0} /\ MaxInt = Half - 1 /\ s.base \in Int /\ s.base >= -Half
  BY SequenceAssumption DEF MaxInt, Ints
<1>3. /\ Raw(block, s) \in Int /\ Raw(block - 1, s) \in Int
      /\ Raw(block, s) = Raw(block - 1, s) + step
  BY <1>1, <1>2, RawSteps
<1>4. Raw(block, s) >= s.base
  BY <1>1, <1>2, RawGrows, Zenon
<1>5. /\ First(block, s) = Int64(Raw(block, s))
      /\ First(block - 1, s) = Int64(Raw(block - 1, s))
  BY Zenon DEF First, Raw
<1> HIDE DEF step
<1>6. CASE Raw(block, s) <= MaxInt
  <2>1. Raw(block, s) \in Ints
    BY <1>2, <1>3, <1>4, <1>6 DEF Ints
  <2> QED
    BY <2>1, <1>3, <1>5, Wraps, Zenon
<1>7. CASE Raw(block, s) > MaxInt
  <2>1. Raw(block - 1, s) \in Ints
    <3>1. block # 0
      BY <1>1, <1>2, <1>7, RawSteps DEF Ints
    <3>2. Raw(block - 1, s) >= s.base
      BY <3>1, <1>1, <1>2, RawGrows
    <3> QED
      BY <3>2, <1>2, <1>3 DEF Ints
  <2>2. First(block - 1, s) = Raw(block - 1, s)
    BY <2>1, <1>3, <1>5, Wraps, Zenon
  <2>3. Raw(block, s) \in Half .. 3 * Half - 1
    BY <1>1, <1>2, <1>3, <1>7
  <2>4. First(block, s) = Raw(block, s) - 2 * Half
    BY <2>3, <1>3, <1>5, Wraps, Zenon
  <2>5. Raw(block - 1, s) <= First(block, s)
    BY <2>2, <2>4, <1>2, <1>3 DEF Overflow
  <2> QED
    BY <2>4, <2>5, <1>1, <1>2, <1>3
<1> QED
  BY <1>3, <1>2, <1>6, <1>7

\* checkCycle: a value that overflows is noticed.
LEMMA NextExact ==
  ASSUME NEW prev \in Ints, NEW i \in 0 .. MaxInt, ~(prev > Int64(prev + i))
  PROVE  Int64(prev + i) = prev + i
<1>1. Half \in Nat \ {0} /\ MaxInt = Half - 1 /\ prev \in Int /\ prev >= -Half /\ prev <= MaxInt
  BY SequenceAssumption DEF MaxInt, Ints
<1>2. CASE prev + i <= MaxInt
  BY <1>1, <1>2, Wraps DEF Ints
<1>3. CASE prev + i > MaxInt
  <2>1. Int64(prev + i) = prev + i - 2 * Half
    BY <1>1, <1>3, Wraps
  <2> QED
    BY <1>1, <2>1
<1> QED
  BY <1>1, <1>2, <1>3

----------------------------------------------------------------------------
(* The document and the entries.                                           *)

Places == {"idle", "locked", "block", "load", "update", "stuck"}

\* An entry of the document's version, once loaded, has the document's
\* parameters; and while the document is there, an entry in use stays cached.
Entry(n) ==
  /\ doc # None /\ ~cached[n] => pc[n] = "idle" /\ waiting[n] = 0 /\ loaders[n] = 0
  /\ doc # None => seq[n].version <= doc.version /\ got[n].version <= doc.version
  /\ doc # None /\ seq[n].version = doc.version /\ seq[n].cache > 0 =>
       seq[n].base = doc.base /\ seq[n].cache = doc.cache /\ seq[n].increment = doc.increment
  /\ seq[n].cache = 0 <=> seq[n].increment = 0
  /\ pc[n] \in {"block", "load"} => seq[n].remaining = 0 /\ (got[n].getOnly \/ seq[n].cache > 0)
  /\ pc[n] = "update" => alter[n].cache > 0 /\ alter[n].increment > 0

EntryInv == \A n \in Nodes : Entry(n)

\* What each variable may hold.
EntrySet == [base : Ints, cache : Caches \cup {0}, increment : Increments \cup {0},
             version : Nat, current : Ints, remaining : 0..MaxUint, accessed : BOOLEAN]
SeqType ==
  /\ seq \in [Nodes -> EntrySet]
  /\ \A n \in Nodes : seq[n].cache > 0 => seq[n].remaining < seq[n].cache
FlagType == cached \in [Nodes -> BOOLEAN] /\ stale \in [Nodes -> BOOLEAN] /\ news \in [Nodes -> BOOLEAN]
CountType == waiting \in [Nodes -> Nat] /\ loaders \in [Nodes -> Nat] /\ calls \in 0..MaxCalls
AlterSet == [cache : Caches \cup {0}, increment : Increments \cup {0}, restart : Ints, good : BOOLEAN]
GotSet == [block : Nat, version : Nat, getOnly : BOOLEAN]
OutType == given \subseteq Ints /\ twice \in BOOLEAN /\ last \in [Nodes -> Ints] /\ upset \subseteq Disturbances

LEMMA TypeParts ==
  TypeOK <=> /\ doc \in Docs \cup {None} /\ SeqType /\ FlagType /\ CountType
             /\ pc \in [Nodes -> Places] /\ alter \in [Nodes -> AlterSet]
             /\ got \in [Nodes -> GotSet] /\ OutType
BY Zenon DEF TypeOK, SeqType, EntrySet, FlagType, CountType, Places, AlterSet, GotSet, OutType

LEMMA DocTypes ==
  ASSUME TypeOK, doc # None
  PROVE  /\ doc \in Docs
         /\ doc.base \in Ints /\ doc.cache \in Caches /\ doc.increment \in Increments
         /\ doc.block \in Nat /\ doc.version \in Nat
BY Zenon DEF TypeOK, Docs

\* Which steps change what.
LEMMA Frame ==
  ASSUME NEW n \in Nodes, Call(n) \/ Work(n) \/ Hear(n)
  PROVE  /\ pc' = pc \/ \E p \in Places : /\ pc' = [pc EXCEPT ![n] = p]
                                          /\ p = "load" => TakeBlock(n)
                                          /\ p = "update" => Alter(n)
         /\ doc' = doc \/ TakeBlock(n) \/ AlterUpdate(n) \/ Drop(n)
         /\ alter' = alter \/ Validate(n) \/ Refresh(n) \/ TakeBlock(n) \/ Alter(n) \/ AlterRetry(n) \/ AlterUpdate(n) \/ Drop(n)
         /\ got' = got \/ NeedBlock(n) \/ TakeBlock(n) \/ Reload(n)
         /\ seq' = seq \/ Call(n) \/ Load(n) \/ NextCached(n) \/ NeedBlock(n) \/ TakeBlock(n) \/ Reload(n) \/ AlterUpdate(n)
         /\ UNCHANGED outVars \/ Lock(n) \/ NextCached(n) \/ TakeBlock(n) \/ Reload(n) \/ AlterUpdate(n)
<1>1. CASE Call(n)
  BY <1>1, Zenon DEF Call, Places, docVars, callVars, seqVars
<1>2. CASE Load(n)
  BY <1>2, Zenon DEF Load, Places, docVars, callVars, seqVars
<1>3. CASE Lock(n)
  BY <1>3, Zenon DEF Lock, Places, docVars, callVars, seqVars
<1>4. CASE Validate(n)
  BY <1>4, Zenon DEF Validate, Places, docVars, callVars, seqVars
<1>5. CASE Refresh(n)
  BY <1>5, Zenon DEF Refresh, Unlock, Places, docVars, callVars, seqVars
<1>6. CASE NotFound(n)
  BY <1>6, Zenon DEF NotFound, Unlock, Places, docVars, callVars, seqVars
<1>7. CASE NextCached(n)
  BY <1>7, Zenon DEF NextCached, Unlock, Places, docVars, callVars, seqVars
<1>8. CASE PrevCached(n)
  BY <1>8, Zenon DEF PrevCached, Unlock, Places, docVars, callVars, seqVars
<1>9. CASE NeedBlock(n)
  BY <1>9, Zenon DEF NeedBlock, Places, docVars, callVars, seqVars
<1>10. CASE TakeBlock(n)
  BY <1>10, Zenon DEF TakeBlock, Use, Unlock, Places, docVars, callVars, seqVars
<1>11. CASE Reload(n)
  BY <1>11, Zenon DEF Reload, Use, Unlock, Places, docVars, callVars, seqVars
<1>12. CASE Alter(n)
  BY <1>12, Zenon DEF Alter, Unlock, Places, docVars, callVars, seqVars
<1>13. CASE AlterRetry(n)
  BY <1>13, Zenon DEF AlterRetry, Places, docVars, callVars, seqVars
<1>14. CASE AlterUpdate(n)
  BY <1>14, Zenon DEF AlterUpdate, Unlock, Places, docVars, callVars, seqVars
<1>15. CASE Drop(n)
  BY <1>15, Zenon DEF Drop, Unlock, Places, docVars, callVars, seqVars
<1>16. CASE Hear(n)
  BY <1>16, Zenon DEF Hear, Places, docVars, callVars, seqVars
<1> QED
  BY <1>1, <1>2, <1>3, <1>4, <1>5, <1>6, <1>7, <1>8, <1>9, <1>10, <1>11, <1>12, <1>13, <1>14, <1>15, <1>16, Zenon DEF Work

\* The flags and the counts of the callers keep their types.
LEMMA FlagStep ==
  ASSUME FlagType, CountType, NEW n \in Nodes, Call(n) \/ Work(n) \/ Hear(n)
  PROVE  FlagType' /\ CountType'
<1> USE DEF FlagType, CountType, docVars, callVars, seqVars
<1>1. CASE Call(n)
  <2>1. calls' \in 0..MaxCalls /\ news' = news
    BY <1>1, SequenceAssumption DEF Call
  <2>2. CASE waiting' = [waiting EXCEPT ![n] = @ + 1] /\ UNCHANGED <<seqVars, loaders>>
    BY <2>1, <2>2
  <2>3. CASE /\ cached' = [cached EXCEPT ![n] = TRUE] /\ UNCHANGED waiting
             /\ \E b \in BOOLEAN : stale' = [stale EXCEPT ![n] = b]
             /\ loaders' = [loaders EXCEPT ![n] = @ + 1]
    BY <2>1, <2>3
  <2> QED
    BY <1>1, <2>2, <2>3, Zenon DEF Call
<1>2. CASE Load(n)
  <2>1. UNCHANGED <<news, calls>> /\ loaders[n] > 0 /\ loaders' = [loaders EXCEPT ![n] = @ - 1]
    BY <1>2, Zenon DEF Load
  <2>2. /\ waiting' = waiting \/ waiting' = [waiting EXCEPT ![n] = @ + 1]
        /\ cached' = cached \/ cached' = [cached EXCEPT ![n] = FALSE]
        /\ stale' = stale \/ stale' = [stale EXCEPT ![n] = FALSE]
    BY <1>2, Zenon DEF Load
  <2>3. loaders[n] - 1 \in Nat
    BY <2>1
  <2>4. (waiting \in [Nodes -> Nat])' /\ (loaders \in [Nodes -> Nat])' /\ (calls \in 0..MaxCalls)'
    BY <2>1, <2>2, <2>3
  <2>5. FlagType'
    BY <2>1, <2>2, Zenon
  <2> QED
    BY <2>4, <2>5, Zenon
<1>3. CASE Lock(n)
  BY <1>3 DEF Lock
<1>4. CASE Validate(n)
  BY <1>4, Zenon DEF Validate
<1>5. CASE Refresh(n)
  BY <1>5 DEF Refresh
<1>6. CASE NotFound(n)
  BY <1>6, Zenon DEF NotFound
<1>7. CASE NextCached(n)
  BY <1>7, Zenon DEF NextCached
<1>8. CASE PrevCached(n)
  BY <1>8, Zenon DEF PrevCached
<1>9. CASE NeedBlock(n)
  BY <1>9, Zenon DEF NeedBlock
<1>10. CASE TakeBlock(n)
  BY <1>10, Zenon DEF TakeBlock
<1>11. CASE Reload(n)
  BY <1>11, Zenon DEF Reload
<1>12. CASE Alter(n)
  BY <1>12, Zenon DEF Alter
<1>13. CASE AlterRetry(n)
  BY <1>13, Zenon DEF AlterRetry
<1>14. CASE AlterUpdate(n)
  BY <1>14, Zenon DEF AlterUpdate, nextRevision
<1>15. CASE Drop(n)
  BY <1>15, Zenon DEF Drop, nextRevision
<1>16. CASE Hear(n)
  BY <1>16, Zenon DEF Hear
<1> QED
  BY <1>1, <1>2, <1>3, <1>4, <1>5, <1>6, <1>7, <1>8, <1>9, <1>10, <1>11, <1>12, <1>13, <1>14, <1>15, <1>16, Zenon DEF Work

\* The document keeps its type.
LEMMA DocStep ==
  ASSUME TypeOK, EntryInv, NEW n \in Nodes, Call(n) \/ Work(n) \/ Hear(n)
  PROVE  doc' \in Docs \cup {None}
<1>1. doc \in Docs \cup {None}
  BY Zenon DEF TypeOK
<1>2. CASE TakeBlock(n)
  <2>1. doc # None /\ doc' = [doc EXCEPT !.block = IF got[n].getOnly THEN @ ELSE @ + 1]
    BY <1>2, Zenon DEF TakeBlock
  <2>2. doc \in Docs /\ doc.block \in Nat
    BY <2>1, DocTypes, Zenon
  <2>3. CASE got[n].getOnly
    BY <2>1, <2>2, <2>3, Zenon DEF Docs
  <2>4. CASE ~got[n].getOnly
    BY <2>1, <2>2, <2>4 DEF Docs
  <2> QED
    BY <2>3, <2>4, Zenon
<1>3. CASE AlterUpdate(n)
  <2>1. doc # None /\ doc' = Altered(seq[n], n) /\ pc[n] = "update"
    BY <1>3, Zenon DEF AlterUpdate
  <2>2. doc \in Docs /\ doc.version \in Nat
    BY <2>1, DocTypes, Zenon
  <2>3. alter[n].restart \in Ints /\ alter[n].cache \in Caches /\ alter[n].increment \in Increments
    BY <2>1, TypeParts DEF AlterSet, EntryInv, Entry
  <2>4. doc.version + 1 \in Nat
    BY <2>2
  <2> QED
    BY <2>1, <2>2, <2>3, <2>4, Zenon DEF Altered, Docs
<1>4. CASE Drop(n)
  BY <1>4, Zenon DEF Drop
<1> QED
  BY <1>1, <1>2, <1>3, <1>4, Frame, Zenon

LEMMA TouchType ==
  ASSUME alter \in [Nodes -> AlterSet], Touch
  PROVE  alter' \in [Nodes -> AlterSet]
<1>1. ASSUME NEW m \in Nodes PROVE [alter[m] EXCEPT !.good = FALSE] \in AlterSet
  BY Zenon DEF AlterSet
<1> QED
  BY <1>1, Zenon DEF Touch

\* What AlterSequence keeps has its type.
LEMMA AlterStep ==
  ASSUME TypeOK, NEW n \in Nodes, Call(n) \/ Work(n) \/ Hear(n)
  PROVE  alter' \in [Nodes -> AlterSet]
<1>1. alter \in [Nodes -> AlterSet]
  BY TypeParts, Zenon
<1>2. CASE Touch \/ alter' = alter
  BY <1>1, <1>2, TouchType, Zenon
<1>3. CASE Alter(n) /\ alter' # alter
  <2>1. doc # None /\ \E c \in Caches, i \in Increments : alter' = [alter EXCEPT ![n] =
          [cache |-> c, increment |-> i, restart |-> restartValue, good |-> TRUE]]
    BY <1>3, Zenon DEF Alter
  <2>2. doc.block \in Nat /\ doc.base \in Int /\ doc.cache \in Nat /\ doc.increment \in Nat
    <3>1. doc # None
      BY <2>1, Zenon
    <3>2. doc.block \in Nat /\ doc.base \in Ints /\ doc.cache \in Caches /\ doc.increment \in Increments
      BY <3>1, DocTypes, Zenon
    <3>3. Ints \subseteq Int /\ Caches \subseteq Nat /\ Increments \subseteq Nat
      BY SequenceAssumption DEF Ints, MaxInt
    <3> QED
      BY <3>2, <3>3, Zenon
  <2>3. doc.block * doc.cache * doc.increment + doc.base \in Int
    BY <2>2
  <2>4. restartValue \in Ints
    BY <2>3, Wraps, Zenon DEF restartValue, First
  <2> QED
    BY <1>1, <2>1, <2>4 DEF AlterSet
<1>4. CASE AlterRetry(n)
  BY <1>1, <1>4, Zenon DEF AlterRetry, AlterSet
<1>5. CASE AlterUpdate(n)
  <2>1. alter' = [m \in Nodes |-> IF m = n THEN NoAlter ELSE [alter[m] EXCEPT !.good = FALSE]]
    BY <1>5, Zenon DEF AlterUpdate
  <2>2. NoAlter \in AlterSet
    BY SequenceAssumption DEF NoAlter, Ints, MaxInt, AlterSet
  <2> QED
    BY <1>1, <2>1, <2>2, Zenon DEF AlterSet
<1>6. CASE Validate(n) \/ Refresh(n) \/ TakeBlock(n) \/ Drop(n)
  BY <1>2, <1>6, Zenon DEF Validate, Refresh, TakeBlock, Drop
<1> QED
  BY <1>2, <1>3, <1>4, <1>5, <1>6, Frame, Zenon

\* What nextAvailableBlock keeps has its type.
LEMMA GotStep ==
  ASSUME TypeOK, NEW n \in Nodes, Call(n) \/ Work(n) \/ Hear(n)
  PROVE  got' \in [Nodes -> GotSet]
<1>1. got \in [Nodes -> GotSet] /\ NoBlock \in GotSet
  BY TypeParts, Zenon DEF NoBlock, GotSet
<1>2. CASE NeedBlock(n)
  BY <1>1, <1>2, Zenon DEF NeedBlock, GotSet
<1>3. CASE TakeBlock(n)
  <2>1. doc.block \in Nat /\ doc.version \in Nat
    BY <1>3, DocTypes, Zenon DEF TakeBlock
  <2>2. \/ got' = [got EXCEPT ![n] = NoBlock]
        \/ got' = [got EXCEPT ![n].block = doc.block, ![n].version = doc.version]
    BY <1>3, Zenon DEF TakeBlock
  <2> QED
    BY <1>1, <2>1, <2>2 DEF GotSet
<1>4. CASE Reload(n)
  BY <1>1, <1>4, Zenon DEF Reload
<1> QED
  BY <1>1, <1>2, <1>3, <1>4, Frame, Zenon

\* cacheBlock: the entry with a block to hand out.
Full(block, s) ==
  [s EXCEPT !.current = First(block, s), !.remaining = (s.cache - 1) % (2 * Half)]

LEMMA FirstType ==
  ASSUME NEW block \in Int, NEW s, s.base \in Int, s.cache \in Int, s.increment \in Int
  PROVE  First(block, s) \in Ints
<1>1. block * s.cache * s.increment + s.base \in Int
  OBVIOUS
<1> QED
  BY <1>1, Wraps, Zenon DEF First

LEMMA EntryTypes ==
  ASSUME NEW s \in EntrySet
  PROVE  /\ s.base \in Int /\ s.cache \in Nat /\ s.increment \in Nat /\ s.current \in Int
         /\ s.remaining \in Nat /\ s.version \in Nat
         /\ s.cache > 0 => s.cache \in Caches
         /\ s.increment > 0 => s.increment \in Increments
<1>1. /\ Caches \subseteq Nat /\ Increments \subseteq Nat /\ Half \in Int
  BY SequenceAssumption
<1>2. /\ s.base \in Ints /\ s.current \in Ints /\ s.cache \in Caches \cup {0}
      /\ s.increment \in Increments \cup {0} /\ s.remaining \in 0..MaxUint
      /\ s.version \in Nat
  BY Zenon DEF EntrySet
<1>3. Ints \subseteq Int /\ 0..MaxUint \subseteq Nat
  BY <1>1 DEF Ints, MaxInt, MaxUint
<1>4. s.base \in Int /\ s.current \in Int /\ s.remaining \in Nat
  BY <1>2, <1>3, Zenon
<1>5. s.cache \in Nat /\ (s.cache > 0 => s.cache \in Caches)
  <2>1. CASE s.cache = 0
    BY <2>1
  <2>2. CASE s.cache \in Caches
    BY <1>1, <2>2, Zenon
  <2> QED
    BY <1>2, <2>1, <2>2, Zenon
<1>6. s.increment \in Nat /\ (s.increment > 0 => s.increment \in Increments)
  <2>1. CASE s.increment = 0
    BY <2>1
  <2>2. CASE s.increment \in Increments
    BY <1>1, <2>2, Zenon
  <2> QED
    BY <1>2, <2>1, <2>2, Zenon
<1> QED
  BY <1>2, <1>4, <1>5, <1>6, Zenon

LEMMA FullType ==
  ASSUME NEW block \in Int, NEW s \in EntrySet, (s.cache = 0) <=> (s.increment = 0)
  PROVE  /\ Full(block, s) \in EntrySet
         /\ s.cache > 0 => Full(block, s).remaining = s.cache - 1
<1>1. First(block, s) \in Ints
  BY EntryTypes, FirstType
<1>2. /\ (s.cache - 1) % (2 * Half) \in 0..MaxUint
      /\ s.cache > 0 => (s.cache - 1) % (2 * Half) = s.cache - 1
  <2>1. 2 * Half \in Nat \ {0} /\ s.cache - 1 \in Int
    BY SequenceAssumption, EntryTypes
  <2>2. ASSUME s.cache > 0 PROVE s.cache - 1 \in 0 .. 2 * Half - 1
    <3>1. s.cache \in Caches /\ s.increment \in Increments
      BY <2>2, EntryTypes
    <3>2. s.cache \in Nat \ {0} /\ s.cache <= MaxInt
      BY <3>1, StepBounds, Zenon
    <3> QED
      BY <3>2, SequenceAssumption DEF MaxInt
  <2> DEFINE N == 2 * Half
             a == s.cache - 1
  <2>3. a % N \in 0 .. N - 1 /\ (a \in 0 .. N - 1 => a % N = a)
    <3>1. N \in Nat \ {0} /\ a \in Int
      BY <2>1, Zenon
    <3> HIDE DEF N, a
    <3> QED
      BY <3>1, Modulo, Zenon
  <2> QED
    BY <2>2, <2>3, Zenon DEF MaxUint
<1> QED
  BY <1>1, <1>2, Zenon DEF Full, EntrySet

\* The three ways nextAvailableBlock and cacheBlock end.
LEMMA UseCases ==
  ASSUME NEW n \in Nodes, NEW block, NEW s, Use(n, block, s)
  PROVE  /\ pc' = [pc EXCEPT ![n] = "idle"]
         /\ \/ /\ seq' = [seq EXCEPT ![n] = s] /\ UNCHANGED outVars
            \/ /\ seq' = [seq EXCEPT ![n] = Full(block, s)] /\ UNCHANGED outVars
               /\ s.increment > 0 /\ First(block, s) > Limit
            \/ /\ seq' = [seq EXCEPT ![n] = Full(block, s)]
               /\ got[n].getOnly \/ ~Overflow(First(block - 1, s), First(block, s))
               /\ ~(s.increment > 0 /\ First(block, s) > Limit)
               /\ Give(n, First(block, s))
               /\ upset' = upset \cup Noted(block, s, got[n].getOnly)
BY Zenon DEF Use, Full, Unlock

\* sequence.load, and a new entry.
LEMMA LoadType ==
  ASSUME TypeOK, doc # None, NEW s \in EntrySet
  PROVE  /\ load(s) \in EntrySet
         /\ load(s).base = doc.base /\ load(s).cache = doc.cache
         /\ load(s).increment = doc.increment /\ load(s).version = doc.version
         /\ load(s).remaining = 0 /\ load(s).cache > 0 /\ load(s).increment > 0
<1>1. /\ doc.base \in Ints /\ doc.cache \in Caches /\ doc.increment \in Increments
      /\ doc.version \in Nat
  BY DocTypes, Zenon
<1>2. doc.cache > 0 /\ doc.increment > 0
  BY <1>1, StepBounds
<1>3. 0 \in 0..MaxUint
  BY SequenceAssumption DEF MaxUint
<1> QED
  BY <1>1, <1>2, <1>3, Zenon DEF load, EntrySet

LEMMA NewEntryType == NewEntry \in EntrySet
BY SequenceAssumption DEF NewEntry, EntrySet, Ints, MaxInt, MaxUint

\* The entries keep their types.
LEMMA SeqStep ==
  ASSUME TypeOK, EntryInv, NEW n \in Nodes, Call(n) \/ Work(n) \/ Hear(n)
  PROVE  SeqType'
<1>a. seq \in [Nodes -> EntrySet] /\ doc \in Docs \cup {None}
  BY TypeParts, Zenon DEF SeqType
<1>b. \A m \in Nodes : seq[m].cache > 0 => seq[m].remaining < seq[m].cache
  BY TypeParts, Zenon DEF SeqType
<1>c. ASSUME NEW s \in EntrySet, s.cache > 0 => s.remaining < s.cache,
             seq' = [seq EXCEPT ![n] = s]
      PROVE  SeqType'
  BY <1>a, <1>b, <1>c, Zenon DEF SeqType
<1>d. ASSUME seq' = seq PROVE SeqType'
  BY <1>a, <1>b, <1>d, Zenon DEF SeqType
<1>e. ASSUME NEW block \in Int, NEW s \in EntrySet, s.remaining = 0,
             (s.cache = 0) <=> (s.increment = 0), Use(n, block, s)
      PROVE  SeqType'
  <2>1. Full(block, s) \in EntrySet /\ (s.cache > 0 => Full(block, s).remaining = s.cache - 1)
    BY <1>e, FullType, Zenon
  <2>2. Full(block, s).cache = s.cache
    BY <1>e, Zenon DEF Full, EntrySet
  <2>3. s.cache \in Nat
    BY EntryTypes, Zenon
  <2>4. seq' = [seq EXCEPT ![n] = s] \/ seq' = [seq EXCEPT ![n] = Full(block, s)]
    BY <1>e, UseCases
  <2>5. CASE seq' = [seq EXCEPT ![n] = s]
    BY <1>c, <1>e, <2>3, <2>5, Zenon
  <2>6. CASE seq' = [seq EXCEPT ![n] = Full(block, s)]
    <3>1. s.cache > 0 => s.cache - 1 < s.cache
      BY <2>3
    <3>2. Full(block, s).cache > 0 => Full(block, s).remaining < Full(block, s).cache
      BY <2>1, <2>2, <3>1, Zenon
    <3> QED
      BY <1>c, <2>1, <2>6, <3>2, Zenon
  <2> QED
    BY <2>4, <2>5, <2>6, Zenon
<1>2. CASE Call(n)
  <2>1. CASE seq' = seq
    BY <1>d, <2>1, Zenon
  <2>2. CASE seq' = [seq EXCEPT ![n] = NewEntry]
    BY <1>c, <2>2, NewEntryType, Zenon DEF NewEntry
  <2> QED
    BY <1>2, <2>1, <2>2, Zenon DEF Call, seqVars
<1>3. CASE Load(n)
  <2>1. CASE seq' = seq
    BY <1>d, <2>1, Zenon
  <2>2. CASE doc # None /\ seq' = [seq EXCEPT ![n] = load(seq[n])]
    <3>1. load(seq[n]) \in EntrySet /\ load(seq[n]).remaining = 0
      BY <1>a, <2>2, LoadType, Zenon
    <3>2. load(seq[n]).cache \in Nat
      BY <3>1, EntryTypes, Zenon
    <3> QED
      BY <1>c, <2>2, <3>1, <3>2, Zenon
  <2> QED
    BY <1>3, <2>1, <2>2, Zenon DEF Load
<1>4. CASE NextCached(n)
  <2> DEFINE s1 == [seq[n] EXCEPT !.accessed = TRUE, !.remaining = @ - 1]
             c1 == Int64(seq[n].current + seq[n].increment)
             s2 == [s1 EXCEPT !.current = c1]
  <2>1. seq[n] \in EntrySet /\ seq[n].remaining > 0
    BY <1>a, <1>4, Zenon DEF NextCached
  <2>2. /\ seq[n].remaining - 1 \in 0..MaxUint
        /\ seq[n].cache > 0 => seq[n].remaining - 1 < seq[n].cache
    BY <2>1, <1>b, EntryTypes, SequenceAssumption DEF EntrySet, MaxUint
  <2>3. c1 \in Ints
    BY <2>1, EntryTypes, Wraps
  <2>4. s1 \in EntrySet /\ s2 \in EntrySet
    BY <2>1, <2>2, <2>3, Zenon DEF EntrySet
  <2>5. /\ s1.cache = seq[n].cache /\ s1.remaining = seq[n].remaining - 1
        /\ s2.cache = seq[n].cache /\ s2.remaining = seq[n].remaining - 1
    BY <2>1, Zenon DEF EntrySet
  <2>6. seq' = [seq EXCEPT ![n] = s1] \/ seq' = [seq EXCEPT ![n] = s2]
    BY <1>a, <1>4, Zenon DEF NextCached
  <2> HIDE DEF s1, s2
  <2> QED
    BY <1>c, <2>2, <2>4, <2>5, <2>6, Zenon
<1>5. CASE NeedBlock(n)
  <2>1. seq' = [seq EXCEPT ![n] = [seq[n] EXCEPT !.accessed = TRUE]]
    BY <1>a, <1>5, Zenon DEF NeedBlock
  <2>2. /\ [seq[n] EXCEPT !.accessed = TRUE] \in EntrySet
        /\ [seq[n] EXCEPT !.accessed = TRUE].cache = seq[n].cache
        /\ [seq[n] EXCEPT !.accessed = TRUE].remaining = seq[n].remaining
    BY <1>a, Zenon DEF EntrySet
  <2> QED
    BY <1>b, <1>c, <2>1, <2>2, Zenon
<1>6. CASE TakeBlock(n)
  <2>1. CASE seq' = seq
    BY <1>d, <2>1, Zenon
  <2>2. CASE Use(n, doc.block, seq[n])
    <3>1. doc.block \in Int /\ pc[n] = "block"
      BY <1>6, DocTypes DEF TakeBlock
    <3>2. seq[n] \in EntrySet /\ seq[n].remaining = 0 /\ ((seq[n].cache = 0) <=> (seq[n].increment = 0))
      BY <1>a, <3>1, Zenon DEF EntryInv, Entry
    <3> QED
      BY <1>e, <2>2, <3>1, <3>2, Zenon
  <2> QED
    BY <1>6, <2>1, <2>2, Zenon DEF TakeBlock
<1>7. CASE Reload(n)
  <2>1. /\ load(seq[n]) \in EntrySet /\ load(seq[n]).remaining = 0
        /\ load(seq[n]).cache > 0 /\ load(seq[n]).increment > 0
    BY <1>a, <1>7, LoadType, Zenon DEF Reload
  <2>2. load(seq[n]).cache \in Nat /\ load(seq[n]).increment \in Nat
    BY <2>1, EntryTypes, Zenon
  <2>3. CASE seq' = [seq EXCEPT ![n] = load(seq[n])]
    BY <1>c, <2>1, <2>2, <2>3, Zenon
  <2>4. CASE Use(n, got[n].block, load(seq[n]))
    <3>1. got[n].block \in Int
      BY TypeParts DEF GotSet
    <3> QED
      BY <1>e, <2>1, <2>2, <2>4, <3>1
  <2> QED
    BY <1>7, <2>3, <2>4, Zenon DEF Reload
<1>8. CASE AlterUpdate(n)
  <2> DEFINE s == [seq[n] EXCEPT !.base = alter[n].restart, !.current = 0, !.remaining = 0,
                                 !.cache = alter[n].cache, !.increment = alter[n].increment]
  <2>1. seq' = [seq EXCEPT ![n] = s]
    BY <1>a, <1>8, Zenon DEF AlterUpdate
  <2>2. alter[n] \in AlterSet /\ 0 \in Ints /\ 0 \in 0..MaxUint
    BY TypeParts, SequenceAssumption DEF Ints, MaxInt, MaxUint
  <2>3. s \in EntrySet /\ s.remaining = 0
    BY <1>a, <2>2, Zenon DEF EntrySet, AlterSet
  <2>4. s.cache \in Nat
    BY <2>3, EntryTypes, Zenon
  <2> HIDE DEF s
  <2> QED
    BY <1>c, <2>1, <2>3, <2>4, Zenon
<1> QED
  BY <1>d, <1>2, <1>3, <1>4, <1>5, <1>6, <1>7, <1>8, Frame, Zenon

\* What has been handed out keeps its type.
LEMMA OutStep ==
  ASSUME TypeOK, NEW n \in Nodes, Call(n) \/ Work(n) \/ Hear(n)
  PROVE  OutType'
<1>a. given \subseteq Ints /\ twice \in BOOLEAN /\ last \in [Nodes -> Ints] /\ upset \subseteq Disturbances
  BY TypeParts, Zenon DEF OutType
<1>b. ASSUME NEW v \in Ints, Give(n, v), upset' \subseteq Disturbances
      PROVE  OutType'
  BY <1>a, <1>b, Zenon DEF OutType, Give
<1>c. ASSUME given' = given, twice' = twice, last' = last, upset' \subseteq Disturbances
      PROVE  OutType'
  BY <1>a, <1>c, Zenon DEF OutType
<1>d. ASSUME NEW block \in Int, NEW s, s.base \in Int, s.cache \in Int,
             s.increment \in Int, Use(n, block, s)
      PROVE  OutType'
  <2>1. First(block, s) \in Ints
    BY <1>d, FirstType, Zenon
  <2>2. Noted(block, s, got[n].getOnly) \subseteq Disturbances
    BY Zenon DEF Noted, Disturbances
  <2>3. \/ UNCHANGED outVars
        \/ Give(n, First(block, s)) /\ upset' = upset \cup Noted(block, s, got[n].getOnly)
    BY <1>d, UseCases, Zenon
  <2>4. CASE UNCHANGED outVars
    BY <1>a, <1>c, <2>4, Zenon DEF outVars
  <2>5. CASE Give(n, First(block, s)) /\ upset' = upset \cup Noted(block, s, got[n].getOnly)
    BY <1>a, <1>b, <2>1, <2>2, <2>5, Zenon
  <2> QED
    BY <2>3, <2>4, <2>5, Zenon
<1>e. CASE UNCHANGED outVars
  BY <1>a, <1>c, <1>e, Zenon DEF outVars
<1>2. CASE Lock(n)
  <2>1. upset' \subseteq Disturbances
    BY <1>a, <1>2, Zenon DEF Lock, Disturbances
  <2> QED
    BY <1>c, <1>2, <2>1, Zenon DEF Lock
<1>3. CASE NextCached(n)
  <2>1. Int64(seq[n].current + seq[n].increment) \in Ints
    <3>1. seq[n] \in EntrySet
      BY TypeParts, Zenon DEF SeqType
    <3> QED
      BY <3>1, EntryTypes, Wraps
  <2>2. \/ UNCHANGED <<given, twice, last>> \/ Give(n, Int64(seq[n].current + seq[n].increment))
    BY <1>3, Zenon DEF NextCached
  <2>3. upset' = upset
    BY <1>3, Zenon DEF NextCached
  <2> QED
    BY <1>a, <1>b, <1>c, <2>1, <2>2, <2>3, Zenon
<1>4. CASE TakeBlock(n)
  <2>1. CASE UNCHANGED outVars
    BY <1>e, <2>1, Zenon
  <2>2. CASE Use(n, doc.block, seq[n])
    <3>1. doc.block \in Int /\ seq[n] \in EntrySet
      BY <1>4, DocTypes, TypeParts DEF TakeBlock, SeqType
    <3> QED
      BY <1>d, <2>2, <3>1, EntryTypes
  <2> QED
    BY <1>4, <2>1, <2>2, Zenon DEF TakeBlock
<1>5. CASE Reload(n)
  <2>1. CASE UNCHANGED outVars
    BY <1>e, <2>1, Zenon
  <2>2. CASE Use(n, got[n].block, load(seq[n]))
    <3>1. got[n].block \in Int /\ seq[n] \in EntrySet
      BY TypeParts DEF GotSet, SeqType
    <3>2. load(seq[n]) \in EntrySet
      BY <1>5, <3>1, LoadType, Zenon DEF Reload
    <3> QED
      BY <1>d, <2>2, <3>1, <3>2, EntryTypes
  <2> QED
    BY <1>5, <2>1, <2>2, Zenon DEF Reload
<1>6. CASE AlterUpdate(n)
  <2>1. upset' \subseteq Disturbances
    BY <1>a, <1>6, Zenon DEF AlterUpdate, Disturbances
  <2> QED
    BY <1>c, <1>6, <2>1, Zenon DEF AlterUpdate
<1> QED
  BY <1>e, <1>2, <1>3, <1>4, <1>5, <1>6, Frame, Zenon

LEMMA TypeStep ==
  ASSUME TypeOK, EntryInv, NEW n \in Nodes, Call(n) \/ Work(n) \/ Hear(n)
  PROVE  TypeOK'
<1>1. FlagType' /\ CountType'
  BY TypeParts, FlagStep, Zenon
<1>2. (pc \in [Nodes -> Places])'
  BY TypeParts, Frame, Zenon
<1>3. doc' \in Docs \cup {None} /\ (alter \in [Nodes -> AlterSet])' /\ (got \in [Nodes -> GotSet])'
  BY DocStep, AlterStep, GotStep, Zenon
<1>4. SeqType' /\ OutType'
  BY SeqStep, OutStep, Zenon
<1> QED
  BY <1>1, <1>2, <1>3, <1>4, Zenon DEF TypeOK, SeqType, EntrySet, FlagType, CountType, Places, AlterSet, GotSet, OutType

\* What a step may do to the document.
Onward ==
  doc' # None =>
    /\ doc # None
    /\ \/ /\ doc'.version = doc.version /\ doc'.base = doc.base
          /\ doc'.cache = doc.cache /\ doc'.increment = doc.increment
       \/ doc'.version = doc.version + 1

\* A node whose caller does nothing.
Alone(m) ==
  /\ cached'[m] = cached[m] /\ pc'[m] = pc[m] /\ waiting'[m] = waiting[m] /\ loaders'[m] = loaders[m]
  /\ seq'[m] = seq[m] /\ got'[m] = got[m]
  /\ alter'[m].cache = alter[m].cache /\ alter'[m].increment = alter[m].increment
  /\ alter'[m].restart = alter[m].restart

LEMMA EntryKept ==
  ASSUME TypeOK, NEW m \in Nodes, Entry(m), Alone(m), Onward
  PROVE  Entry(m)'
<1>1. seq[m] \in EntrySet /\ got[m] \in GotSet
  BY TypeParts, Zenon DEF SeqType
<1>2. seq[m].version \in Nat /\ got[m].version \in Nat
  BY <1>1, EntryTypes, Zenon DEF GotSet
<1>3. doc # None => doc.version \in Nat
  BY DocTypes, Zenon
<1>4. doc' # None /\ ~cached'[m] => pc'[m] = "idle" /\ waiting'[m] = 0 /\ loaders'[m] = 0
  BY Zenon DEF Entry, Alone, Onward
<1>5. doc' # None => seq'[m].version <= doc'.version /\ got'[m].version <= doc'.version
  BY <1>2, <1>3 DEF Entry, Alone, Onward
<1>6. doc' # None /\ seq'[m].version = doc'.version /\ seq'[m].cache > 0 =>
        seq'[m].base = doc'.base /\ seq'[m].cache = doc'.cache /\ seq'[m].increment = doc'.increment
  BY <1>2, <1>3 DEF Entry, Alone, Onward
<1>7. /\ seq'[m].cache = 0 <=> seq'[m].increment = 0
      /\ pc'[m] \in {"block", "load"} => seq'[m].remaining = 0 /\ (got'[m].getOnly \/ seq'[m].cache > 0)
      /\ pc'[m] = "update" => alter'[m].cache > 0 /\ alter'[m].increment > 0
  BY Zenon DEF Entry, Alone
<1> QED
  BY <1>4, <1>5, <1>6, <1>7, Zenon DEF Entry

LEMMA OnwardStep ==
  ASSUME TypeOK, NEW n \in Nodes, Call(n) \/ Work(n) \/ Hear(n)
  PROVE  Onward
<1>1. CASE TakeBlock(n)
  BY <1>1, DocTypes, Zenon DEF TakeBlock, Docs, Onward
<1>2. CASE AlterUpdate(n)
  BY <1>2, DocTypes, Zenon DEF AlterUpdate, Altered, Docs, Onward
<1> QED
  BY <1>1, <1>2, Frame, Zenon DEF Drop, Onward

LEMMA AloneStep ==
  ASSUME TypeOK, NEW n \in Nodes, Call(n) \/ Work(n) \/ Hear(n), NEW m \in Nodes \ {n}
  PROVE  Alone(m)
<1>a. /\ seq \in [Nodes -> EntrySet] /\ got \in [Nodes -> GotSet] /\ alter \in [Nodes -> AlterSet]
      /\ cached \in [Nodes -> BOOLEAN] /\ pc \in [Nodes -> Places]
      /\ waiting \in [Nodes -> Nat] /\ loaders \in [Nodes -> Nat]
  BY TypeParts, Zenon DEF SeqType, FlagType, CountType
<1>b. alter[m] \in AlterSet
  BY <1>a, Zenon
<1>c. pc'[m] = pc[m]
  BY <1>a, Frame, Zenon
<1>d. /\ alter'[m].cache = alter[m].cache /\ alter'[m].increment = alter[m].increment
      /\ alter'[m].restart = alter[m].restart
  <2>1. alter'[m] \in {alter[m], [alter[m] EXCEPT !.good = FALSE]}
    <3>1. CASE Validate(n) \/ Refresh(n) \/ TakeBlock(n) \/ Drop(n)
      <4>1. Touch \/ alter' = alter
        BY <3>1, Zenon DEF Validate, Refresh, TakeBlock, Drop
      <4> QED
        BY <4>1, Zenon DEF Touch
    <3>2. CASE Alter(n) \/ AlterRetry(n)
      BY <1>a, <3>2, Zenon DEF Alter, AlterRetry
    <3>3. CASE AlterUpdate(n)
      BY <3>3, Zenon DEF AlterUpdate
    <3> QED
      BY <3>1, <3>2, <3>3, Frame, Zenon
  <2> QED
    BY <1>b, <2>1, Zenon DEF AlterSet
<1>e. got'[m] = got[m]
  <2>1. CASE NeedBlock(n) \/ TakeBlock(n) \/ Reload(n)
    BY <1>a, <2>1, Zenon DEF NeedBlock, TakeBlock, Reload
  <2> QED
    BY <2>1, Frame, Zenon
<1>f. seq'[m] = seq[m]
  <2>1. CASE \E block, s : Use(n, block, s)
    BY <1>a, <2>1, UseCases
  <2>2. CASE ~\E block, s : Use(n, block, s)
    <3>1. CASE Call(n) \/ Load(n) \/ NeedBlock(n)
      BY <1>a, <3>1, Zenon DEF Call, Load, NeedBlock, seqVars
    <3>2. CASE NextCached(n) \/ AlterUpdate(n)
      BY <1>a, <3>2, Zenon DEF NextCached, AlterUpdate
    <3>3. CASE TakeBlock(n) \/ Reload(n)
      BY <1>a, <2>2, <3>3, Zenon DEF TakeBlock, Reload
    <3> QED
      BY <3>1, <3>2, <3>3, Frame, Zenon
  <2> QED
    BY <2>1, <2>2, Zenon
<1>g. cached'[m] = cached[m] /\ waiting'[m] = waiting[m] /\ loaders'[m] = loaders[m]
  <2>1. CASE Call(n)
    BY <1>a, <2>1, Zenon DEF Call, seqVars
  <2>2. CASE Load(n)
    BY <1>a, <2>2, Zenon DEF Load
  <2>3. CASE Lock(n) \/ Refresh(n) \/ Drop(n)
    BY <1>a, <2>3, Zenon DEF Lock, Refresh, Drop, seqVars
  <2>4. CASE Validate(n) \/ NotFound(n) \/ PrevCached(n) \/ NextCached(n) \/ NeedBlock(n)
    BY <2>4, Zenon DEF Validate, NotFound, PrevCached, NextCached, NeedBlock, callVars, seqVars
  <2>5. CASE TakeBlock(n) \/ Reload(n) \/ Alter(n) \/ AlterRetry(n) \/ AlterUpdate(n) \/ Hear(n)
    BY <2>5, Zenon DEF TakeBlock, Reload, Alter, AlterRetry, AlterUpdate, Hear, callVars, seqVars
  <2> QED
    BY <2>1, <2>2, <2>3, <2>4, <2>5, Zenon DEF Work
<1> QED
  BY <1>c, <1>d, <1>e, <1>f, <1>g, Zenon DEF Alone

\* The entry of the node whose caller takes the step.
LEMMA OwnEntry ==
  ASSUME TypeOK, NEW n \in Nodes, Entry(n), Call(n) \/ Work(n) \/ Hear(n)
  PROVE  Entry(n)'
<1>a. /\ seq \in [Nodes -> EntrySet] /\ got \in [Nodes -> GotSet] /\ alter \in [Nodes -> AlterSet]
      /\ cached \in [Nodes -> BOOLEAN] /\ pc \in [Nodes -> Places]
      /\ waiting \in [Nodes -> Nat] /\ loaders \in [Nodes -> Nat]
  BY TypeParts, Zenon DEF SeqType, FlagType, CountType
<1>1. CASE Call(n)
  <2>1. CASE cached[n] /\ waiting' = [waiting EXCEPT ![n] = @ + 1] /\ UNCHANGED <<seqVars, loaders>>
    <3>1. UNCHANGED <<doc, alter, pc, got>>
      BY <1>1, Zenon DEF Call, docVars
    <3> QED
      BY <1>a, <2>1, <3>1, Zenon DEF Entry, seqVars
  <2>2. CASE /\ ~cached[n] /\ doc # None /\ seq' = [seq EXCEPT ![n] = NewEntry]
             /\ cached' = [cached EXCEPT ![n] = TRUE]
    <3>1. UNCHANGED <<doc, alter, pc, got>>
      BY <1>1, Zenon DEF Call, docVars
    <3>2. pc[n] = "idle" /\ got[n].version <= doc.version /\ doc.version \in Nat
      BY <2>2, DocTypes, Zenon DEF Entry
    <3>3. seq'[n] = NewEntry /\ cached'[n]
      BY <1>a, <2>2, Zenon
    <3>4. NewEntry.version = 0 /\ NewEntry.cache = 0 /\ NewEntry.increment = 0
      BY Zenon DEF NewEntry
    <3> QED
      BY <3>1, <3>2, <3>3, <3>4 DEF Entry
  <2> QED
    BY <1>1, <2>1, <2>2, Zenon DEF Call
<1>2. CASE Load(n)
  <2>1. UNCHANGED <<doc, alter, pc, got>> /\ pc[n] = "idle"
    BY <1>2, Zenon DEF Load, docVars
  <2>2. CASE doc = None /\ seq' = seq
    BY <2>1, <2>2, Zenon DEF Entry
  <2>3. CASE doc # None /\ seq' = [seq EXCEPT ![n] = load(@)] /\ cached' = cached /\ loaders[n] > 0
    <3>1. seq'[n] = load(seq[n]) /\ seq[n] \in EntrySet
      BY <1>a, <2>3, Zenon
    <3>2. /\ load(seq[n]).base = doc.base /\ load(seq[n]).cache = doc.cache
          /\ load(seq[n]).increment = doc.increment /\ load(seq[n]).version = doc.version
          /\ load(seq[n]).cache > 0 /\ load(seq[n]).increment > 0
      BY <2>3, <3>1, LoadType, Zenon
    <3>3. cached[n] /\ doc.version \in Nat
      BY <1>a, <2>3, DocTypes DEF Entry
    <3>4. /\ seq'[n].base = doc.base /\ seq'[n].cache = doc.cache
          /\ seq'[n].increment = doc.increment /\ seq'[n].version = doc.version
          /\ seq'[n].cache > 0 /\ seq'[n].increment > 0 /\ cached'[n] = cached[n]
      BY <2>3, <3>1, <3>2, Zenon
    <3> QED
      BY <2>1, <3>3, <3>4 DEF Entry
  <2> QED
    BY <1>2, <2>2, <2>3, Zenon DEF Load
<1>3. CASE Lock(n)
  BY <1>a, <1>3 DEF Lock, Entry, docVars, callVars, seqVars
<1>4. CASE Validate(n)
  BY <1>a, <1>4, Zenon DEF Validate, Entry, AlterSet, docVars, callVars, seqVars, Touch
<1>5. CASE Refresh(n)
  BY <1>a, <1>5, Zenon DEF Refresh, Entry, docVars, callVars, seqVars, Touch, Unlock, AlterSet
<1>6. CASE NotFound(n)
  BY <1>a, <1>6, Zenon DEF NotFound, Entry, docVars, callVars, seqVars, Unlock
<1>7. CASE NextCached(n)
  <2>1. /\ UNCHANGED <<doc, alter, cached, waiting, loaders, got>>
        /\ pc[n] = "locked" /\ pc'[n] = "idle"
    BY <1>a, <1>7, Zenon DEF NextCached, docVars, Unlock, Ready
  <2>2. /\ seq'[n].base = seq[n].base /\ seq'[n].cache = seq[n].cache
        /\ seq'[n].increment = seq[n].increment /\ seq'[n].version = seq[n].version
    BY <1>a, <1>7 DEF NextCached, EntrySet
  <2> QED
    BY <2>1, <2>2, Zenon DEF Entry
<1>8. CASE PrevCached(n)
  BY <1>a, <1>8, Zenon DEF PrevCached, Entry, docVars, callVars, seqVars, Unlock
<1>9. CASE NeedBlock(n)
  <2>1. /\ UNCHANGED <<doc, alter, cached, waiting, loaders>>
        /\ pc[n] = "locked" /\ pc'[n] = "block" /\ seq[n].remaining = 0
    BY <1>a, <1>9, Zenon DEF NeedBlock, docVars, Ready
  <2>2. /\ seq'[n].base = seq[n].base /\ seq'[n].cache = seq[n].cache
        /\ seq'[n].increment = seq[n].increment /\ seq'[n].version = seq[n].version
        /\ seq'[n].remaining = seq[n].remaining
    BY <1>a, <1>9 DEF NeedBlock, EntrySet
  <2>3. got'[n].version = got[n].version /\ (seq[n].cache = 0 => got'[n].getOnly)
    BY <1>a, <1>9, Zenon DEF NeedBlock, GotSet
  <2>4. got'[n].getOnly \/ seq'[n].cache > 0
    <3>1. seq[n].cache \in Nat
      BY <1>a, EntryTypes, Zenon
    <3> QED
      BY <2>2, <2>3, <3>1
  <2>5. got'[n].version = got[n].version /\ seq'[n].remaining = 0
    BY <2>1, <2>2, <2>3, Zenon
  <2> QED
    BY <2>1, <2>2, <2>4, <2>5, Zenon DEF Entry
<1>10. CASE TakeBlock(n)
  <2>0. /\ doc # None /\ doc'.version = doc.version /\ doc'.base = doc.base
        /\ doc'.cache = doc.cache /\ doc'.increment = doc.increment /\ doc.version \in Nat
    BY <1>10, DocTypes, Zenon DEF TakeBlock, Docs
  <2>1. UNCHANGED <<cached, waiting, loaders>> /\ pc[n] = "block" /\ cached[n]
    BY <1>a, <1>10, Zenon DEF TakeBlock, Entry
  <2>2. CASE Use(n, doc.block, seq[n]) /\ got' = [got EXCEPT ![n] = NoBlock]
    <3>1. pc'[n] = "idle" /\ seq'[n] \in {seq[n], Full(doc.block, seq[n])}
      BY <1>a, <2>2, UseCases
    <3>2. /\ seq'[n].base = seq[n].base /\ seq'[n].cache = seq[n].cache
          /\ seq'[n].increment = seq[n].increment /\ seq'[n].version = seq[n].version
      BY <1>a, <3>1, Zenon DEF Full, EntrySet
    <3>3. got'[n].version = 0
      BY <1>a, <2>2, Zenon DEF NoBlock
    <3> QED
      BY <2>0, <2>1, <3>1, <3>2, <3>3 DEF Entry
  <2>3. CASE /\ got' = [got EXCEPT ![n].block = doc.block, ![n].version = doc.version]
             /\ pc' = [pc EXCEPT ![n] = "load"] /\ UNCHANGED seq
    <3>1. pc'[n] = "load" /\ got'[n].version = doc.version /\ got'[n].getOnly = got[n].getOnly
      BY <1>a, <2>3, Zenon DEF GotSet
    <3> QED
      BY <2>0, <2>1, <2>3, <3>1 DEF Entry
  <2> QED
    BY <1>10, <2>2, <2>3, Zenon DEF TakeBlock
<1>11. CASE Reload(n)
  <2>1. /\ UNCHANGED <<doc, cached, waiting, loaders>> /\ pc[n] = "load" /\ cached[n]
        /\ doc # None /\ doc.version \in Nat /\ got[n].version <= doc.version
    BY <1>a, <1>11, DocTypes, Zenon DEF Reload, Entry, docVars
  <2>2. /\ load(seq[n]).base = doc.base /\ load(seq[n]).cache = doc.cache
        /\ load(seq[n]).increment = doc.increment /\ load(seq[n]).version = doc.version
        /\ load(seq[n]).remaining = 0 /\ load(seq[n]).cache > 0 /\ load(seq[n]).increment > 0
        /\ load(seq[n]) \in EntrySet
    BY <1>a, <2>1, LoadType, Zenon
  <2>3. CASE Use(n, got[n].block, load(seq[n])) /\ got' = [got EXCEPT ![n] = NoBlock]
    <3>1. pc'[n] = "idle" /\ seq'[n] \in {load(seq[n]), Full(got[n].block, load(seq[n]))}
      BY <1>a, <2>3, UseCases
    <3>2. /\ seq'[n].base = doc.base /\ seq'[n].cache = doc.cache
          /\ seq'[n].increment = doc.increment /\ seq'[n].version = doc.version
      BY <2>2, <3>1, Zenon DEF Full, EntrySet
    <3>3. got'[n].version = 0
      BY <1>a, <2>3, Zenon DEF NoBlock
    <3> QED
      BY <2>1, <2>2, <3>1, <3>2, <3>3 DEF Entry
  <2>4. CASE /\ seq' = [seq EXCEPT ![n] = load(@)] /\ got' = got
             /\ pc' = [pc EXCEPT ![n] = "block"]
    <3>1. seq'[n] = load(seq[n]) /\ pc'[n] = "block"
      BY <1>a, <2>4, Zenon
    <3>2. /\ seq'[n].base = doc.base /\ seq'[n].cache = doc.cache
          /\ seq'[n].increment = doc.increment /\ seq'[n].version = doc.version
          /\ seq'[n].remaining = 0 /\ seq'[n].cache > 0 /\ seq'[n].increment > 0
      BY <2>2, <3>1, Zenon
    <3>3. got'[n] = got[n]
      BY <2>4, Zenon
    <3> QED
      BY <2>1, <3>1, <3>2, <3>3 DEF Entry
  <2> QED
    BY <1>11, <2>3, <2>4, Zenon DEF Reload
<1>12. CASE Alter(n)
  <2>1. UNCHANGED <<doc, cached, waiting, loaders, seq, got>> /\ pc[n] = "locked"
    BY <1>12, Zenon DEF Alter, seqVars, Ready
  <2>2. CASE pc' = [pc EXCEPT ![n] = "idle"]
    BY <1>a, <2>1, <2>2, Zenon DEF Entry
  <2>3. CASE /\ pc' = [pc EXCEPT ![n] = "update"]
             /\ \E c \in Caches, i \in Increments :
                  alter' = [alter EXCEPT ![n] = [cache |-> c, increment |-> i, restart |-> restartValue, good |-> TRUE]]
    <3>1. PICK c \in Caches, i \in Increments :
            alter' = [alter EXCEPT ![n] = [cache |-> c, increment |-> i, restart |-> restartValue, good |-> TRUE]]
      BY <2>3, Zenon
    <3>2. alter'[n].cache = c /\ alter'[n].increment = i
      BY <1>a, <3>1, Zenon
    <3>3. c > 0 /\ i > 0
      BY StepBounds
    <3>4. pc'[n] = "update"
      BY <1>a, <2>3, Zenon
    <3> QED
      BY <2>1, <3>2, <3>3, <3>4, Zenon DEF Entry
  <2> QED
    BY <1>12, <2>2, <2>3, Zenon DEF Alter, Unlock
<1>13. CASE AlterRetry(n)
  BY <1>a, <1>13, Zenon DEF AlterRetry, Entry, AlterSet, docVars, callVars, seqVars
<1>14. CASE AlterUpdate(n)
  <2>0. doc # None /\ doc.version \in Nat /\ doc'.version = doc.version + 1
    BY <1>14, DocTypes, Zenon DEF AlterUpdate, Altered, Docs
  <2>1. UNCHANGED <<cached, waiting, loaders, got>> /\ pc[n] = "update" /\ pc'[n] = "idle"
    BY <1>a, <1>14, Zenon DEF AlterUpdate, Unlock
  <2>2. /\ seq'[n].version = seq[n].version /\ seq'[n].cache = alter[n].cache
        /\ seq'[n].increment = alter[n].increment
    BY <1>a, <1>14 DEF AlterUpdate, EntrySet
  <2>3. seq[n].version \in Nat /\ got[n].version \in Nat
    BY <1>a, EntryTypes, SequenceAssumption, Zenon DEF GotSet
  <2> QED
    BY <2>0, <2>1, <2>2, <2>3 DEF Entry
<1>15. CASE Drop(n)
  <2>0. doc' = None
    BY <1>15, Zenon DEF Drop
  <2> QED
    BY <1>a, <1>15, <2>0, Zenon DEF Drop, Entry, Unlock
<1>16. CASE Hear(n)
  BY <1>a, <1>16, Zenon DEF Hear, Entry, AlterSet, docVars, callVars, seqVars
<1> QED
  BY <1>1, <1>2, <1>3, <1>4, <1>5, <1>6, <1>7, <1>8, <1>9, <1>10, <1>11, <1>12, <1>13, <1>14, <1>15, <1>16, Zenon DEF Work

----------------------------------------------------------------------------
EntriesInv == TypeOK /\ EntryInv

LEMMA EntriesInit == Init => EntriesInv
<1> SUFFICES ASSUME Init PROVE EntriesInv
  OBVIOUS
<1>1. PICK c \in Caches, i \in Increments :
        doc = [base |-> Start, cache |-> c, increment |-> i, block |-> 0, version |-> 0]
  BY Zenon DEF Init
<1>2. doc \in Docs /\ doc.version = 0
  BY <1>1, SequenceAssumption DEF Docs, Ints, MaxInt
<1>3. FlagType /\ CountType /\ pc \in [Nodes -> Places]
  BY SequenceAssumption DEF Init, FlagType, CountType, Places
<1>4. SeqType
  <2>1. seq = [n \in Nodes |-> NewEntry] /\ NewEntry.cache = 0
    BY Zenon DEF Init, NewEntry
  <2> QED
    BY <2>1, NewEntryType DEF SeqType
<1>5. alter \in [Nodes -> AlterSet] /\ got \in [Nodes -> GotSet]
  <2>1. NoAlter \in AlterSet
    BY SequenceAssumption DEF NoAlter, AlterSet, Ints, MaxInt
  <2>2. NoBlock \in GotSet
    BY Zenon DEF NoBlock, GotSet
  <2> QED
    BY <2>1, <2>2, Zenon DEF Init
<1>6. OutType
  <2>1. -MaxInt - 1 \in Ints
    BY SequenceAssumption DEF Ints, MaxInt
  <2> QED
    BY <2>1, Zenon DEF Init, OutType
<1>7. TypeOK
  BY <1>2, <1>3, <1>4, <1>5, <1>6, TypeParts, Zenon
<1>8. EntryInv
  <2>1. /\ seq = [n \in Nodes |-> NewEntry] /\ got = [n \in Nodes |-> NoBlock]
        /\ pc = [n \in Nodes |-> "idle"] /\ waiting = [n \in Nodes |-> 0]
        /\ loaders = [n \in Nodes |-> 0]
    BY Zenon DEF Init
  <2>2. NewEntry.cache = 0 /\ NewEntry.increment = 0 /\ NewEntry.version = 0 /\ NoBlock.version = 0
    BY Zenon DEF NewEntry, NoBlock
  <2>3. ASSUME NEW n \in Nodes
        PROVE  /\ seq[n].cache = 0 /\ seq[n].increment = 0 /\ seq[n].version = 0
               /\ got[n].version = 0 /\ pc[n] = "idle" /\ waiting[n] = 0 /\ loaders[n] = 0
    BY <2>1, <2>2, Zenon
  <2> QED
    BY <1>2, <2>3 DEF EntryInv, Entry
<1> QED
  BY <1>7, <1>8, Zenon DEF EntriesInv

LEMMA EntriesStep == EntriesInv /\ [Next]_vars => EntriesInv'
<1> SUFFICES ASSUME TypeOK, EntryInv, [Next]_vars PROVE TypeOK' /\ EntryInv'
  BY Zenon DEF EntriesInv
<1>1. ASSUME NEW n \in Nodes, Call(n) \/ Work(n) \/ Hear(n) PROVE TypeOK' /\ EntryInv'
  <2>1. TypeOK' /\ Onward
    BY <1>1, TypeStep, OnwardStep, Zenon
  <2>2. ASSUME NEW m \in Nodes PROVE Entry(m)'
    <3>1. Entry(m)
      BY Zenon DEF EntryInv
    <3>2. CASE m = n
      BY <1>1, <3>1, <3>2, OwnEntry, Zenon
    <3>3. CASE m # n
      <4>1. Alone(m)
        BY <1>1, <3>3, AloneStep, Zenon
      <4> QED
        BY <2>1, <3>1, <4>1, EntryKept, Zenon
    <3> QED
      BY <3>2, <3>3, Zenon
  <2> QED
    BY <2>1, <2>2, Zenon DEF EntryInv
<1>2. CASE UNCHANGED vars
  <2>1. TypeOK'
    BY <1>2, Zenon DEF vars, docVars, callVars, seqVars, outVars, TypeOK
  <2>2. EntryInv'
    BY <1>2, Zenon DEF vars, docVars, callVars, seqVars, EntryInv, Entry
  <2> QED
    BY <2>1, <2>2, Zenon
<1> QED
  BY <1>1, <1>2, Zenon DEF Next

\* The state of the sequence keeps its types, and an entry of the document's
\* version, once loaded, has the document's parameters (sequence.load,
\* AlterSequence).
THEOREM EntriesInvariance == Spec => []EntriesInv
BY EntriesInit, EntriesStep, PTL DEF Spec
=============================================================================
