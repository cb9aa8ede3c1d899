---------------------------- MODULE SequenceProofs ----------------------------
(***************************************************************************)
(* For every set of nodes, every width of the integers and every sequence: *)
(* SequenceValues hands out no value twice and none beyond the limits, and *)
(* the values of one node ascend, up to the disturbances it names.         *)
(*                                                                         *)
(* Every node that can still hand out values without a new block has a     *)
(* range of them: the values left of its block, or a block taken whose     *)
(* parameters it has yet to load.  The ranges are apart from each other,   *)
(* from the values handed out, and below the next block of the document.   *)
(***************************************************************************)
EXTENDS SequenceTypes

----------------------------------------------------------------------------
(* Ranges.                                                                 *)

Sound == upset \cap {"retried", "wrapped", "unloaded"} = {}
Unwrapped == upset \cap {"wrapped", "unloaded"} = {}

\* The first value of the document's next block.
Ahead == Raw(doc.block, doc)

\* Values are left in the node's entry; the node holds a block to load.
Live(n) == seq[n].remaining > 0 /\ seq[n].current <= Limit
Held(n) == pc[n] = "load" /\ doc # None /\ got[n].version = doc.version /\ ~got[n].getOnly
Has(n) == Live(n) \/ Held(n)

\* The values the node may hand out are above Lo and not above Hi.
Lo(n) == IF Live(n) THEN seq[n].current ELSE Raw(got[n].block, doc) - 1
Hi(n) == IF Live(n) THEN seq[n].current + seq[n].remaining * seq[n].increment
         ELSE Raw(got[n].block, doc) + doc.cache * doc.increment - 1

Apart ==
  /\ ~twice
  /\ \A n \in Nodes : Has(n) => last[n] <= Lo(n) /\ (doc # None => Hi(n) < Ahead)
  /\ \A n, m \in Nodes : n # m /\ Has(n) /\ Has(m) => Hi(n) <= Lo(m) \/ Hi(m) <= Lo(n)
  /\ \A v \in given : doc # None => v < Ahead
  /\ \A v \in given, n \in Nodes : Has(n) => v <= Lo(n) \/ v > Hi(n)
  /\ \A n \in Nodes : last[n] \in given \/ last[n] = -MaxInt - 1

Bounded ==
  /\ \A v \in given : Start <= v /\ v <= Limit
  /\ doc # None => Start <= doc.base
  /\ \A n \in Nodes : Live(n) => Start <= seq[n].current /\ seq[n].increment > 0
  /\ \A n \in Nodes : pc[n] = "update" /\ doc # None => Start <= alter[n].restart \/ Ahead > MaxInt

RangeInv == Sound => Apart
LimitInv == Unwrapped => Bounded

LEMMA AheadType ==
  ASSUME TypeOK, doc # None
  PROVE  /\ Ahead \in Int /\ Ahead >= doc.base /\ doc.base \in Int
         /\ doc.cache \in Nat \ {0} /\ doc.increment \in Nat \ {0}
         /\ doc.cache * doc.increment \in 1 .. MaxInt /\ doc.block \in Nat
<1>1. /\ doc.base \in Ints /\ doc.cache \in Caches /\ doc.increment \in Increments
      /\ doc.block \in Nat
  BY DocTypes, Zenon
<1>2. doc.base \in Int
  BY <1>1, SequenceAssumption DEF Ints, MaxInt
<1>3. /\ doc.cache \in Nat \ {0} /\ doc.increment \in Nat \ {0}
      /\ doc.cache * doc.increment \in 1 .. MaxInt
  BY <1>1, StepBounds, Zenon
<1>4. Ahead \in Int
  BY <1>1, <1>2, <1>3, RawSteps DEF Ahead
<1>5. Ahead >= doc.base
  BY <1>1, <1>2, <1>3, RawGrows, Zenon DEF Ahead
<1> QED
  BY <1>1, <1>2, <1>3, <1>4, <1>5, Zenon

LEMMA RangeTypes ==
  ASSUME TypeOK, NEW n \in Nodes, Has(n)
  PROVE  Lo(n) \in Int /\ Hi(n) \in Int
<1>1. seq[n] \in EntrySet /\ got[n].block \in Nat
  BY TypeParts, Zenon DEF SeqType, GotSet
<1>2. CASE Live(n)
  <2>1. seq[n].current \in Int /\ seq[n].remaining \in Nat /\ seq[n].increment \in Nat
    BY <1>1, EntryTypes, Zenon
  <2>2. seq[n].remaining * seq[n].increment \in Int
    BY <2>1
  <2> QED
    BY <1>2, <2>1, <2>2 DEF Lo, Hi
<1>3. CASE ~Live(n)
  <2>1. doc # None
    BY <1>3, Zenon DEF Has, Held
  <2>2. /\ doc.base \in Int /\ doc.cache \in Int /\ doc.increment \in Int
        /\ doc.cache * doc.increment \in Int
    BY <2>1, AheadType
  <2>3. Raw(got[n].block, doc) \in Int
    BY <1>1, <2>2, RawSteps
  <2> QED
    BY <1>3, <2>2, <2>3 DEF Lo, Hi
<1> QED
  BY <1>2, <1>3, Zenon

\* The range of a node becomes no larger.
Within(n) ==
  Has(n)' => /\ Has(n) /\ Lo(n)' \in Int /\ Hi(n)' \in Int
             /\ Lo(n) <= Lo(n)' /\ Hi(n)' <= Hi(n)

\* The document's next block is not taken back.
Forward == doc' # None => doc # None /\ Ahead' \in Int /\ Ahead <= Ahead'

LEMMA OutTypes ==
  ASSUME TypeOK
  PROVE  given \subseteq Int /\ last \in [Nodes -> Int] /\ -MaxInt - 1 \in Int
<1>1. Ints \subseteq Int /\ -MaxInt - 1 \in Int
  BY SequenceAssumption DEF Ints, MaxInt
<1> QED
  BY <1>1, TypeParts, Zenon DEF OutType

\* Nothing is handed out.
LEMMA Shrink ==
  ASSUME TypeOK, Apart, UNCHANGED <<given, twice, last>>, \A n \in Nodes : Within(n), Forward
  PROVE  Apart' /\ \A n \in Nodes : last'[n] >= last[n]
<1>1. /\ given \subseteq Int /\ last \in [Nodes -> Int]
      /\ \A n \in Nodes : Has(n) => Lo(n) \in Int /\ Hi(n) \in Int
      /\ doc # None => Ahead \in Int
  BY OutTypes, RangeTypes, AheadType, Zenon
<1>2. ~twice'
  BY Zenon DEF Apart
<1>3. ASSUME NEW n \in Nodes, Has(n)' PROVE last'[n] <= Lo(n)' /\ (doc' # None => Hi(n)' < Ahead')
  BY <1>1, <1>3 DEF Apart, Within, Forward
<1>4. ASSUME NEW n \in Nodes, NEW m \in Nodes, n # m, Has(n)', Has(m)'
      PROVE  Hi(n)' <= Lo(m)' \/ Hi(m)' <= Lo(n)'
  <2>1. /\ Has(n) /\ Lo(n)' \in Int /\ Hi(n)' \in Int /\ Lo(n) <= Lo(n)' /\ Hi(n)' <= Hi(n)
        /\ Has(m) /\ Lo(m)' \in Int /\ Hi(m)' \in Int /\ Lo(m) <= Lo(m)' /\ Hi(m)' <= Hi(m)
    BY <1>4, Zenon DEF Within
  <2>2. Hi(n) <= Lo(m) \/ Hi(m) <= Lo(n)
    BY <1>4, <2>1, Zenon DEF Apart
  <2> QED
    BY <1>1, <2>1, <2>2
<1>5. ASSUME NEW v \in given, doc' # None PROVE v < Ahead'
  BY <1>1, <1>5 DEF Apart, Forward
<1>6. ASSUME NEW v \in given, NEW n \in Nodes, Has(n)' PROVE v <= Lo(n)' \/ v > Hi(n)'
  BY <1>1, <1>6 DEF Apart, Within
<1>7. \A n \in Nodes : last'[n] \in given' \/ last'[n] = -MaxInt' - 1
  BY Zenon DEF Apart, MaxInt
<1>8. \A n \in Nodes : last'[n] >= last[n]
  BY <1>1
<1> QED
  BY <1>2, <1>3, <1>4, <1>5, <1>6, <1>7, <1>8, Zenon DEF Apart

\* The values above lo and not above hi are for node n alone.
Clear(n, lo, hi) ==
  /\ last[n] <= lo
  /\ \A v \in given : v <= lo \/ v > hi
  /\ \A m \in Nodes \ {n} : Has(m) => hi <= Lo(m) \/ Hi(m) <= lo

\* Node n hands out a value of a range that is its own, or takes the range.
LEMMA Advance ==
  ASSUME TypeOK, Apart, NEW n \in Nodes, NEW lo \in Int, NEW hi \in Int, Clear(n, lo, hi),
         \A m \in Nodes \ {n} : Within(m), Forward, doc' # None => hi < Ahead',
         Has(n)' => Lo(n)' \in Int /\ Hi(n)' \in Int /\ lo <= Lo(n)' /\ Hi(n)' <= hi,
         \/ UNCHANGED <<given, twice, last>>
         \/ \E v \in Int : lo < v /\ v <= hi /\ Give(n, v) /\ (Has(n)' => v <= Lo(n)')
  PROVE  Apart' /\ \A m \in Nodes : last'[m] >= last[m]
<1>1. /\ given \subseteq Int /\ last \in [Nodes -> Int]
      /\ \A m \in Nodes : Has(m) => Lo(m) \in Int /\ Hi(m) \in Int
      /\ doc # None => Ahead \in Int
  BY OutTypes, RangeTypes, AheadType, Zenon
<1>2. /\ given \subseteq given' /\ \A v \in given' \ given : v \in Int /\ lo < v /\ v <= hi /\ (Has(n)' => v <= Lo(n)')
      /\ twice' = twice
      /\ last' \in [Nodes -> Int] /\ last'[n] >= last[n] /\ (Has(n)' => last'[n] <= Lo(n)')
      /\ last'[n] \in given' \/ last'[n] = -MaxInt - 1
      /\ \A m \in Nodes \ {n} : last'[m] = last[m]
  <2>1. CASE UNCHANGED <<given, twice, last>>
    BY <1>1, <2>1 DEF Apart, Clear
  <2>2. CASE \E v \in Int : lo < v /\ v <= hi /\ Give(n, v) /\ (Has(n)' => v <= Lo(n)')
    <3>1. PICK v \in Int : lo < v /\ v <= hi /\ Give(n, v) /\ (Has(n)' => v <= Lo(n)')
      BY <2>2, Zenon
    <3>2. v \notin given
      BY <1>1, <3>1 DEF Clear
    <3>3. given' = given \cup {v} /\ last' = [last EXCEPT ![n] = v] /\ twice' = (twice \/ v \in given)
      BY <3>1, Zenon DEF Give
    <3>4. twice' = twice
      BY <3>2, <3>3, TypeParts, Zenon DEF OutType
    <3> QED
      BY <1>1, <3>1, <3>2, <3>3, <3>4 DEF Clear
  <2> QED
    BY <2>1, <2>2, Zenon
<1>3. ~twice'
  BY <1>2, Zenon DEF Apart
<1>4. ASSUME NEW m \in Nodes, Has(m)' PROVE last'[m] <= Lo(m)' /\ (doc' # None => Hi(m)' < Ahead')
  <2>1. CASE m = n
    BY <1>2, <1>4, <2>1 DEF Forward
  <2>2. CASE m # n
    BY <1>1, <1>2, <1>4, <2>2 DEF Apart, Within, Forward
  <2> QED
    BY <2>1, <2>2, Zenon
<1>5. ASSUME NEW m \in Nodes \ {n}, Has(n)', Has(m)'
      PROVE  Hi(n)' <= Lo(m)' \/ Hi(m)' <= Lo(n)'
  BY <1>1, <1>5 DEF Within, Clear
<1>6. ASSUME NEW k \in Nodes \ {n}, NEW m \in Nodes \ {n}, k # m, Has(k)', Has(m)'
      PROVE  Hi(k)' <= Lo(m)' \/ Hi(m)' <= Lo(k)'
  <2>1. /\ Has(k) /\ Lo(k)' \in Int /\ Hi(k)' \in Int /\ Lo(k) <= Lo(k)' /\ Hi(k)' <= Hi(k)
        /\ Has(m) /\ Lo(m)' \in Int /\ Hi(m)' \in Int /\ Lo(m) <= Lo(m)' /\ Hi(m)' <= Hi(m)
    BY <1>6, Zenon DEF Within
  <2>2. Hi(k) <= Lo(m) \/ Hi(m) <= Lo(k)
    BY <1>6, <2>1, Zenon DEF Apart
  <2> QED
    BY <1>1, <2>1, <2>2
<1>7. ASSUME NEW v \in given', doc' # None PROVE v < Ahead'
  BY <1>1, <1>2, <1>7 DEF Apart, Forward
<1>8. ASSUME NEW v \in given', Has(n)' PROVE v <= Lo(n)' \/ v > Hi(n)'
  BY <1>1, <1>2, <1>8 DEF Clear
<1>9. ASSUME NEW v \in given', NEW m \in Nodes \ {n}, Has(m)' PROVE v <= Lo(m)' \/ v > Hi(m)'
  <2>1. /\ Has(m) /\ Lo(m)' \in Int /\ Hi(m)' \in Int /\ Lo(m) <= Lo(m)' /\ Hi(m)' <= Hi(m)
    BY <1>9, Zenon DEF Within
  <2>2. CASE v \in given
    BY <1>1, <2>1, <2>2 DEF Apart
  <2>3. CASE v \notin given
    BY <1>1, <1>2, <2>1, <2>3 DEF Clear
  <2> QED
    BY <2>2, <2>3, Zenon
<1>10. \A m \in Nodes : last'[m] \in given' \/ last'[m] = -MaxInt - 1
  BY <1>2, Zenon DEF Apart
<1>11. \A m \in Nodes : last'[m] >= last[m]
  BY <1>1, <1>2
<1>12. \A k, m \in Nodes : k # m /\ Has(k)' /\ Has(m)' => Hi(k)' <= Lo(m)' \/ Hi(m)' <= Lo(k)'
  BY <1>5, <1>6, Zenon
<1>13. \A v \in given', m \in Nodes : Has(m)' => v <= Lo(m)' \/ v > Hi(m)'
  BY <1>8, <1>9, Zenon
<1> QED
  BY <1>3, <1>4, <1>7, <1>10, <1>11, <1>12, <1>13, Zenon DEF Apart

\* What a node has is clear for it; and so is what the document has not given yet.
LEMMA OwnClear ==
  ASSUME Apart, NEW n \in Nodes, Has(n)
  PROVE  Clear(n, Lo(n), Hi(n))
BY Zenon DEF Apart, Clear

LEMMA AheadClear ==
  ASSUME TypeOK, Apart, Bounded, NEW n \in Nodes, doc # None, NEW hi \in Int
  PROVE  Clear(n, Ahead - 1, hi)
<1>1. /\ given \subseteq Int /\ last \in [Nodes -> Int]
      /\ \A m \in Nodes : Has(m) => Lo(m) \in Int /\ Hi(m) \in Int
      /\ Ahead \in Int /\ Ahead >= Start /\ Start \in -MaxInt .. MaxInt /\ MaxInt \in Int
  BY OutTypes, RangeTypes, AheadType, SequenceAssumption DEF Bounded, MaxInt
<1>2. last[n] <= Ahead - 1
  BY <1>1 DEF Apart
<1>3. \A v \in given : v <= Ahead - 1
  BY <1>1 DEF Apart
<1>4. \A m \in Nodes : Has(m) => Hi(m) <= Ahead - 1
  BY <1>1 DEF Apart
<1> QED
  BY <1>2, <1>3, <1>4, Zenon DEF Clear

----------------------------------------------------------------------------
(* Steps that take no block and hand out no value.                         *)

Kept(n) ==
  /\ Live(n)' => /\ Live(n) /\ seq'[n].current = seq[n].current
                 /\ seq'[n].remaining = seq[n].remaining /\ seq'[n].increment = seq[n].increment
  /\ Held(n)' => /\ Held(n) /\ got'[n].block = got[n].block /\ doc'.base = doc.base
                 /\ doc'.cache = doc.cache /\ doc'.increment = doc.increment

LEMMA KeptWithin ==
  ASSUME TypeOK, EntryInv, NEW n \in Nodes, Kept(n)
  PROVE  Within(n)
<1> SUFFICES ASSUME Has(n)' PROVE Has(n) /\ Lo(n)' = Lo(n) /\ Hi(n)' = Hi(n)
  <2>1. CASE Has(n)
    <3>1. Lo(n) \in Int /\ Hi(n) \in Int
      BY <2>1, RangeTypes, Zenon
    <3> QED
      BY <3>1 DEF Within
  <2> QED
    BY <2>1, Zenon DEF Within
<1>1. CASE Live(n)'
  BY <1>1, Zenon DEF Kept, Has, Lo, Hi
<1>2. CASE ~Live(n)'
  <2>1. Held(n)' /\ Held(n)
    BY <1>2, Zenon DEF Has, Kept
  <2>2. ~Live(n)
    BY <2>1 DEF EntryInv, Entry, Held, Live
  <2>3. Raw(got[n].block, doc)' = Raw(got[n].block, doc)
    BY <2>1, Zenon DEF Kept, Raw
  <2>4. (doc.cache * doc.increment)' = doc.cache * doc.increment
    BY <2>1, Zenon DEF Kept
  <2> QED
    BY <1>2, <2>1, <2>2, <2>3, <2>4, Zenon DEF Has, Lo, Hi
<1> QED
  BY <1>1, <1>2, Zenon

Quiet(n) ==
  \/ Call(n) \/ Load(n) \/ Lock(n) \/ Validate(n) \/ Refresh(n) \/ NotFound(n)
  \/ PrevCached(n) \/ NeedBlock(n) \/ Alter(n) \/ AlterRetry(n) \/ Drop(n) \/ Hear(n)

\* What they leave alone.
Still ==
  /\ UNCHANGED <<given, twice, last>> /\ upset \subseteq upset'
  /\ doc' = doc \/ doc' = None
  /\ \A m \in Nodes : Kept(m)
  /\ \A m \in Nodes : pc'[m] = "update" =>
       \/ pc[m] = "update" /\ alter'[m].restart = alter[m].restart
       \/ doc # None /\ alter'[m].restart = restartValue

LEMMA QuietStill ==
  ASSUME TypeOK, EntryInv, NEW n \in Nodes, Quiet(n)
  PROVE  Still
<1>a. /\ seq \in [Nodes -> EntrySet] /\ got \in [Nodes -> GotSet] /\ alter \in [Nodes -> AlterSet]
      /\ pc \in [Nodes -> Places]
  BY TypeParts, Zenon DEF SeqType
<1> DEFINE Steps == /\ UNCHANGED <<given, twice, last>> /\ upset \subseteq upset'
                    /\ doc' = doc \/ doc' = None
                    /\ \/ seq' = seq \/ seq' = [seq EXCEPT ![n] = NewEntry]
                       \/ seq' = [seq EXCEPT ![n] = load(seq[n])]
                       \/ seq' = [seq EXCEPT ![n] = [seq[n] EXCEPT !.accessed = TRUE]]
                    /\ pc'[n] = "load" => pc[n] = "load" /\ got' = got
           Alters == pc'[n] = "update" =>
                       \/ pc[n] = "update" /\ alter'[n].restart = alter[n].restart
                       \/ doc # None /\ alter'[n].restart = restartValue
<1>b. Steps
  <2>1. CASE Call(n)
    BY <1>a, <2>1, Zenon DEF Call, docVars, callVars, seqVars, outVars
  <2>2. CASE Load(n)
    BY <1>a, <2>2, Zenon DEF Load, docVars, callVars, seqVars, outVars
  <2>3. CASE Lock(n)
    BY <1>a, <2>3, Zenon DEF Lock, docVars, callVars, seqVars, outVars
  <2>4. CASE Validate(n)
    BY <1>a, <2>4, Zenon DEF Validate, docVars, callVars, seqVars, outVars
  <2>5. CASE Refresh(n)
    BY <1>a, <2>5, Zenon DEF Refresh, Unlock, docVars, callVars, seqVars, outVars
  <2>6. CASE NotFound(n)
    BY <1>a, <2>6, Zenon DEF NotFound, Unlock, docVars, callVars, seqVars, outVars
  <2>7. CASE PrevCached(n)
    BY <1>a, <2>7, Zenon DEF PrevCached, Unlock, docVars, callVars, seqVars, outVars
  <2>8. CASE NeedBlock(n)
    BY <1>a, <2>8, Zenon DEF NeedBlock, docVars, callVars, seqVars, outVars
  <2>9. CASE Alter(n)
    BY <1>a, <2>9, Zenon DEF Alter, Unlock, docVars, callVars, seqVars, outVars
  <2>10. CASE AlterRetry(n)
    BY <1>a, <2>10, Zenon DEF AlterRetry, docVars, callVars, seqVars, outVars
  <2>11. CASE Drop(n)
    BY <1>a, <2>11, Zenon DEF Drop, Unlock, docVars, callVars, seqVars, outVars
  <2>12. CASE Hear(n)
    BY <1>a, <2>12, Zenon DEF Hear, docVars, callVars, seqVars, outVars
  <2> QED
    BY <2>1, <2>2, <2>3, <2>4, <2>5, <2>6, <2>7, <2>8, <2>9, <2>10, <2>11, <2>12, Zenon DEF Quiet
<1>c. Alters
  <2>1. CASE Call(n) \/ Load(n) \/ Hear(n)
    BY <2>1, Zenon DEF Call, Load, Hear, docVars, callVars
  <2>2. CASE Validate(n) \/ AlterRetry(n)
    BY <1>a, <2>2, Zenon DEF Validate, AlterRetry, Touch, AlterSet, callVars
  <2>3. CASE Lock(n) \/ NeedBlock(n)
    BY <1>a, <2>3, Zenon DEF Lock, NeedBlock
  <2>4. CASE Refresh(n) \/ NotFound(n) \/ PrevCached(n) \/ Drop(n)
    BY <1>a, <2>4, Zenon DEF Refresh, NotFound, PrevCached, Drop, Unlock
  <2>5. CASE Alter(n)
    BY <1>a, <2>5 DEF Alter, Unlock
  <2> QED
    BY <2>1, <2>2, <2>3, <2>4, <2>5, Zenon DEF Quiet
<1>d. \A m \in Nodes \ {n} : Alone(m)
  BY AloneStep, Zenon DEF Quiet, Work
<1>e. ASSUME Live(n)'
      PROVE  /\ Live(n) /\ seq'[n].current = seq[n].current
             /\ seq'[n].remaining = seq[n].remaining /\ seq'[n].increment = seq[n].increment
  <2>1. seq'[n].remaining > 0
    BY <1>e, Zenon DEF Live
  <2>2. seq'[n] # NewEntry /\ seq'[n] # load(seq[n])
    <3>1. NewEntry.remaining = 0
      BY Zenon DEF NewEntry
    <3>2. load(seq[n]).remaining = 0
      BY <1>a, Zenon DEF load, EntrySet
    <3> QED
      BY <2>1, <3>1, <3>2
  <2>3. seq'[n] = seq[n] \/ seq'[n] = [seq[n] EXCEPT !.accessed = TRUE]
    BY <1>a, <1>b, <2>2, Zenon
  <2> QED
    BY <1>a, <1>e, <2>3, Zenon DEF Live, EntrySet
<1>f. ASSUME NEW m \in Nodes PROVE Kept(m)
  <2>1. CASE m = n
    BY <1>b, <1>e, <2>1, Zenon DEF Kept, Held
  <2>2. CASE m # n
    BY <1>b, <1>d, <2>2, Zenon DEF Kept, Live, Held, Alone
  <2> QED
    BY <2>1, <2>2, Zenon
<1> QED
  BY <1>b, <1>c, <1>d, <1>f, Zenon DEF Still, Alone

\* The rest of the step.
LEMMA Grows == upset \subseteq upset' => (Sound' => Sound) /\ (Unwrapped' => Unwrapped) /\ (Sound => Unwrapped)
BY Zenon DEF Sound, Unwrapped

LEMMA RestartExact ==
  ASSUME TypeOK, Bounded, doc # None, Ahead <= MaxInt
  PROVE  restartValue = Ahead /\ Start <= Ahead
<1>1. Ahead \in Int /\ Ahead >= doc.base /\ doc.base \in Int
  BY AheadType, Zenon
<1>2. Start <= doc.base /\ Start \in -MaxInt .. MaxInt /\ MaxInt \in Int
  BY SequenceAssumption DEF Bounded, MaxInt
<1>3. Ahead \in Ints
  BY <1>1, <1>2 DEF Ints
<1>4. restartValue = Int64(Ahead)
  BY Zenon DEF restartValue, First, Ahead, Raw
<1> QED
  BY <1>1, <1>2, <1>3, <1>4, Wraps

LEMMA StillLimits ==
  ASSUME TypeOK, Bounded, Still
  PROVE  Bounded'
<1>1. \A v \in given' : Start <= v /\ v <= Limit
  BY Zenon DEF Still, Bounded
<1>2. ASSUME doc' # None PROVE doc' = doc /\ Ahead' = Ahead
  BY <1>2, Zenon DEF Still, Ahead, Raw
<1>3. \A n \in Nodes : Live(n)' => Start <= seq'[n].current /\ seq'[n].increment > 0
  BY Zenon DEF Still, Kept, Bounded
<1>4. ASSUME NEW n \in Nodes, pc'[n] = "update", doc' # None
      PROVE  Start <= alter'[n].restart \/ Ahead' > MaxInt
  <2>1. CASE pc[n] = "update" /\ alter'[n].restart = alter[n].restart
    BY <1>2, <1>4, <2>1, Zenon DEF Bounded
  <2>2. CASE doc # None /\ alter'[n].restart = restartValue
    <3>1. Ahead \in Int /\ MaxInt \in Int
      BY <2>2, AheadType, SequenceAssumption DEF MaxInt
    <3> QED
      BY <1>2, <1>4, <2>2, <3>1, RestartExact
  <2> QED
    BY <1>4, <2>1, <2>2, Zenon DEF Still
<1>5. MaxInt' = MaxInt
  BY Zenon DEF MaxInt
<1> QED
  BY <1>1, <1>2, <1>3, <1>4, <1>5, Zenon DEF Bounded

LEMMA StillApart ==
  ASSUME TypeOK, EntryInv, Apart, Still
  PROVE  Apart' /\ \A n \in Nodes : last'[n] >= last[n]
<1>1. \A n \in Nodes : Within(n)
  BY KeptWithin, Zenon DEF Still
<1>2. Forward
  <2> SUFFICES ASSUME doc' # None PROVE doc # None /\ Ahead' = Ahead /\ Ahead \in Int
    BY DEF Forward
  <2>1. doc' = doc
    BY Zenon DEF Still
  <2> QED
    BY <2>1, AheadType, Zenon DEF Ahead, Raw
<1> QED
  BY <1>1, <1>2, Shrink, Zenon DEF Still

----------------------------------------------------------------------------
(* The values of an entry (NextCached).                                    *)

\* What a step of node n leaves alone on the others.
Elsewhere(n) ==
  \A m \in Nodes \ {n} :
    /\ Kept(m)
    /\ pc'[m] = "update" => pc[m] = "update" /\ alter'[m].restart = alter[m].restart

LEMMA NextEffects ==
  ASSUME TypeOK, EntryInv, NEW n \in Nodes, NextCached(n)
  PROVE  /\ UNCHANGED <<doc, upset>> /\ Elsewhere(n) /\ pc'[n] = "idle"
         /\ seq[n] \in EntrySet /\ seq[n].remaining > 0
         /\ seq'[n].increment = seq[n].increment /\ seq'[n].remaining = seq[n].remaining - 1
         /\ \/ UNCHANGED <<given, twice, last>> /\ seq'[n].current = seq[n].current
            \/ /\ seq[n].current <= Int64(seq[n].current + seq[n].increment)
               /\ Int64(seq[n].current + seq[n].increment) <= Limit
               /\ seq'[n].current = Int64(seq[n].current + seq[n].increment)
               /\ Give(n, seq'[n].current)
<1>a. /\ seq \in [Nodes -> EntrySet] /\ pc \in [Nodes -> Places]
      /\ seq[n] \in EntrySet
  BY TypeParts, Zenon DEF SeqType
<1> DEFINE c == Int64(seq[n].current + seq[n].increment)
<1>1. UNCHANGED <<doc, alter, got, upset>> /\ pc' = [pc EXCEPT ![n] = "idle"] /\ seq[n].remaining > 0
  BY <1>a, Zenon DEF NextCached, docVars, Unlock, Ready
<1>2. \A m \in Nodes \ {n} : seq'[m] = seq[m]
  BY <1>a, Zenon DEF NextCached
<1>3. Elsewhere(n)
  BY <1>a, <1>1, <1>2, Zenon DEF Elsewhere, Kept, Live, Held
<1>4. seq'[n].increment = seq[n].increment /\ seq'[n].remaining = seq[n].remaining - 1
  BY <1>a DEF NextCached, EntrySet
<1>5. \/ UNCHANGED <<given, twice, last>> /\ seq'[n].current = seq[n].current
      \/ ~checkCycle(seq[n].current, c) /\ seq'[n].current = c /\ Give(n, c)
  BY <1>a DEF NextCached, EntrySet
<1>6. c \in Int /\ seq[n].current \in Int /\ Limit \in Int
  BY <1>a, EntryTypes, Wraps, SequenceAssumption DEF Ints, MaxInt
<1>7. ~checkCycle(seq[n].current, c) => seq[n].current <= c /\ c <= Limit
  BY <1>6 DEF checkCycle
<1> HIDE DEF c
<1>8. pc'[n] = "idle"
  BY <1>a, <1>1, Zenon
<1> QED
  BY <1>a, <1>1, <1>3, <1>4, <1>5, <1>7, <1>8, Zenon DEF c

\* A value that is handed out from the entry is the next one.
LEMMA NextValue ==
  ASSUME TypeOK, EntryInv, NEW n \in Nodes,
         seq[n].current <= Int64(seq[n].current + seq[n].increment)
  PROVE  Int64(seq[n].current + seq[n].increment) = seq[n].current + seq[n].increment
<1>1. seq[n] \in EntrySet /\ (seq[n].cache = 0 <=> seq[n].increment = 0)
  BY TypeParts, Zenon DEF SeqType, EntryInv, Entry
<1>2. /\ seq[n].current \in Ints /\ seq[n].increment \in Nat /\ seq[n].cache \in Nat
      /\ seq[n].cache > 0 => seq[n].cache \in Caches
      /\ seq[n].increment > 0 => seq[n].increment \in Increments
  BY <1>1, EntryTypes, Zenon DEF EntrySet
<1>3. MaxInt \in Nat
  BY SequenceAssumption DEF MaxInt
<1>4. CASE seq[n].increment = 0
  <2>1. seq[n].increment \in 0 .. MaxInt
    BY <1>3, <1>4
  <2>2. Int64(seq[n].current + seq[n].increment) \in Int /\ seq[n].current \in Int
    BY <1>1, <1>2, EntryTypes, Wraps, SequenceAssumption DEF Ints, MaxInt
  <2> QED
    BY <1>2, <2>1, <2>2, NextExact
<1>5. CASE seq[n].increment # 0
  <2>1. seq[n].increment \in 0 .. MaxInt
    <3>1. seq[n].cache \in Caches /\ seq[n].increment \in Increments
      BY <1>1, <1>2, <1>5
    <3> QED
      BY <1>2, <3>1, <1>3, StepBounds
  <2>2. Int64(seq[n].current + seq[n].increment) \in Int /\ seq[n].current \in Int
    BY <1>1, <1>2, EntryTypes, Wraps, SequenceAssumption DEF Ints, MaxInt
  <2> QED
    BY <1>2, <2>1, <2>2, NextExact
<1> QED
  BY <1>4, <1>5, Zenon

LEMMA NextLimits ==
  ASSUME TypeOK, EntryInv, Bounded, NEW n \in Nodes, NextCached(n)
  PROVE  Bounded'
<1> DEFINE c == Int64(seq[n].current + seq[n].increment)
<1>1. /\ UNCHANGED <<doc, upset>> /\ Elsewhere(n) /\ pc'[n] = "idle"
      /\ seq[n] \in EntrySet /\ seq[n].remaining > 0
      /\ seq'[n].increment = seq[n].increment /\ seq'[n].remaining = seq[n].remaining - 1
      /\ \/ UNCHANGED <<given, twice, last>> /\ seq'[n].current = seq[n].current
         \/ seq[n].current <= c /\ c <= Limit /\ seq'[n].current = c /\ Give(n, c)
  BY NextEffects, Zenon
<1>2. /\ seq[n].current \in Int /\ seq[n].increment \in Nat /\ seq[n].remaining \in Nat
      /\ Limit \in Int /\ Start \in Int
  BY <1>1, EntryTypes, SequenceAssumption DEF MaxInt
<1>3. seq[n].current <= c => c = seq[n].current + seq[n].increment
  BY NextValue, Zenon
<1> HIDE DEF c
<1>4. ASSUME c <= Limit, seq[n].current <= c PROVE Live(n) /\ Start <= c /\ seq[n].increment > 0
  <2>1. Live(n)
    BY <1>1, <1>2, <1>3, <1>4 DEF Live
  <2> QED
    BY <1>2, <1>3, <1>4, <2>1 DEF Bounded
<1>5. \A v \in given' : Start <= v /\ v <= Limit
  BY <1>1, <1>4, Zenon DEF Bounded, Give
<1>6. ASSUME NEW m \in Nodes, Live(m)' PROVE Start <= seq'[m].current /\ seq'[m].increment > 0
  <2>1. CASE m # n
    BY <1>1, <1>6, <2>1, Zenon DEF Elsewhere, Kept, Bounded
  <2>2. CASE m = n /\ seq'[n].current = seq[n].current
    <3>1. Live(n)
      BY <1>1, <1>6, <2>2, Zenon DEF Live
    <3> QED
      BY <1>1, <2>2, <3>1, Zenon DEF Bounded
  <2>3. CASE m = n /\ seq[n].current <= c /\ c <= Limit /\ seq'[n].current = c
    BY <1>1, <1>4, <2>3, Zenon
  <2> QED
    BY <1>1, <2>1, <2>2, <2>3, Zenon
<1>7. Ahead' = Ahead
  BY <1>1, Zenon DEF Ahead, Raw
<1>8. \A m \in Nodes : pc'[m] = "update" /\ doc' # None => Start <= alter'[m].restart \/ Ahead' > MaxInt
  BY <1>1, <1>7, Zenon DEF Bounded, Elsewhere
<1> QED
  BY <1>1, <1>5, <1>6, <1>8, Zenon DEF Bounded, MaxInt

LEMMA NextApart ==
  ASSUME TypeOK, EntryInv, Bounded, Apart, NEW n \in Nodes, NextCached(n)
  PROVE  Apart' /\ \A m \in Nodes : last'[m] >= last[m]
<1> DEFINE c == Int64(seq[n].current + seq[n].increment)
           p == seq[n].current
           i == seq[n].increment
           r == seq[n].remaining
<1>1. /\ UNCHANGED <<doc, upset>> /\ Elsewhere(n) /\ pc'[n] = "idle"
      /\ seq[n] \in EntrySet /\ r > 0
      /\ seq'[n].increment = i /\ seq'[n].remaining = r - 1
      /\ \/ UNCHANGED <<given, twice, last>> /\ seq'[n].current = p
         \/ p <= c /\ c <= Limit /\ seq'[n].current = c /\ Give(n, c)
  BY NextEffects, Zenon
<1>2. p \in Int /\ i \in Nat /\ r \in Nat /\ Limit \in Int
  BY <1>1, EntryTypes, SequenceAssumption DEF MaxInt
<1>3. p <= c => c = p + i
  BY NextValue, Zenon
<1>4. \A m \in Nodes \ {n} : Within(m)
  BY <1>1, KeptWithin, Zenon DEF Elsewhere
<1>5. Ahead' = Ahead /\ (doc # None => Ahead \in Int)
  BY <1>1, AheadType, Zenon DEF Ahead, Raw
<1>6. Forward
  BY <1>1, <1>5 DEF Forward
<1>7. ~Held(n)'
  BY <1>1, Zenon DEF Held
<1>8. Live(n)' => Lo(n)' = seq'[n].current /\ Hi(n)' = seq'[n].current + (r - 1) * i
  BY <1>1, Zenon DEF Lo, Hi
<1>9. Live(n) => Lo(n) = p /\ Hi(n) = p + r * i
  BY Zenon DEF Lo, Hi
<1>l1. Live(n) <=> p <= Limit
  BY <1>1, Zenon DEF Live
<1>l2. Live(n)' <=> r - 1 > 0 /\ seq'[n].current <= Limit
  BY <1>1, Zenon DEF Live
<1> HIDE DEF c, p, i, r
<1>10. r * i \in Nat /\ (r - 1) * i = r * i - i /\ i <= r * i
  <2>1. r - 1 \in Nat
    BY <1>1, <1>2
  <2>2. (r - 1) * i \in Nat
    BY <1>2, <2>1
  <2>3. r * i = (r - 1) * i + i
    BY <1>2, <2>1
  <2> QED
    BY <1>2, <2>2, <2>3
<1>11. CASE UNCHANGED <<given, twice, last>> /\ seq'[n].current = p
  <2>1. Within(n)
    BY <1>2, <1>7, <1>8, <1>9, <1>10, <1>11, <1>l1, <1>l2 DEF Within, Has
  <2> QED
    BY <1>4, <1>6, <1>11, <2>1, Shrink, Zenon
<1>12. CASE p <= c /\ c <= Limit /\ seq'[n].current = c /\ Give(n, c)
  <2>1. Live(n)
    BY <1>1, <1>2, <1>3, <1>12, <1>l1
  <2>2. i > 0
    BY <2>1, Zenon DEF Bounded, i
  <2>3. Clear(n, Lo(n), Hi(n)) /\ Lo(n) \in Int /\ Hi(n) \in Int
    BY <2>1, OwnClear, RangeTypes, Zenon DEF Has
  <2>4. doc' # None => Hi(n) < Ahead'
    BY <1>1, <1>5, <2>1, Zenon DEF Apart, Has
  <2>5. c \in Int /\ Lo(n) < c /\ c <= Hi(n)
    BY <1>2, <1>3, <1>9, <1>10, <1>12, <2>1, <2>2
  <2>6. Has(n)' => Lo(n)' \in Int /\ Hi(n)' \in Int /\ Lo(n) <= Lo(n)' /\ Hi(n)' <= Hi(n) /\ c <= Lo(n)'
    BY <1>2, <1>3, <1>7, <1>8, <1>9, <1>10, <1>12, <2>1, <2>5 DEF Has
  <2> QED
    BY <1>4, <1>6, <1>12, <2>3, <2>4, <2>5, <2>6, Advance, Zenon
<1> QED
  BY <1>1, <1>11, <1>12, Zenon

----------------------------------------------------------------------------
(* Blocks (TakeBlock, Reload).                                             *)

\* A block that overflows or lies beyond the limit leaves the node no values.
LEMMA UseNothing ==
  ASSUME TypeOK, NEW n \in Nodes, NEW block \in Int, NEW e \in EntrySet, e.remaining = 0,
         pc' = [pc EXCEPT ![n] = "idle"],
         \/ seq' = [seq EXCEPT ![n] = e]
         \/ seq' = [seq EXCEPT ![n] = Full(block, e)] /\ First(block, e) > Limit
  PROVE  ~Has(n)'
<1>1. seq \in [Nodes -> EntrySet] /\ pc \in [Nodes -> Places]
  BY TypeParts, Zenon DEF SeqType
<1>2. First(block, e) \in Int /\ Limit \in Int
  BY EntryTypes, FirstType, SequenceAssumption DEF Ints, MaxInt
<1>3. Full(block, e).current = First(block, e)
  BY Zenon DEF Full, EntrySet
<1>4. ~Live(n)'
  BY <1>1, <1>2, <1>3 DEF Live
<1>5. ~Held(n)'
  BY <1>1, Zenon DEF Held
<1> QED
  BY <1>4, <1>5, Zenon DEF Has

\* A block that is used begins where the document says.
LEMMA UseGives ==
  ASSUME TypeOK, Bounded, Unwrapped', doc # None,
         NEW n \in Nodes, NEW block \in Nat, NEW e \in EntrySet,
         e.base = doc.base, e.cache = doc.cache, e.increment = doc.increment,
         pc' = [pc EXCEPT ![n] = "idle"], seq' = [seq EXCEPT ![n] = Full(block, e)],
         got[n].getOnly \/ ~Overflow(First(block - 1, e), First(block, e)),
         ~(e.increment > 0 /\ First(block, e) > Limit),
         upset' = upset \cup Noted(block, e, got[n].getOnly)
  PROVE  /\ ~got[n].getOnly
         /\ First(block, e) = Raw(block, doc) /\ Raw(block, doc) \in Int
         /\ Start <= Raw(block, doc) /\ Raw(block, doc) <= Limit
         /\ ~Held(n)' /\ seq'[n].current = Raw(block, doc) /\ seq'[n].increment > 0
         /\ Has(n)' => /\ Lo(n)' = Raw(block, doc) /\ Hi(n)' \in Int
                       /\ Hi(n)' <= Raw(block, doc) + doc.cache * doc.increment - 1
<1> DEFINE c == doc.cache
           i == doc.increment
           v == Raw(block, doc)
<1>a. seq \in [Nodes -> EntrySet] /\ pc \in [Nodes -> Places]
  BY TypeParts, Zenon DEF SeqType
<1>b. /\ c \in Nat \ {0} /\ i \in Nat \ {0} /\ doc.base \in Int /\ Start \in Int /\ Limit \in Int
      /\ c \in Caches /\ i \in Increments /\ MaxInt \in Int
  BY AheadType, DocTypes, SequenceAssumption DEF MaxInt
<1>1. ~got[n].getOnly
  BY Zenon DEF Unwrapped, Noted
<1>2. Raw(block - 1, e) <= MaxInt
  <2>1. Raw(block - 1, e) \in Int
    BY <1>b, RawSteps
  <2>2. ~((block - 1) * e.cache * e.increment + e.base > MaxInt)
    BY Zenon DEF Unwrapped, Noted
  <2> QED
    BY <1>b, <2>1, <2>2 DEF Raw
<1>3. First(block, e) = Raw(block, e)
  <2>1. e.base \in Ints
    BY Zenon DEF EntrySet
  <2> QED
    BY <1>1, <1>2, <1>b, <2>1, BlockExact, Zenon
<1>4. Raw(block, e) = v
  BY Zenon DEF Raw
<1>5. v \in Int /\ v >= doc.base
  BY <1>b, RawSteps, RawGrows
<1>6. Start <= v /\ v <= Limit
  BY <1>3, <1>4, <1>5, <1>b DEF Bounded
<1>7. seq'[n] = Full(block, e)
  BY <1>a, Zenon
<1>8. ~Held(n)'
  BY <1>a, Zenon DEF Held
<1>9. Full(block, e).remaining = c - 1
  BY <1>b, FullType
<1>10. Full(block, e).current = v /\ Full(block, e).increment = i
  BY <1>3, <1>4, Zenon DEF Full, EntrySet
<1>11. Has(n)' => Lo(n)' = v /\ Hi(n)' = v + (c - 1) * i
  BY <1>7, <1>8, <1>9, <1>10, Zenon DEF Has, Lo, Hi
<1> HIDE DEF c, i, v
<1>12. (c - 1) * i \in Int /\ (c - 1) * i <= c * i - 1
  <2>1. (c - 1) * i = c * i - i /\ c * i \in Int
    BY <1>b
  <2> QED
    BY <1>b, <2>1
<1>13. Has(n)' => Hi(n)' \in Int /\ Hi(n)' <= v + c * i - 1
  <2>1. c * i \in Int
    BY <1>b
  <2> QED
    BY <1>5, <1>11, <1>12, <2>1
<1> QED
  BY <1>1, <1>3, <1>4, <1>5, <1>6, <1>7, <1>8, <1>10, <1>11, <1>13, <1>b DEF c, i, v

LEMMA TakeDoc ==
  ASSUME TypeOK, NEW n \in Nodes, TakeBlock(n)
  PROVE  /\ doc # None
         /\ doc'.base = doc.base /\ doc'.cache = doc.cache /\ doc'.increment = doc.increment
         /\ doc'.version = doc.version
         /\ Ahead \in Int /\ Ahead' \in Int /\ Ahead <= Ahead'
         /\ ~got[n].getOnly => Ahead' = Ahead + doc.cache * doc.increment
<1>1. doc # None /\ doc \in Docs /\ doc.block \in Nat
  BY DocTypes, Zenon DEF TakeBlock
<1>2. /\ Ahead \in Int /\ doc.base \in Int /\ doc.cache \in Int /\ doc.increment \in Int
      /\ doc.cache * doc.increment \in Nat
  BY <1>1, AheadType, SequenceAssumption DEF MaxInt
<1>3. /\ doc'.base = doc.base /\ doc'.cache = doc.cache /\ doc'.increment = doc.increment
      /\ doc'.version = doc.version
      /\ doc'.block = IF got[n].getOnly THEN doc.block ELSE doc.block + 1
  BY <1>1, Zenon DEF TakeBlock, Docs
<1>4. CASE got[n].getOnly
  <2>1. Ahead' = Ahead
    BY <1>3, <1>4, Zenon DEF Ahead, Raw
  <2> QED
    BY <1>1, <1>2, <1>3, <1>4, <2>1
<1>5. CASE ~got[n].getOnly
  <2>1. Ahead' = Raw(doc.block + 1, doc)
    BY <1>3, <1>5, Zenon DEF Ahead, Raw
  <2>2. Ahead' = Ahead + doc.cache * doc.increment
    BY <1>1, <1>2, <2>1, RawSteps DEF Ahead
  <2> QED
    BY <1>1, <1>2, <1>3, <1>5, <2>2
<1> QED
  BY <1>4, <1>5, Zenon

LEMMA TakeElsewhere ==
  ASSUME TypeOK, NEW n \in Nodes, TakeBlock(n)
  PROVE  Elsewhere(n) /\ pc'[n] \in {"idle", "load"}
<1>a. /\ seq \in [Nodes -> EntrySet] /\ pc \in [Nodes -> Places] /\ got \in [Nodes -> GotSet]
      /\ alter \in [Nodes -> AlterSet]
  BY TypeParts, Zenon DEF SeqType
<1>1. \A m \in Nodes \ {n} : pc'[m] = pc[m] /\ got'[m] = got[m]
  BY <1>a, Zenon DEF TakeBlock, Use, Unlock
<1>2. pc'[n] \in {"idle", "load"}
  BY <1>a, Zenon DEF TakeBlock, Use, Unlock
<1>3. \A m \in Nodes \ {n} : seq'[m] = seq[m]
  <2>1. CASE Use(n, doc.block, seq[n])
    BY <1>a, <2>1, UseCases
  <2>2. CASE ~Use(n, doc.block, seq[n])
    BY <1>a, <2>2, Zenon DEF TakeBlock
  <2> QED
    BY <2>1, <2>2, Zenon
<1>4. \A m \in Nodes : alter'[m].restart = alter[m].restart
  BY <1>a DEF TakeBlock, Touch, AlterSet
<1>5. doc # None /\ doc'.base = doc.base /\ doc'.cache = doc.cache /\ doc'.increment = doc.increment /\ doc'.version = doc.version
  BY TakeDoc, Zenon
<1> QED
  BY <1>1, <1>2, <1>3, <1>4, <1>5, Zenon DEF Elsewhere, Kept, Live, Held

\* The three outcomes of taking a block.
LEMMA TakeCases ==
  ASSUME TypeOK, EntryInv, Bounded, Unwrapped', NEW n \in Nodes, TakeBlock(n)
  PROVE  \/ UNCHANGED outVars /\ ~Has(n)'
         \/ /\ UNCHANGED outVars /\ ~Live(n)' /\ ~got[n].getOnly
            /\ Lo(n)' = Ahead - 1 /\ Hi(n)' = Ahead + doc.cache * doc.increment - 1
         \/ /\ ~got[n].getOnly /\ Give(n, Ahead) /\ upset \subseteq upset'
            /\ Start <= Ahead /\ Ahead <= Limit
            /\ seq'[n].current = Ahead /\ seq'[n].increment > 0
            /\ Has(n)' => /\ Lo(n)' = Ahead /\ Hi(n)' \in Int
                          /\ Hi(n)' <= Ahead + doc.cache * doc.increment - 1
<1>a. /\ seq \in [Nodes -> EntrySet] /\ pc \in [Nodes -> Places] /\ got \in [Nodes -> GotSet]
      /\ seq[n] \in EntrySet
  BY TypeParts, Zenon DEF SeqType
<1>b. pc[n] = "block" /\ doc # None /\ doc.block \in Nat /\ doc.block \in Int
  BY DocTypes DEF TakeBlock
<1>c. seq[n].remaining = 0 /\ (got[n].getOnly \/ seq[n].cache > 0)
  BY <1>b, Zenon DEF EntryInv, Entry
<1>1. CASE /\ got' = [got EXCEPT ![n].block = doc.block, ![n].version = doc.version]
           /\ pc' = [pc EXCEPT ![n] = "load"] /\ UNCHANGED <<seq, outVars>>
  <2>1. ~Live(n)'
    BY <1>c, <1>1 DEF Live
  <2>2. got'[n].block = doc.block /\ got'[n].getOnly = got[n].getOnly
    BY <1>a, <1>1, Zenon DEF GotSet
  <2>3. CASE got[n].getOnly
    BY <1>1, <2>1, <2>2, <2>3, Zenon DEF Has, Held
  <2>4. CASE ~got[n].getOnly
    <3>1. doc'.base = doc.base /\ doc'.cache = doc.cache /\ doc'.increment = doc.increment
      BY TakeDoc, Zenon
    <3>2. Raw(got[n].block, doc)' = Ahead
      BY <2>2, <3>1, Zenon DEF Raw, Ahead
    <3> QED
      BY <1>1, <2>1, <2>4, <3>1, <3>2, Zenon DEF Lo, Hi
  <2> QED
    BY <2>3, <2>4, Zenon
<1>2. CASE SameVersion(doc.version, seq[n]) /\ Use(n, doc.block, seq[n])
  <2> DEFINE e == seq[n]
  <2>1. pc' = [pc EXCEPT ![n] = "idle"]
    BY <1>2, UseCases, Zenon
  <2>2. CASE seq' = [seq EXCEPT ![n] = e] /\ UNCHANGED outVars
    BY <1>a, <1>b, <1>c, <2>1, <2>2, UseNothing, Zenon
  <2>3. CASE seq' = [seq EXCEPT ![n] = Full(doc.block, e)] /\ UNCHANGED outVars /\ First(doc.block, e) > Limit
    BY <1>a, <1>b, <1>c, <2>1, <2>3, UseNothing, Zenon
  <2>4. CASE /\ seq' = [seq EXCEPT ![n] = Full(doc.block, e)]
             /\ got[n].getOnly \/ ~Overflow(First(doc.block - 1, e), First(doc.block, e))
             /\ ~(e.increment > 0 /\ First(doc.block, e) > Limit)
             /\ Give(n, First(doc.block, e))
             /\ upset' = upset \cup Noted(doc.block, e, got[n].getOnly)
    <3>1. ~got[n].getOnly
      BY <2>4, Zenon DEF Unwrapped, Noted
    <3>2. e.base = doc.base /\ e.cache = doc.cache /\ e.increment = doc.increment
      BY <1>2, <1>b, <1>c, <3>1, Zenon DEF EntryInv, Entry, SameVersion
    <3>3. Ahead = Raw(doc.block, doc)
      BY Zenon DEF Ahead
    <3> QED
      BY <1>a, <1>b, <2>1, <2>4, <3>2, <3>3, UseGives, Zenon
  <2> QED
    BY <1>2, <2>2, <2>3, <2>4, UseCases
<1> QED
  BY <1>1, <1>2, Zenon DEF TakeBlock

\* The limits, after a step of node n.
LEMMA LimitsKept ==
  ASSUME TypeOK, Bounded, NEW n \in Nodes, Elsewhere(n), pc'[n] # "update",
         \A v \in given' : Start <= v /\ v <= Limit,
         doc' # None => doc # None /\ Ahead' \in Int /\ Ahead <= Ahead' /\ doc'.base = doc.base,
         Live(n)' => Start <= seq'[n].current /\ seq'[n].increment > 0
  PROVE  Bounded'
<1>1. MaxInt' = MaxInt /\ MaxInt \in Int
  BY SequenceAssumption DEF MaxInt
<1>2. doc' # None => Start <= doc'.base
  BY Zenon DEF Bounded
<1>3. \A m \in Nodes : Live(m)' => Start <= seq'[m].current /\ seq'[m].increment > 0
  BY Zenon DEF Bounded, Elsewhere, Kept
<1>4. ASSUME NEW m \in Nodes, pc'[m] = "update", doc' # None
      PROVE  Start <= alter'[m].restart \/ Ahead' > MaxInt
  <2>1. Start <= alter'[m].restart \/ Ahead > MaxInt
    BY <1>4, Zenon DEF Bounded, Elsewhere
  <2>2. Ahead \in Int /\ Ahead' \in Int /\ Ahead <= Ahead'
    BY <1>4, AheadType, Zenon
  <2> QED
    BY <1>1, <2>1, <2>2
<1> QED
  BY <1>1, <1>2, <1>3, <1>4, Zenon DEF Bounded

LEMMA TakeLimits ==
  ASSUME TypeOK, EntryInv, Bounded, Unwrapped', NEW n \in Nodes, TakeBlock(n)
  PROVE  Bounded'
<1>1. /\ doc # None /\ Ahead' \in Int /\ Ahead <= Ahead' /\ doc'.base = doc.base
      /\ Elsewhere(n) /\ pc'[n] # "update"
  BY TakeDoc, TakeElsewhere, Zenon
<1>2. /\ \A v \in given' : Start <= v /\ v <= Limit
      /\ Live(n)' => Start <= seq'[n].current /\ seq'[n].increment > 0
  <2>1. CASE UNCHANGED outVars /\ ~Live(n)'
    BY <2>1, Zenon DEF outVars, Bounded
  <2>2. CASE /\ Give(n, Ahead) /\ Start <= Ahead /\ Ahead <= Limit
             /\ seq'[n].current = Ahead /\ seq'[n].increment > 0
    BY <2>2, Zenon DEF Give, Bounded
  <2> QED
    BY <2>1, <2>2, TakeCases, Zenon DEF Has
<1> QED
  BY <1>1, <1>2, LimitsKept, Zenon

LEMMA TakeApart ==
  ASSUME TypeOK, EntryInv, Bounded, Apart, Unwrapped', NEW n \in Nodes, TakeBlock(n)
  PROVE  Apart' /\ \A m \in Nodes : last'[m] >= last[m]
<1> DEFINE lo == Ahead - 1
           hi == Ahead + doc.cache * doc.increment - 1
<1>1. doc # None /\ Ahead \in Int /\ Forward /\ (~got[n].getOnly => Ahead' = Ahead + doc.cache * doc.increment)
  BY TakeDoc, Zenon DEF Forward
<1>2. doc.cache * doc.increment \in Int /\ doc.cache * doc.increment >= 1
  BY <1>1, AheadType, SequenceAssumption DEF MaxInt
<1>3. lo \in Int /\ hi \in Int /\ lo < Ahead /\ Ahead <= hi /\ lo <= hi
  BY <1>1, <1>2
<1>4. ~got[n].getOnly => hi < Ahead'
  BY <1>1, <1>2
<1>5. \A m \in Nodes \ {n} : Within(m)
  BY TakeElsewhere, KeptWithin, Zenon DEF Elsewhere
<1>6. Clear(n, lo, hi)
  BY <1>1, <1>3, AheadClear, Zenon
<1>7. CASE UNCHANGED outVars /\ ~Has(n)'
  <2>1. Within(n)
    BY <1>7, Zenon DEF Within
  <2> QED
    BY <1>1, <1>5, <1>7, <2>1, Shrink, Zenon DEF outVars
<1>8. CASE UNCHANGED outVars /\ ~got[n].getOnly /\ Lo(n)' = lo /\ Hi(n)' = hi
  <2> HIDE DEF lo, hi
  <2>1. UNCHANGED <<given, twice, last>>
    BY <1>8, Zenon DEF outVars
  <2>2. Has(n)' => Lo(n)' \in Int /\ Hi(n)' \in Int /\ lo <= Lo(n)' /\ Hi(n)' <= hi
    BY <1>3, <1>8
  <2> QED
    BY <1>1, <1>3, <1>4, <1>5, <1>6, <1>8, <2>1, <2>2, Advance, Zenon
<1>9. CASE /\ ~got[n].getOnly /\ Give(n, Ahead)
           /\ Has(n)' => Lo(n)' = Ahead /\ Hi(n)' \in Int /\ Hi(n)' <= hi
  <2> HIDE DEF lo, hi
  <2>1. Has(n)' => Lo(n)' \in Int /\ Hi(n)' \in Int /\ lo <= Lo(n)' /\ Hi(n)' <= hi /\ Ahead <= Lo(n)'
    BY <1>1, <1>3, <1>9
  <2> QED
    BY <1>1, <1>3, <1>4, <1>5, <1>6, <1>9, <2>1, Advance, Zenon
<1> QED
  BY <1>7, <1>8, <1>9, TakeCases, Zenon

LEMMA ReloadElsewhere ==
  ASSUME TypeOK, NEW n \in Nodes, Reload(n)
  PROVE  Elsewhere(n) /\ pc'[n] \in {"idle", "block"} /\ UNCHANGED <<doc, alter>>
<1>a. seq \in [Nodes -> EntrySet] /\ pc \in [Nodes -> Places] /\ got \in [Nodes -> GotSet]
  BY TypeParts, Zenon DEF SeqType
<1>1. \A m \in Nodes \ {n} : pc'[m] = pc[m] /\ got'[m] = got[m]
  BY <1>a, Zenon DEF Reload, Use, Unlock
<1>2. pc'[n] \in {"idle", "block"} /\ UNCHANGED <<doc, alter>>
  BY <1>a, Zenon DEF Reload, Use, Unlock, docVars
<1>3. \A m \in Nodes \ {n} : seq'[m] = seq[m]
  <2>1. CASE Use(n, got[n].block, load(seq[n]))
    BY <1>a, <2>1, UseCases
  <2>2. CASE ~Use(n, got[n].block, load(seq[n]))
    BY <1>a, <2>2, Zenon DEF Reload
  <2> QED
    BY <2>1, <2>2, Zenon
<1> QED
  BY <1>1, <1>2, <1>3, Zenon DEF Elsewhere, Kept, Live, Held

\* The two outcomes of loading the entry.
LEMMA ReloadCases ==
  ASSUME TypeOK, EntryInv, Bounded, Unwrapped', NEW n \in Nodes, Reload(n)
  PROVE  \/ UNCHANGED outVars /\ ~Has(n)'
         \/ /\ Held(n) /\ ~Live(n) /\ upset \subseteq upset'
            /\ Give(n, Raw(got[n].block, doc)) /\ Raw(got[n].block, doc) \in Int
            /\ Start <= Raw(got[n].block, doc) /\ Raw(got[n].block, doc) <= Limit
            /\ seq'[n].current = Raw(got[n].block, doc) /\ seq'[n].increment > 0
            /\ Has(n)' => /\ Lo(n)' = Raw(got[n].block, doc) /\ Hi(n)' \in Int
                          /\ Hi(n)' <= Raw(got[n].block, doc) + doc.cache * doc.increment - 1
<1> DEFINE e == load(seq[n])
           block == got[n].block
<1>a. seq \in [Nodes -> EntrySet] /\ pc \in [Nodes -> Places] /\ seq[n] \in EntrySet
  BY TypeParts, Zenon DEF SeqType
<1>b. pc[n] = "load" /\ doc # None /\ block \in Nat /\ block \in Int
  BY TypeParts DEF Reload, GotSet
<1>c. seq[n].remaining = 0
  BY <1>b, Zenon DEF EntryInv, Entry
<1>d. /\ e \in EntrySet /\ e.remaining = 0
      /\ e.base = doc.base /\ e.cache = doc.cache /\ e.increment = doc.increment
  BY <1>a, <1>b, LoadType, Zenon
<1>1. CASE seq' = [seq EXCEPT ![n] = e] /\ pc' = [pc EXCEPT ![n] = "block"] /\ UNCHANGED outVars
  <2>1. ~Live(n)'
    BY <1>a, <1>d, <1>1 DEF Live
  <2>2. ~Held(n)'
    BY <1>a, <1>1, Zenon DEF Held
  <2> QED
    BY <1>1, <2>1, <2>2, Zenon DEF Has
<1>2. CASE SameVersion(got[n].version, doc) /\ Use(n, block, e)
  <2> HIDE DEF e, block
  <2>1. pc' = [pc EXCEPT ![n] = "idle"]
    BY <1>2, UseCases, Zenon
  <2>2. CASE seq' = [seq EXCEPT ![n] = e] /\ UNCHANGED outVars
    BY <1>b, <1>d, <2>1, <2>2, UseNothing, Zenon
  <2>3. CASE seq' = [seq EXCEPT ![n] = Full(block, e)] /\ UNCHANGED outVars /\ First(block, e) > Limit
    BY <1>b, <1>d, <2>1, <2>3, UseNothing, Zenon
  <2>4. CASE /\ seq' = [seq EXCEPT ![n] = Full(block, e)]
             /\ got[n].getOnly \/ ~Overflow(First(block - 1, e), First(block, e))
             /\ ~(e.increment > 0 /\ First(block, e) > Limit)
             /\ Give(n, First(block, e))
             /\ upset' = upset \cup Noted(block, e, got[n].getOnly)
    <3>1. ~got[n].getOnly
      BY <2>4, Zenon DEF Unwrapped, Noted
    <3>2. Held(n) /\ ~Live(n)
      BY <1>2, <1>b, <1>c, <3>1 DEF Held, Live, SameVersion
    <3>3. /\ First(block, e) = Raw(block, doc) /\ Raw(block, doc) \in Int
          /\ Start <= Raw(block, doc) /\ Raw(block, doc) <= Limit
          /\ seq'[n].current = Raw(block, doc) /\ seq'[n].increment > 0
          /\ Has(n)' => /\ Lo(n)' = Raw(block, doc) /\ Hi(n)' \in Int
                        /\ Hi(n)' <= Raw(block, doc) + doc.cache * doc.increment - 1
      BY <1>b, <1>d, <2>1, <2>4, UseGives, Zenon
    <3> QED
      BY <2>4, <3>2, <3>3, Zenon DEF block
  <2> QED
    BY <1>2, <2>2, <2>3, <2>4, UseCases
<1> QED
  BY <1>1, <1>2, Zenon DEF Reload

LEMMA ReloadLimits ==
  ASSUME TypeOK, EntryInv, Bounded, Unwrapped', NEW n \in Nodes, Reload(n)
  PROVE  Bounded'
<1> DEFINE v == Raw(got[n].block, doc)
<1>1. doc' = doc /\ Elsewhere(n) /\ pc'[n] # "update"
  BY ReloadElsewhere, Zenon
<1>2. doc' # None => doc # None /\ Ahead' \in Int /\ Ahead <= Ahead' /\ doc'.base = doc.base
  BY <1>1, AheadType DEF Ahead, Raw
<1>3. /\ \A w \in given' : Start <= w /\ w <= Limit
      /\ Live(n)' => Start <= seq'[n].current /\ seq'[n].increment > 0
  <2>1. CASE UNCHANGED outVars /\ ~Has(n)'
    BY <2>1, Zenon DEF outVars, Bounded, Has
  <2>2. CASE /\ Give(n, v) /\ Start <= v /\ v <= Limit
             /\ seq'[n].current = v /\ seq'[n].increment > 0
    BY <2>2, Zenon DEF Give, Bounded
  <2> QED
    BY <2>1, <2>2, ReloadCases, Zenon
<1> QED
  BY <1>1, <1>2, <1>3, LimitsKept, Zenon

LEMMA ReloadApart ==
  ASSUME TypeOK, EntryInv, Bounded, Apart, Unwrapped', NEW n \in Nodes, Reload(n)
  PROVE  Apart' /\ \A m \in Nodes : last'[m] >= last[m]
<1> DEFINE v == Raw(got[n].block, doc)
<1>1. doc' = doc /\ Elsewhere(n) /\ doc # None
  BY ReloadElsewhere, Zenon DEF Reload
<1>2. Ahead' = Ahead /\ Ahead \in Int
  BY <1>1, AheadType, Zenon DEF Ahead, Raw
<1>3. Forward
  BY <1>1, <1>2 DEF Forward
<1>4. \A m \in Nodes \ {n} : Within(m)
  BY <1>1, KeptWithin, Zenon DEF Elsewhere
<1>5. CASE UNCHANGED outVars /\ ~Has(n)'
  <2>1. Within(n)
    BY <1>5, Zenon DEF Within
  <2> QED
    BY <1>3, <1>4, <1>5, <2>1, Shrink, Zenon DEF outVars
<1>6. CASE /\ Held(n) /\ ~Live(n) /\ Give(n, v) /\ v \in Int
           /\ Has(n)' => /\ Lo(n)' = v /\ Hi(n)' \in Int /\ Hi(n)' <= v + doc.cache * doc.increment - 1
  <2>1. Has(n) /\ Lo(n) = v - 1 /\ Hi(n) = v + doc.cache * doc.increment - 1
    BY <1>6, Zenon DEF Has, Lo, Hi
  <2>2. Clear(n, Lo(n), Hi(n)) /\ Lo(n) \in Int /\ Hi(n) \in Int /\ Hi(n) < Ahead'
    BY <1>1, <1>2, <2>1, OwnClear, RangeTypes, Zenon DEF Apart
  <2>3. doc.cache * doc.increment \in Int /\ doc.cache * doc.increment >= 1
    BY <1>1, AheadType, SequenceAssumption DEF MaxInt
  <2> HIDE DEF v
  <2>4. Lo(n) < v /\ v <= Hi(n)
    BY <1>6, <2>1, <2>3
  <2>5. Has(n)' => Lo(n)' \in Int /\ Hi(n)' \in Int /\ Lo(n) <= Lo(n)' /\ Hi(n)' <= Hi(n) /\ v <= Lo(n)'
    BY <1>6, <2>1, <2>2, <2>4
  <2> QED
    BY <1>3, <1>4, <1>6, <2>2, <2>4, <2>5, Advance, Zenon
<1> QED
  BY <1>5, <1>6, ReloadCases, Zenon

----------------------------------------------------------------------------
(* ALTER SEQUENCE (AlterUpdate).                                           *)

LEMMA AlterEffects ==
  ASSUME TypeOK, EntryInv, NEW n \in Nodes, AlterUpdate(n)
  PROVE  /\ doc # None /\ pc[n] = "update" /\ pc'[n] = "idle"
         /\ UNCHANGED <<given, twice, last>>
         /\ doc'.base = alter[n].restart /\ Ahead' = alter[n].restart
         /\ \A m \in Nodes : Kept(m)
         /\ ~Live(n)'
         /\ \A m \in Nodes \ {n} : pc'[m] = pc[m] /\ alter'[m].restart = alter[m].restart
         /\ Ahead > MaxInt => "wrapped" \in upset'
         /\ alter[n].restart # restartValue => "retried" \in upset'
<1>a. /\ seq \in [Nodes -> EntrySet] /\ pc \in [Nodes -> Places] /\ alter \in [Nodes -> AlterSet]
  BY TypeParts, Zenon DEF SeqType
<1>1. /\ doc # None /\ pc[n] = "update" /\ pc' = [pc EXCEPT ![n] = "idle"]
      /\ UNCHANGED <<given, twice, last, got>> /\ doc' = Altered(seq[n], n)
  BY Zenon DEF AlterUpdate, Unlock
<1>2. doc \in Docs /\ doc.version \in Nat
  BY <1>1, DocTypes, Zenon
<1>3. doc'.base = alter[n].restart /\ doc'.block = 0 /\ doc'.version = doc.version + 1
  BY <1>1, <1>2, Zenon DEF Altered, Docs
<1>4. Ahead' = alter[n].restart
  <2>1. doc'.cache \in Int /\ doc'.increment \in Int
    <3>1. alter[n].cache \in Int /\ alter[n].increment \in Int
      <4>1. alter[n].cache \in Caches \cup {0} /\ alter[n].increment \in Increments \cup {0}
        BY <1>a, Zenon DEF AlterSet
      <4>2. Caches \cup {0} \subseteq Int /\ Increments \cup {0} \subseteq Int
        BY SequenceAssumption
      <4> QED
        BY <4>1, <4>2, Zenon
    <3>2. doc.cache \in Int /\ doc.increment \in Int
      BY <1>1, AheadType
    <3>3. doc'.cache \in {doc.cache, alter[n].cache} /\ doc'.increment \in {doc.increment, alter[n].increment}
      BY <1>1, <1>2, Zenon DEF Altered, Docs
    <3> QED
      BY <3>1, <3>2, <3>3, Zenon
  <2>2. alter[n].restart \in Int
    BY <1>a, SequenceAssumption DEF AlterSet, Ints, MaxInt
  <2>3. Ahead' = doc'.block * doc'.cache * doc'.increment + doc'.base
    BY Zenon DEF Ahead, Raw
  <2>4. 0 * doc'.cache * doc'.increment = 0
    BY <2>1
  <2> QED
    BY <1>3, <2>2, <2>3, <2>4
<1>5. \A m \in Nodes \ {n} : seq'[m] = seq[m]
  BY <1>a, Zenon DEF AlterUpdate
<1>6. ~Live(n)'
  BY <1>a DEF AlterUpdate, Live, EntrySet
<1>7. \A m \in Nodes : ~Held(m)'
  <2>1. ASSUME NEW m \in Nodes PROVE got[m].version \in Nat /\ got[m].version <= doc.version
    BY <1>1, TypeParts, SequenceAssumption, Zenon DEF EntryInv, Entry, GotSet
  <2> QED
    BY <1>1, <1>2, <1>3, <2>1 DEF Held
<1>8. \A m \in Nodes : Kept(m)
  BY <1>5, <1>6, <1>7, Zenon DEF Kept, Live
<1>9. \A m \in Nodes \ {n} : pc'[m] = pc[m] /\ alter'[m].restart = alter[m].restart
  <2>1. ASSUME NEW m \in Nodes \ {n}
        PROVE  alter[m] \in AlterSet /\ alter'[m] = [alter[m] EXCEPT !.good = FALSE]
    BY <1>a, Zenon DEF AlterUpdate
  <2>2. ASSUME NEW m \in Nodes \ {n} PROVE alter'[m].restart = alter[m].restart
    BY <2>1, Zenon DEF AlterSet
  <2> QED
    BY <1>a, <1>1, <2>2, Zenon
<1>10. /\ Ahead > MaxInt => "wrapped" \in upset'
       /\ alter[n].restart # restartValue => "retried" \in upset'
  BY Zenon DEF AlterUpdate, Ahead, Raw
<1>11. pc'[n] = "idle"
  BY <1>a, <1>1, Zenon
<1> QED
  BY <1>1, <1>3, <1>4, <1>6, <1>8, <1>9, <1>10, <1>11, Zenon

LEMMA AlterLimits ==
  ASSUME TypeOK, EntryInv, Bounded, Unwrapped', NEW n \in Nodes, AlterUpdate(n)
  PROVE  Bounded'
<1>1. /\ doc # None /\ pc[n] = "update" /\ pc'[n] = "idle" /\ UNCHANGED given
      /\ doc'.base = alter[n].restart /\ ~Live(n)' /\ (\A m \in Nodes : Kept(m))
      /\ \A m \in Nodes \ {n} : pc'[m] = pc[m] /\ alter'[m].restart = alter[m].restart
  BY AlterEffects, Zenon
<1>2. ~(Ahead > MaxInt)
  BY AlterEffects, Zenon DEF Unwrapped
<1>3. \A m \in Nodes : pc[m] = "update" => Start <= alter[m].restart
  BY <1>1, <1>2, Zenon DEF Bounded
<1>4. Start <= doc'.base
  BY <1>1, <1>3, Zenon
<1>5. \A m \in Nodes : pc'[m] = "update" => Start <= alter'[m].restart
  BY <1>1, <1>3, Zenon
<1>6. \A m \in Nodes : Live(m)' => Start <= seq'[m].current /\ seq'[m].increment > 0
  BY <1>1, Zenon DEF Bounded, Kept
<1>7. \A v \in given' : Start <= v /\ v <= Limit
  BY <1>1, Zenon DEF Bounded
<1> QED
  BY <1>4, <1>5, <1>6, <1>7, Zenon DEF Bounded

LEMMA AlterApart ==
  ASSUME TypeOK, EntryInv, Bounded, Apart, Sound', NEW n \in Nodes, AlterUpdate(n)
  PROVE  Apart' /\ \A m \in Nodes : last'[m] >= last[m]
<1>1. /\ doc # None /\ UNCHANGED <<given, twice, last>> /\ Ahead' = alter[n].restart
      /\ \A m \in Nodes : Kept(m)
  BY AlterEffects, Zenon
<1>2. ~(Ahead > MaxInt) /\ alter[n].restart = restartValue
  BY AlterEffects, Zenon DEF Sound
<1>3. Ahead \in Int /\ MaxInt \in Int
  BY <1>1, AheadType, SequenceAssumption DEF MaxInt
<1>4. restartValue = Ahead
  BY <1>1, <1>2, <1>3, RestartExact
<1>5. Forward
  BY <1>1, <1>2, <1>3, <1>4 DEF Forward
<1>6. \A m \in Nodes : Within(m)
  BY <1>1, KeptWithin, Zenon
<1> QED
  BY <1>1, <1>5, <1>6, Shrink, Zenon

----------------------------------------------------------------------------
(* The theorems.                                                           *)

LEMMA UpsetGrows ==
  ASSUME TypeOK, EntryInv, NEW n \in Nodes, Call(n) \/ Work(n) \/ Hear(n)
  PROVE  upset \subseteq upset'
<1>1. CASE Quiet(n)
  BY <1>1, QuietStill, Zenon DEF Still
<1>2. CASE NextCached(n)
  BY <1>2, Zenon DEF NextCached
<1>3. CASE TakeBlock(n)
  BY <1>3, Zenon DEF TakeBlock, Use, outVars
<1>4. CASE Reload(n)
  BY <1>4, Zenon DEF Reload, Use, outVars
<1>5. CASE AlterUpdate(n)
  BY <1>5, Zenon DEF AlterUpdate
<1> QED
  BY <1>1, <1>2, <1>3, <1>4, <1>5, Zenon DEF Work, Quiet

LEMMA LimitStep == EntriesInv /\ LimitInv /\ [Next]_vars => LimitInv'
<1> SUFFICES ASSUME TypeOK, EntryInv, LimitInv, [Next]_vars, Unwrapped' PROVE Bounded'
  BY Zenon DEF EntriesInv, LimitInv
<1>1. ASSUME NEW n \in Nodes, Call(n) \/ Work(n) \/ Hear(n) PROVE Bounded'
  <2>1. Bounded
    BY <1>1, UpsetGrows, Grows, Zenon DEF LimitInv
  <2>2. CASE Quiet(n)
    BY <2>1, <2>2, QuietStill, StillLimits, Zenon
  <2>3. CASE NextCached(n)
    BY <2>1, <2>3, NextLimits, Zenon
  <2>4. CASE TakeBlock(n)
    BY <2>1, <2>4, TakeLimits, Zenon
  <2>5. CASE Reload(n)
    BY <2>1, <2>5, ReloadLimits, Zenon
  <2>6. CASE AlterUpdate(n)
    BY <2>1, <2>6, AlterLimits, Zenon
  <2> QED
    BY <1>1, <2>2, <2>3, <2>4, <2>5, <2>6, Zenon DEF Work, Quiet
<1>2. CASE UNCHANGED vars
  <2>1. Bounded
    BY <1>2, Zenon DEF LimitInv, Unwrapped, vars, outVars
  <2> QED
    BY <1>2, <2>1, Zenon DEF Bounded, Ahead, Raw, Live, MaxInt, vars, docVars, callVars, seqVars, outVars
<1> QED
  BY <1>1, <1>2, Zenon DEF Next

\* Nothing is handed out twice, and the values of a node ascend.
LEMMA RangeStep ==
  EntriesInv /\ LimitInv /\ RangeInv /\ [Next]_vars =>
    RangeInv' /\ (Sound' => \A m \in Nodes : last'[m] >= last[m])
<1> SUFFICES ASSUME TypeOK, EntryInv, LimitInv, RangeInv, [Next]_vars, Sound'
             PROVE  Apart' /\ \A m \in Nodes : last'[m] >= last[m]
  BY Zenon DEF EntriesInv, RangeInv
<1>1. ASSUME NEW n \in Nodes, Call(n) \/ Work(n) \/ Hear(n)
      PROVE  Apart' /\ \A m \in Nodes : last'[m] >= last[m]
  <2>1. Bounded /\ Apart /\ Unwrapped'
    <3>1. Sound /\ Unwrapped
      BY <1>1, UpsetGrows, Grows, Zenon
    <3> QED
      BY <3>1, Zenon DEF LimitInv, RangeInv, Sound, Unwrapped
  <2>2. CASE Quiet(n)
    BY <2>1, <2>2, QuietStill, StillApart, Zenon
  <2>3. CASE NextCached(n)
    BY <2>1, <2>3, NextApart, Zenon
  <2>4. CASE TakeBlock(n)
    BY <2>1, <2>4, TakeApart, Zenon
  <2>5. CASE Reload(n)
    BY <2>1, <2>5, ReloadApart, Zenon
  <2>6. CASE AlterUpdate(n)
    BY <2>1, <2>6, AlterApart, Zenon
  <2> QED
    BY <1>1, <2>2, <2>3, <2>4, <2>5, <2>6, Zenon DEF Work, Quiet
<1>2. CASE UNCHANGED vars
  <2>1. Apart
    BY <1>2, Zenon DEF RangeInv, Sound, vars, outVars
  <2>2. Still
    BY <1>2, Zenon DEF Still, Kept, Live, Held, vars, docVars, callVars, seqVars, outVars
  <2> QED
    BY <2>1, <2>2, StillApart, Zenon
<1> QED
  BY <1>1, <1>2, Zenon DEF Next

LEMMA RangesInit == Init => LimitInv /\ RangeInv
<1> SUFFICES ASSUME Init PROVE Bounded /\ Apart
  BY Zenon DEF LimitInv, RangeInv
<1>1. PICK c \in Caches, i \in Increments :
        doc = [base |-> Start, cache |-> c, increment |-> i, block |-> 0, version |-> 0]
  BY Zenon DEF Init
<1>2. \A n \in Nodes : ~Live(n) /\ ~Held(n)
  BY DEF Init, Live, Held, NewEntry
<1>3. doc.base = Start /\ Start \in Int
  BY <1>1, SequenceAssumption DEF MaxInt
<1> QED
  BY <1>2, <1>3 DEF Init, Bounded, Apart, Has

ValuesInv == EntriesInv /\ LimitInv /\ RangeInv

LEMMA ValuesInvariance == Spec => []ValuesInv
<1>1. Init => ValuesInv
  BY EntriesInit, RangesInit, Zenon DEF ValuesInv
<1>2. ValuesInv /\ [Next]_vars => ValuesInv'
  BY EntriesStep, LimitStep, RangeStep, Zenon DEF ValuesInv
<1> QED
  BY <1>1, <1>2, PTL DEF Spec

\* No value is handed out twice, on whichever node, whatever the interleaving of
\* callers, blocks and ALTERs, up to the disturbances (nextAvailableBlock,
\* cacheBlock, restartValue).
THEOREM ValuesAreUnique == Spec => []UniqueValues
<1>1. ValuesInv => UniqueValues
  BY Zenon DEF ValuesInv, RangeInv, Apart, Sound, UniqueValues
<1> QED
  BY <1>1, ValuesInvariance, PTL

\* Every value lies between the start and the limit, up to the first block that
\* overflows (checkCycle, nextAvailableBlock), and the state has its types.
THEOREM ValuesAreWithinLimits == Spec => []WithinLimits
<1>1. ValuesInv => WithinLimits
  BY Zenon DEF ValuesInv, EntriesInv, LimitInv, Bounded, Unwrapped, WithinLimits
<1> QED
  BY <1>1, ValuesInvariance, PTL

\* On one node each value is above the one before, across blocks, reloads and
\* ALTERs (cacheBlock, sequence.load).
THEOREM ValuesAscend == Spec => NodeAscends
<1>1. ValuesInv /\ [Next]_vars =>
        [\A n \in Nodes : upset' \cap {"retried", "wrapped", "unloaded"} = {} => last'[n] >= last[n]]_vars
  BY RangeStep, Zenon DEF ValuesInv, Sound
<1> QED
  BY <1>1, ValuesInvariance, PTL DEF Spec, NodeAscends

=============================================================================
