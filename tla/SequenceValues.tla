---------------------------- MODULE SequenceValues ----------------------------
(***************************************************************************)
(* One named sequence, its document in the system collection, and the      *)
(* query nodes that hand out its values from blocks cached in memory       *)
(* (sequences/sequences.go).  The sequence counts up and does not cycle.   *)
(* On a node the cached entry's mutex admits one caller at a time; nodes   *)
(* meet only in the document, which the code reads and changes with a      *)
(* fetch, a sub-document update or an update checked by CAS, each one step *)
(* here.  Two first callers that each add an entry at the same moment, and *)
(* an entry evicted from a full cache, are left out.                       *)
(***************************************************************************)
EXTENDS Integers, FiniteSets

CONSTANTS
  Nodes,        \* query nodes
  Half,         \* half the number of integers (2^63 in the code)
  Start, Limit, \* START WITH and MAXVALUE
  Caches,       \* values of CACHE
  Increments,   \* values of INCREMENT BY
  MaxCalls,     \* bound on the calls made
  MaxAlters     \* bound on the versions of the document

MaxInt == Half - 1
MaxUint == 2 * Half - 1

ASSUME SequenceAssumption ==
  /\ Half \in Nat \ {0} /\ Start \in -MaxInt..MaxInt /\ Limit \in Start..MaxInt
  /\ Caches \subseteq Nat \ {0} /\ Increments \subseteq Nat \ {0}
  /\ \A c \in Caches, i \in Increments : c * i <= MaxInt
  /\ MaxCalls \in Nat /\ MaxAlters \in Nat

VARIABLES
  doc,      \* the document: base, cache, increment, block, version; or None
  seq,      \* each node's cached entry
  cached,   \* the entry is in the node's cache
  stale,    \* the entry's rev is not the node's cacheRevision
  news,     \* a change of the revision in metakv is on its way to the node
  waiting,  \* callers on the node that wait for the entry's mutex
  loaders,  \* those of them that want it in loadSequence
  calls,    \* calls so far
  pc,       \* where the holder of the mutex is
  alter,    \* AlterSequence: the new parameters, the restart value, CAS still good
  got,      \* nextAvailableBlock: getOnly, and what the last sub-document update returned
  given,    \* values handed out
  twice,    \* some value was handed out a second time
  last,     \* the value each node handed out last
  upset     \* the disturbances below that have occurred

docVars == <<doc, alter, news>>
callVars == <<waiting, loaders, calls, pc>>
seqVars == <<seq, cached, stale>>
outVars == <<given, twice, last, upset>>
vars == <<docVars, callVars, seqVars, outVars, got>>

Ints == -MaxInt - 1..MaxInt
None == [version |-> -1]
Docs == [base : Ints, cache : Caches, increment : Increments, block : Nat, version : Nat]

\* What the code has no defence against, recorded when it happens: a block that
\* follows an overflowed one, or an ALTER that restarts from one ("wrapped"); an
\* ALTER that writes the restart value of an earlier attempt although blocks were
\* taken since ("retried"); a caller that gets the mutex of a new entry before the
\* one that is to load it, and so takes no block ("unloaded"); a caller that returns
\* with the mutex of a dropped entry while others wait for it ("stuck").
Disturbances == {"wrapped", "retried", "unloaded", "stuck"}

TypeOK ==
  /\ doc \in Docs \cup {None}
  /\ seq \in [Nodes -> [base : Ints, cache : Caches \cup {0}, increment : Increments \cup {0}, version : Nat,
                        current : Ints, remaining : 0..MaxUint, accessed : BOOLEAN]]
  /\ \A n \in Nodes : seq[n].cache > 0 => seq[n].remaining < seq[n].cache
  /\ \A f \in {cached, stale, news} : f \in [Nodes -> BOOLEAN]
  /\ \A f \in {waiting, loaders} : f \in [Nodes -> Nat]
  /\ calls \in 0..MaxCalls
  /\ pc \in [Nodes -> {"idle", "locked", "block", "load", "update", "stuck"}]
  /\ alter \in [Nodes -> [cache : Caches \cup {0}, increment : Increments \cup {0}, restart : Ints, good : BOOLEAN]]
  /\ got \in [Nodes -> [block : Nat, version : Nat, getOnly : BOOLEAN]]
  /\ given \subseteq Ints /\ twice \in BOOLEAN
  /\ last \in [Nodes -> Ints]
  /\ upset \subseteq Disturbances

\* A new entry.  Its parameters are unknown.
NewEntry ==
  [base |-> 0, cache |-> 0, increment |-> 0, version |-> 0, current |-> 0, remaining |-> 0, accessed |-> FALSE]

\* Local variables of nextAvailableBlock and of AlterSequence that are not in use.
NoBlock == [block |-> 0, version |-> 0, getOnly |-> FALSE]
NoAlter == [cache |-> 0, increment |-> 0, restart |-> 0, good |-> FALSE]

\* The sequence has been created; no node has it in its cache.
Init ==
  \E c \in Caches, i \in Increments :
    /\ doc = [base |-> Start, cache |-> c, increment |-> i, block |-> 0, version |-> 0]
    /\ seq = [n \in Nodes |-> NewEntry]
    /\ cached = [n \in Nodes |-> FALSE] /\ stale = [n \in Nodes |-> FALSE]
    /\ news = [n \in Nodes |-> FALSE]
    /\ waiting = [n \in Nodes |-> 0] /\ loaders = [n \in Nodes |-> 0] /\ calls = 0
    /\ pc = [n \in Nodes |-> "idle"]
    /\ alter = [n \in Nodes |-> NoAlter]
    /\ got = [n \in Nodes |-> NoBlock]
    /\ given = {} /\ twice = FALSE /\ last = [n \in Nodes |-> -MaxInt - 1]
    /\ upset = {}

-----------------------------------------------------------------------------
(***************************************************************************)
(* Arithmetic, and the document.                                           *)
(***************************************************************************)

\* Two's complement: what an integer wraps to.
Int64(x) == ((x + Half) % (2 * Half)) - Half

\* The first value of a block.
First(block, s) == Int64(block * s.cache * s.increment + s.base)

\* A restartValue that forgets the last block taken.
BugRestartValue == First(doc.block - 1, doc)

\* restartValue: the first value of the next block.
restartValue == First(doc.block, doc)

\* Any change of the document spoils the CAS of those who have fetched it.
Touch == alter' = [n \in Nodes |-> [alter[n] EXCEPT !.good = FALSE]]

\* sequence.load: the document's parameters, and no values left.
load(s) ==
  [s EXCEPT !.base = doc.base, !.cache = doc.cache, !.increment = doc.increment,
            !.version = doc.version, !.remaining = 0]

\* nextRevision: this node's entry is of the new revision, the others will hear.
nextRevision(n) ==
  /\ stale' = [stale EXCEPT ![n] = FALSE]
  /\ news' = [m \in Nodes |-> m # n \/ news[m]]

-----------------------------------------------------------------------------
(***************************************************************************)
(* getLockedSequence.                                                      *)
(***************************************************************************)

\* A call finds the entry in the cache and queues for its mutex, or adds an entry
\* and queues for its mutex to load it.  The zero rev of the new entry may be the
\* node's revision.
Call(n) ==
  /\ calls < MaxCalls /\ calls' = calls + 1
  /\ \/ /\ cached[n] /\ waiting' = [waiting EXCEPT ![n] = @ + 1]
        /\ UNCHANGED <<seqVars, loaders>>
     \/ /\ ~cached[n] /\ doc # None
        /\ seq' = [seq EXCEPT ![n] = NewEntry]
        /\ cached' = [cached EXCEPT ![n] = TRUE]
        /\ \E b \in BOOLEAN : stale' = [stale EXCEPT ![n] = b]
        /\ loaders' = [loaders EXCEPT ![n] = @ + 1]
        /\ UNCHANGED waiting
  /\ UNCHANGED <<docVars, pc, got, outVars>>

\* loadSequence gets the mutex: the caller goes back to the queue, or finds that the
\* sequence is gone.
Load(n) ==
  /\ pc[n] = "idle" /\ loaders[n] > 0
  /\ loaders' = [loaders EXCEPT ![n] = @ - 1]
  /\ \/ /\ doc # None
        /\ seq' = [seq EXCEPT ![n] = load(@)]
        /\ stale' = [stale EXCEPT ![n] = FALSE]
        /\ waiting' = [waiting EXCEPT ![n] = @ + 1]
        /\ UNCHANGED cached
     \/ /\ doc = None
        /\ cached' = [cached EXCEPT ![n] = FALSE]
        /\ UNCHANGED <<seq, stale, waiting>>
  /\ UNCHANGED <<docVars, calls, pc, got, outVars>>

\* The next caller gets the mutex.  If the entry was dropped meanwhile it returns
\* with an error and without unlocking.
Lock(n) ==
  /\ pc[n] = "idle" /\ waiting[n] > 0
  /\ waiting' = [waiting EXCEPT ![n] = @ - 1]
  /\ \/ /\ cached[n] /\ pc' = [pc EXCEPT ![n] = "locked"]
        /\ UNCHANGED upset
     \/ /\ ~cached[n] /\ pc' = [pc EXCEPT ![n] = "stuck"]
        /\ upset' = IF waiting[n] + loaders[n] > 1 THEN upset \cup {"stuck"} ELSE upset
  /\ UNCHANGED <<docVars, loaders, calls, seqVars, got, given, twice, last>>

Unlock(n) == pc' = [pc EXCEPT ![n] = "idle"]

\* The entry may be out of date: validateVersion, whose sub-document update leaves
\* the document as it was but with a new CAS.
Validate(n) ==
  /\ pc[n] = "locked" /\ stale[n] /\ doc # None /\ doc.version = seq[n].version
  /\ stale' = [stale EXCEPT ![n] = FALSE]
  /\ Touch
  /\ UNCHANGED <<doc, news, callVars, seq, cached, got, outVars>>

\* ... the version has changed, or the document is gone: unlock and loadSequence.
Refresh(n) ==
  /\ pc[n] = "locked" /\ stale[n]
  /\ \/ doc = None /\ UNCHANGED alter
     \/ doc # None /\ doc.version # seq[n].version /\ Touch
  /\ loaders' = [loaders EXCEPT ![n] = @ + 1]
  /\ Unlock(n)
  /\ UNCHANGED <<doc, news, waiting, calls, seqVars, got, outVars>>

\* getLockedSequence returns; the caller may be any of the operations below.
Ready(n) == pc[n] = "locked" /\ ~stale[n]

\* A NotFound that returns without unlocking.
BugNotFound(n) ==
  /\ doc = None
  /\ pc[n] \in {"block", "load", "update"}
  /\ UNCHANGED vars

\* A caller that has the mutex and finds the document gone: not found.
NotFound(n) ==
  /\ doc = None
  /\ pc[n] \in {"block", "load", "update"} \/ Ready(n)
  /\ Unlock(n)
  /\ UNCHANGED <<docVars, waiting, loaders, calls, seqVars, got, outVars>>

-----------------------------------------------------------------------------
(***************************************************************************)
(* NEXT VALUE FOR and PREV VALUE FOR.                                      *)
(***************************************************************************)

\* The caller on node n gets value v.
Give(n, v) ==
  /\ given' = given \cup {v}
  /\ twice' = (twice \/ v \in given)
  /\ last' = [last EXCEPT ![n] = v]

\* A checkCycle that looks at the limit only.
BugCheckCycle(prev, current) == current > Limit

\* checkCycle for a sequence that does not cycle: beyond the limit, or overflowed.
checkCycle(prev, current) == current > Limit \/ prev > current

\* NextSequenceValue from the values at hand.
NextCached(n) ==
  /\ Ready(n) /\ seq[n].remaining > 0
  /\ LET prev == seq[n].current
         current == Int64(prev + seq[n].increment)
     IN \/ /\ checkCycle(prev, current)
           /\ seq' = [seq EXCEPT ![n].accessed = TRUE, ![n].remaining = @ - 1]
           /\ UNCHANGED <<given, twice, last>>
        \/ /\ ~checkCycle(prev, current)
           /\ seq' = [seq EXCEPT ![n].accessed = TRUE, ![n].remaining = @ - 1, ![n].current = current]
           /\ Give(n, current)
  /\ Unlock(n)
  /\ UNCHANGED <<docVars, waiting, loaders, calls, cached, stale, got, upset>>

\* PrevSequenceValue before the node's first value, or with values left.
PrevCached(n) ==
  /\ Ready(n) /\ (~seq[n].accessed \/ seq[n].remaining > 0)
  /\ Unlock(n)
  /\ UNCHANGED <<docVars, waiting, loaders, calls, seqVars, got, outVars>>

\* Either of them with no values left: cacheBlock, also for a PREV of an accessed
\* entry.  With an entry that is not loaded, whose cache is zero, no block will be
\* taken.
NeedBlock(n) ==
  /\ Ready(n) /\ seq[n].remaining = 0
  /\ seq' = [seq EXCEPT ![n].accessed = TRUE]
  /\ pc' = [pc EXCEPT ![n] = "block"]
  /\ got' = [got EXCEPT ![n].getOnly = seq[n].cache = 0]
  /\ UNCHANGED <<docVars, waiting, loaders, calls, cached, stale, outVars>>

\* nextAvailableBlock: a block that starts below the one before has overflowed.
Overflow(prev, rv) == prev > rv

\* The disturbances that using this block amounts to.
Noted(block, s, getOnly) ==
  (IF getOnly THEN {"unloaded"} ELSE {})
    \cup (IF (block - 1) * s.cache * s.increment + s.base > MaxInt THEN {"wrapped"} ELSE {})

\* The rest of nextAvailableBlock, cacheBlock and checkCycle, with the entry s of
\* the block's version.  What is left of a cache of zero wraps, a uint64.
Use(n, block, s) ==
  LET rv == First(block, s)
      full == [s EXCEPT !.current = rv, !.remaining = (s.cache - 1) % (2 * Half)]
      overflow == ~got[n].getOnly /\ Overflow(First(block - 1, s), rv)
      beyond == s.increment > 0 /\ rv > Limit
  IN /\ seq' = [seq EXCEPT ![n] = IF overflow THEN s ELSE full]
     /\ \/ (overflow \/ beyond) /\ UNCHANGED outVars
        \/ /\ ~overflow /\ ~beyond
           /\ Give(n, rv)
           /\ upset' = upset \cup Noted(block, s, got[n].getOnly)
     /\ Unlock(n)

\* A nextAvailableBlock that does not compare the versions.
BugSameVersion(version, s) == TRUE

\* The block is of the version whose parameters the entry holds.
SameVersion(version, s) == version = s.version

\* nextAvailableBlock: one sub-document update reads the version and takes a block.
TakeBlock(n) ==
  /\ pc[n] = "block" /\ doc # None
  /\ doc' = [doc EXCEPT !.block = IF got[n].getOnly THEN @ ELSE @ + 1]
  /\ Touch
  /\ \/ /\ SameVersion(doc.version, seq[n]) /\ Use(n, doc.block, seq[n])
        /\ got' = [got EXCEPT ![n] = NoBlock]
     \/ /\ ~SameVersion(doc.version, seq[n])
        /\ got' = [got EXCEPT ![n].block = doc.block, ![n].version = doc.version]
        /\ pc' = [pc EXCEPT ![n] = "load"]
        /\ UNCHANGED <<seq, outVars>>
  /\ UNCHANGED <<news, waiting, loaders, calls, cached, stale>>

\* ... the entry is of another version: load it.  The block is lost if the document
\* has changed again.
Reload(n) ==
  /\ pc[n] = "load" /\ doc # None
  /\ stale' = [stale EXCEPT ![n] = FALSE]
  /\ \/ /\ SameVersion(got[n].version, doc) /\ Use(n, got[n].block, load(seq[n]))
        /\ got' = [got EXCEPT ![n] = NoBlock]
     \/ /\ ~SameVersion(got[n].version, doc)
        /\ seq' = [seq EXCEPT ![n] = load(@)]
        /\ pc' = [pc EXCEPT ![n] = "block"]
        /\ UNCHANGED <<got, outVars>>
  /\ UNCHANGED <<docVars, waiting, loaders, calls, cached>>

-----------------------------------------------------------------------------
(***************************************************************************)
(* ALTER SEQUENCE and DROP SEQUENCE.                                       *)
(***************************************************************************)

\* AlterSequence with a new CACHE or INCREMENT BY: nothing to alter, or the fetch of
\* the document and the value to restart from.
Alter(n) ==
  /\ Ready(n)
  /\ \E c \in Caches, i \in Increments :
       \/ /\ c = seq[n].cache /\ i = seq[n].increment
          /\ Unlock(n)
          /\ UNCHANGED alter
       \/ /\ c # seq[n].cache \/ i # seq[n].increment
          /\ doc # None /\ doc.version + Cardinality({m \in Nodes : pc[m] = "update"}) < MaxAlters
          /\ pc' = [pc EXCEPT ![n] = "update"]
          /\ alter' = [alter EXCEPT ![n] = [cache |-> c, increment |-> i, restart |-> restartValue, good |-> TRUE]]
  /\ UNCHANGED <<doc, news, waiting, loaders, calls, seqVars, got, outVars>>

\* The update fails its CAS check: the document is fetched again.  The value to
\* restart from is not computed again.
AlterRetry(n) ==
  /\ pc[n] = "update" /\ doc # None /\ ~alter[n].good
  /\ alter' = [alter EXCEPT ![n].good = TRUE]
  /\ UNCHANGED <<doc, news, callVars, seqVars, got, outVars>>

\* The parameters an ALTER leaves alone stay as the document has them.
Altered(old, n) ==
  [doc EXCEPT !.base = alter[n].restart, !.block = 0, !.version = @ + 1,
              !.cache = IF alter[n].cache = old.cache THEN @ ELSE alter[n].cache,
              !.increment = IF alter[n].increment = old.increment THEN @ ELSE alter[n].increment]

\* The update goes through; the node's own entry follows, but for its version.
AlterUpdate(n) ==
  /\ pc[n] = "update" /\ doc # None /\ alter[n].good
  /\ doc' = Altered(seq[n], n)
  /\ alter' = [m \in Nodes |-> IF m = n THEN NoAlter ELSE [alter[m] EXCEPT !.good = FALSE]]
  /\ seq' = [seq EXCEPT ![n].base = alter[n].restart, ![n].current = 0, ![n].remaining = 0,
                        ![n].cache = alter[n].cache, ![n].increment = alter[n].increment]
  /\ upset' = upset \cup (IF alter[n].restart = restartValue THEN {} ELSE {"retried"})
                     \cup (IF doc.block * doc.cache * doc.increment + doc.base > MaxInt THEN {"wrapped"} ELSE {})
  /\ nextRevision(n)
  /\ Unlock(n)
  /\ UNCHANGED <<waiting, loaders, calls, cached, got, given, twice, last>>

\* DropSequence: the document and the node's entry are deleted, in this order.
Drop(n) ==
  /\ Ready(n)
  /\ doc' = None
  /\ Touch
  /\ cached' = [cached EXCEPT ![n] = FALSE]
  /\ nextRevision(n)
  /\ Unlock(n)
  /\ UNCHANGED <<waiting, loaders, calls, seq, got, outVars>>

\* sequenceChangeMonitor: metakv reports the latest change of the revision.
Hear(n) ==
  /\ news[n]
  /\ news' = [news EXCEPT ![n] = FALSE]
  /\ stale' = [stale EXCEPT ![n] = TRUE]
  /\ UNCHANGED <<doc, alter, callVars, seq, cached, got, outVars>>

-----------------------------------------------------------------------------
\* What the goroutine that holds the mutex of node n, or is to get it, does.
Work(n) ==
  \/ Load(n) \/ Lock(n) \/ Validate(n) \/ Refresh(n) \/ NotFound(n)
  \/ NextCached(n) \/ PrevCached(n) \/ NeedBlock(n) \/ TakeBlock(n) \/ Reload(n)
  \/ Alter(n) \/ AlterRetry(n) \/ AlterUpdate(n) \/ Drop(n)

Next == \E n \in Nodes : Call(n) \/ Work(n) \/ Hear(n)

Spec == Init /\ [][Next]_vars

\* Callers that can run do run; metakv may never report.
FairSpec == Spec /\ \A n \in Nodes : WF_vars(Work(n))

-----------------------------------------------------------------------------
(***************************************************************************)
(* Properties.                                                             *)
(***************************************************************************)

\* No value is handed out twice, on whichever node, while the sequence is altered
\* and blocks are taken (nextAvailableBlock, restartValue).  Not so after an ALTER
\* that retried with an old restart value, after an overflow, or when a new entry is
\* used before it is loaded.
UniqueValues == upset \cap {"retried", "wrapped", "unloaded"} = {} => ~twice

\* Values lie between the start and the limit: no overflowed block or value is
\* handed out up to the first block that overflows (checkCycle, nextAvailableBlock),
\* by entries that are loaded; and the state has its types.
WithinLimits ==
  /\ TypeOK
  /\ upset \cap {"wrapped", "unloaded"} = {} => \A v \in given : Start <= v /\ v <= Limit

\* On one node each value is above the one before, across blocks, reloads and
\* alterations (cacheBlock, load).
NodeAscends ==
  [][\A n \in Nodes : upset' \cap {"retried", "wrapped", "unloaded"} = {} => last'[n] >= last[n]]_vars

\* Every caller returns, unless it waits for the mutex of an entry that a caller
\* before it found dropped (getLockedSequence).
CallersReturn == []<>("stuck" \in upset \/ \A n \in Nodes : waiting[n] + loaders[n] = 0 /\ pc[n] \in {"idle", "stuck"})
=============================================================================
