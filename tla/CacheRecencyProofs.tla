------------------------- MODULE CacheRecencyProofs -------------------------
(***************************************************************************)
(* How the cache replaces blocks, for every device, cache size, set of     *)
(* blocks and number of transfers.                                         *)
(*                                                                         *)
(* CheckDeleteOldest finds a block whenever the cache is full and not      *)
(* empty (OldestExists: two least elements, one among the times and one    *)
(* among the numbers), and can drop it if it is on the device.  That keeps *)
(* the size.  As for the order, lastaccessed can only tell whether a block *)
(* was touched since time last moved (Ages), which is all that             *)
(* KeepsFreshBlocks promises.                                              *)
(***************************************************************************)
EXTENDS CacheRecency, BufferCacheProofs, WellFoundedInduction

\* An entry touched since the last transfer has the present time, and any
\* other an earlier one.
Ages ==
    \A b \in Cached :
        /\ blockmap[b].lastaccessed <= curtime
        /\ b \in fresh <=> blockmap[b].lastaccessed = curtime

-----------------------------------------------------------------------------
\* The history variables change nothing.
LEMMA StepOfCache == [HNext]_hvars => [Next]_vars
BY DEF HNext, hvars, vars

LEMMA RecencyKeepsIInv == HSpec => []IInv
<1>1. HInit => Init
  BY DEF HInit
<1>2. HSpec => Spec
  BY <1>1, StepOfCache, PTL DEF HSpec, Spec
<1> QED
  BY <1>2, TypeCorrect, CleanEntriesSafe, PTL DEF IInv

-----------------------------------------------------------------------------
(* The block that CheckDeleteOldest finds. *)

LEMMA LeastElement ==
    ASSUME NEW T, T \subseteq Nat, T # {}
    PROVE  \E x \in T : \A y \in T : x <= y
<1>1. PICK x \in T : \A y \in T : ~ (<<y, x>> \in OpToRel(<, Nat))
  BY NatLessThanWellFounded, WFMin
<1>2. ASSUME NEW y \in T
      PROVE  x <= y
  <2>1. x \in Nat /\ y \in Nat
    OBVIOUS
  <2>2. ~ (y < x)
    BY <1>1, <2>1 DEF OpToRel
  <2> QED
    BY <2>1, <2>2
<1> QED
  BY <1>2

LEMMA OldestExists ==
    ASSUME TypeOK, Cached # {}
    PROVE  \E v \in Cached : IsOldest(v)
<1> DEFINE Times == {blockmap[b].lastaccessed : b \in Cached}
<1>1. \A b \in Cached : b \in Nat /\ blockmap[b].lastaccessed \in Nat
  BY CacheAssumption, FrameOfCached
<1>2. PICK t \in Times : \A s \in Times : t <= s
  <2>1. Times \subseteq Nat /\ Times # {}
    BY <1>1
  <2> HIDE DEF Times
  <2> QED
    BY <2>1, LeastElement
<1> DEFINE Earliest == {b \in Cached : blockmap[b].lastaccessed = t}
<1>3. PICK v \in Earliest : \A b \in Earliest : v <= b
  <2>1. Earliest \subseteq Nat /\ Earliest # {}
    BY <1>1
  <2> HIDE DEF Earliest
  <2> QED
    BY <2>1, LeastElement
<1>4. ASSUME NEW b \in Cached \ {v}
      PROVE  \/ blockmap[v].lastaccessed < blockmap[b].lastaccessed
             \/ blockmap[v].lastaccessed = blockmap[b].lastaccessed /\ v < b
  <2>1. blockmap[v].lastaccessed = t /\ v \in Nat /\ t \in Nat
    BY <1>1
  <2>2. b \in Nat /\ b # v /\ blockmap[b].lastaccessed \in Nat /\ t <= blockmap[b].lastaccessed
    BY <1>1, <1>2
  <2>3. CASE blockmap[b].lastaccessed = t
    <3>1. v <= b
      BY <1>3, <2>3
    <3> QED
      BY <2>1, <2>2, <2>3, <3>1
  <2>4. CASE blockmap[b].lastaccessed # t
    BY <2>1, <2>2, <2>4
  <2> QED
    BY <2>3, <2>4
<1> QED
  BY <1>4 DEF IsOldest

\* There is at most one.
LEMMA OldestIsUnique ==
    ASSUME TypeOK, NEW v \in Cached, NEW w \in Cached, IsOldest(v), IsOldest(w)
    PROVE  v = w
<1> SUFFICES ASSUME v # w
             PROVE  FALSE
  OBVIOUS
<1>1. /\ v \in Nat /\ blockmap[v].lastaccessed \in Nat
      /\ w \in Nat /\ blockmap[w].lastaccessed \in Nat
  BY CacheAssumption, FrameOfCached
<1>2. \/ blockmap[v].lastaccessed < blockmap[w].lastaccessed
      \/ blockmap[v].lastaccessed = blockmap[w].lastaccessed /\ v < w
  BY DEF IsOldest
<1>3. \/ blockmap[w].lastaccessed < blockmap[v].lastaccessed
      \/ blockmap[w].lastaccessed = blockmap[v].lastaccessed /\ w < v
  BY DEF IsOldest
<1> QED
  BY <1>1, <1>2, <1>3

-----------------------------------------------------------------------------
(* What the calls do with the entries and the time. *)

\* A miss drops what CheckDeleteOldest finds and enters at most its block.
LEMMA MissStep ==
    ASSUME TypeOK, NEW b \in Blocks,
           ReadMiss(b) \/ \E v \in Values : WriteMiss(b, v)
    PROVE  /\ b \notin Cached
           /\ Cached \ Evicted \subseteq Cached'
           /\ Cached' \subseteq (Cached \ Evicted) \cup {b}
           /\ \A c \in Cached' \ {b} : blockmap'[c] = blockmap[c]
           /\ b \in Cached' => blockmap'[b].lastaccessed = curtime'
           /\ curtime' \in Nat /\ curtime <= curtime'
           /\ cachesize' = cachesize
           /\ reply'.op \in {"Read", "Write"} /\ reply'.block = b
<1>1. /\ TimeEvicted \in Nat /\ curtime <= TimeEvicted
      /\ curtime \in Nat /\ blockmap \in [Blocks -> Frame \cup {NotCached}]
  BY DEF TypeOK, TimeEvicted
<1>2. CASE ReadMiss(b)
  <2>1. /\ b \notin Cached /\ cachesize' = cachesize
        /\ blockmap' = Entered(b, FrameRead(b, curtime'))
        /\ curtime' = TimeEvicted \/ curtime' = TimeEvicted + 1
    BY <1>2 DEF ReadMiss
  <2>2. reply'.op = "Read" /\ reply'.block = b
    BY <1>2 DEF ReadMiss, Answer
  <2>3. blockmap'[b] = FrameRead(b, curtime')
        /\ \A c \in Blocks \ {b} :
              blockmap'[c] = IF c \in Evicted THEN NotCached ELSE blockmap[c]
    BY <2>1 DEF Entered
  <2>4. FrameRead(b, curtime') # NotCached => FrameRead(b, curtime').lastaccessed = curtime'
    BY DEF FrameRead
  <2>5. curtime' \in Nat /\ curtime <= curtime'
    BY <1>1, <2>1
  <2> QED
    BY <2>1, <2>2, <2>3, <2>4, <2>5 DEF Cached
<1>3. ASSUME NEW v \in Values, WriteMiss(b, v)
      PROVE  /\ b \notin Cached
             /\ Cached \ Evicted \subseteq Cached'
             /\ Cached' \subseteq (Cached \ Evicted) \cup {b}
             /\ \A c \in Cached' \ {b} : blockmap'[c] = blockmap[c]
             /\ b \in Cached' => blockmap'[b].lastaccessed = curtime'
             /\ curtime' \in Nat /\ curtime <= curtime'
             /\ cachesize' = cachesize
             /\ reply'.op \in {"Read", "Write"} /\ reply'.block = b
  <2>1. /\ b \notin Cached /\ cachesize' = cachesize
        /\ blockmap' = Entered(b, FrameWritten(v, TimeEvicted))
        /\ curtime' = TimeEvicted
    BY <1>3 DEF WriteMiss
  <2>2. reply'.op = "Write" /\ reply'.block = b
    BY <1>3 DEF WriteMiss, Answer
  <2>3. blockmap'[b] = FrameWritten(v, TimeEvicted)
        /\ \A c \in Blocks \ {b} :
              blockmap'[c] = IF c \in Evicted THEN NotCached ELSE blockmap[c]
    BY <2>1 DEF Entered
  <2>4. FrameWritten(v, TimeEvicted).lastaccessed = curtime'
    BY <2>1 DEF FrameWritten
  <2> QED
    BY <1>1, <2>1, <2>2, <2>3, <2>4 DEF Cached
<1> QED
  BY <1>2, <1>3

\* A hit notes the time and drops nothing.
LEMMA HitStep ==
    ASSUME TypeOK, NEW b \in Blocks,
           ReadHit(b) \/ \E v \in Values : WriteHit(b, v)
    PROVE  /\ Cached' = Cached /\ b \in Cached
           /\ \A c \in Cached \ {b} : blockmap'[c] = blockmap[c]
           /\ blockmap'[b].lastaccessed = curtime
           /\ curtime' = curtime /\ cachesize' = cachesize
           /\ reply'.op \in {"Read", "Write"} /\ reply'.block = b
<1>1. CASE ReadHit(b)
  <2>1. /\ b \in Cached /\ blockmap' = Touched(b) /\ curtime' = curtime /\ cachesize' = cachesize
    BY <1>1 DEF ReadHit
  <2>2. reply'.op = "Read" /\ reply'.block = b
    BY <1>1 DEF ReadHit, Answer
  <2>3. blockmap[b] \in Frame
    BY <2>1, FrameOfCached
  <2>4. [blockmap[b] EXCEPT !.lastaccessed = curtime] \in Frame
        /\ [blockmap[b] EXCEPT !.lastaccessed = curtime].lastaccessed = curtime
    BY <2>3 DEF Frame, TypeOK
  <2>5. /\ blockmap'[b] = [blockmap[b] EXCEPT !.lastaccessed = curtime]
        /\ \A c \in Blocks \ {b} : blockmap'[c] = blockmap[c]
    BY <2>1 DEF Touched, TypeOK
  <2>6. blockmap'[b] # NotCached
    BY <2>4, <2>5, FrameAssumption
  <2> QED
    BY <2>1, <2>2, <2>4, <2>5, <2>6 DEF Cached
<1>2. ASSUME NEW v \in Values, WriteHit(b, v)
      PROVE  /\ Cached' = Cached /\ b \in Cached
             /\ \A c \in Cached \ {b} : blockmap'[c] = blockmap[c]
             /\ blockmap'[b].lastaccessed = curtime
             /\ curtime' = curtime /\ cachesize' = cachesize
             /\ reply'.op \in {"Read", "Write"} /\ reply'.block = b
  <2>1. /\ b \in Cached /\ blockmap' = [blockmap EXCEPT ![b] = FrameWritten(v, curtime)]
        /\ curtime' = curtime /\ cachesize' = cachesize
    BY <1>2 DEF WriteHit
  <2>2. reply'.op = "Write" /\ reply'.block = b
    BY <1>2 DEF WriteHit, Answer
  <2>3. FrameWritten(v, curtime) \in Frame /\ FrameWritten(v, curtime).lastaccessed = curtime
    BY DEF FrameWritten, Frame, TypeOK
  <2>4. /\ blockmap'[b] = FrameWritten(v, curtime)
        /\ \A c \in Blocks \ {b} : blockmap'[c] = blockmap[c]
    BY <2>1 DEF TypeOK
  <2>5. blockmap'[b] # NotCached
    BY <2>3, <2>4, FrameAssumption
  <2> QED
    BY <2>1, <2>2, <2>3, <2>4, <2>5 DEF Cached
<1> QED
  BY <1>1, <1>2

\* The other calls touch no entry; constructor and destructor leave none.
LEMMA OtherStep ==
    ASSUME IInv,
           \/ \E cs \in CacheSizes : Open(cs)
           \/ \E b \in Blocks : FlushBlock(b)
           \/ Detach \/ Close \/ Kill
    PROVE  /\ reply'.op \notin {"Read", "Write"}
           /\ \/ Cached' = {}
              \/ /\ Cached' \subseteq Cached
                 /\ Cached' = Cached \/ \E b \in Device : Cached' = Cached \ {b}
                 /\ \A c \in Cached' : blockmap'[c] = blockmap[c]
                 /\ curtime' \in Nat /\ curtime <= curtime'
                 /\ cachesize' = cachesize
<1> USE DEF IInv
<1>1. ASSUME NEW cs \in CacheSizes, Open(cs)
      PROVE  reply'.op \notin {"Read", "Write"} /\ Cached' = {}
  BY <1>1 DEF Open, Answer, Cached, NothingCached
<1>2. CASE Close \/ Kill
  <2>1. reply'.op \notin {"Read", "Write"} /\ Cached' = {}
    BY <1>2 DEF Close, Kill, NoProcess, Answer, Cached, NothingCached
  <2> QED
    BY <2>1
<1>3. CASE Detach
  <2>1. reply'.op \notin {"Read", "Write"}
    BY <1>3 DEF Detach, Answer
  <2>2. blockmap' = NothingCached \/ blockmap' = blockmap
    BY <1>3 DEF Detach
  <2>3. curtime' \in Nat /\ curtime <= curtime' /\ cachesize' = cachesize
    <3>1. curtime' = curtime + Cardinality(Detachable) /\ curtime \in Nat
      BY <1>3 DEF Detach, TypeOK
    <3> QED
      BY <1>3, <3>1, DetachableOnDevice DEF Detach
  <2> QED
    BY <2>1, <2>2, <2>3 DEF Cached, NothingCached
<1>4. ASSUME NEW b \in Blocks, FlushBlock(b)
      PROVE  /\ reply'.op \notin {"Read", "Write"}
             /\ Cached' \subseteq Cached
             /\ Cached' = Cached \/ \E d \in Device : Cached' = Cached \ {d}
             /\ \A c \in Cached' : blockmap'[c] = blockmap[c]
             /\ curtime' \in Nat /\ curtime <= curtime'
             /\ cachesize' = cachesize
  <2>1. reply'.op \notin {"Read", "Write"} /\ cachesize' = cachesize
    BY <1>4 DEF FlushBlock, Answer
  <2>2. curtime \in Nat /\ (curtime' = curtime \/ curtime' = curtime + 1)
    BY <1>4 DEF FlushBlock, TypeOK
  <2>3. \/ blockmap' = blockmap
        \/ blockmap' = [blockmap EXCEPT ![b] = NotCached] /\ (b \in Dirty => b \in Device)
    BY <1>4 DEF FlushBlock
  <2>4. CASE blockmap' = blockmap
    BY <2>1, <2>2, <2>4 DEF Cached
  <2>5. CASE blockmap' = [blockmap EXCEPT ![b] = NotCached] /\ (b \in Dirty => b \in Device)
    <3>1. blockmap'[b] = NotCached /\ \A c \in Blocks \ {b} : blockmap'[c] = blockmap[c]
      BY <2>5 DEF TypeOK
    <3>2. Cached' = Cached \ {b} /\ \A c \in Cached' : blockmap'[c] = blockmap[c]
      BY <3>1 DEF Cached
    <3>3. b \in Cached => b \in Device
      BY <2>5 DEF CleanEntriesMatchDevice
    <3>4. Cached' = Cached \/ b \in Device
      BY <3>2, <3>3
    <3> QED
      BY <2>1, <2>2, <3>2, <3>4
  <2> QED
    BY <2>3, <2>4, <2>5
<1> QED
  BY <1>1, <1>2, <1>3, <1>4

-----------------------------------------------------------------------------
\* The ages survive a step that lets no time pass backwards and gives the
\* present time to the block accessed.
LEMMA AgesAfter ==
    ASSUME TypeOK, Ages, Recorded, curtime' \in Nat, curtime <= curtime',
           \A c \in Cached' :
               IF c \in Accessed
               THEN blockmap'[c].lastaccessed = curtime'
               ELSE c \in Cached /\ blockmap'[c].lastaccessed = blockmap[c].lastaccessed
    PROVE  Ages'
<1> SUFFICES ASSUME NEW c \in Cached'
             PROVE  /\ blockmap'[c].lastaccessed <= curtime'
                    /\ c \in fresh' <=> blockmap'[c].lastaccessed = curtime'
  BY DEF Ages
<1>1. curtime \in Nat
  BY DEF TypeOK
<1>2. c \in fresh' <=> c \in Accessed \/ (curtime' = curtime /\ c \in fresh)
  BY DEF Recorded
<1>3. CASE c \in Accessed
  BY <1>2, <1>3
<1>4. CASE c \notin Accessed
  <2>1. c \in Cached /\ blockmap'[c].lastaccessed = blockmap[c].lastaccessed
    BY <1>4
  <2>2. /\ blockmap[c].lastaccessed \in Nat
        /\ blockmap[c].lastaccessed <= curtime
        /\ c \in fresh <=> blockmap[c].lastaccessed = curtime
    BY <2>1, FrameOfCached DEF Ages
  <2>3. CASE curtime' = curtime
    BY <1>1, <1>2, <1>4, <2>1, <2>2, <2>3
  <2>4. CASE curtime < curtime'
    <3>1. blockmap'[c].lastaccessed < curtime'
      BY <1>1, <2>1, <2>2, <2>4
    <3>2. blockmap'[c].lastaccessed <= curtime' /\ blockmap'[c].lastaccessed # curtime'
      BY <1>1, <2>1, <2>2, <3>1
    <3>3. curtime' # curtime
      BY <1>1, <2>4
    <3> QED
      BY <1>2, <1>4, <3>2, <3>3
  <2> QED
    BY <1>1, <2>3, <2>4
<1> QED
  BY <1>3, <1>4

LEMMA AgesStep ==
    ASSUME IInv, Ages, [HNext]_hvars
    PROVE  Ages'
<1> USE DEF IInv
<1>1. CASE UNCHANGED hvars
  BY <1>1 DEF hvars, vars, Ages, Cached
<1> SUFFICES ASSUME Next, Recorded
             PROVE  Ages'
  BY <1>1 DEF HNext
<1>2. ASSUME NEW b \in Blocks, ReadMiss(b) \/ \E v \in Values : WriteMiss(b, v)
      PROVE  Ages'
  <2>1. Accessed = {b}
    BY <1>2, MissStep DEF Accessed
  <2>2. \A c \in Cached' \ {b} : c \in Cached /\ blockmap'[c] = blockmap[c]
    BY <1>2, MissStep
  <2> QED
    BY <1>2, <2>1, <2>2, MissStep, AgesAfter
<1>3. ASSUME NEW b \in Blocks, ReadHit(b) \/ \E v \in Values : WriteHit(b, v)
      PROVE  Ages'
  <2>1. Accessed = {b}
    BY <1>3, HitStep DEF Accessed
  <2>2. curtime' \in Nat /\ curtime <= curtime'
    BY <1>3, HitStep DEF TypeOK
  <2> QED
    BY <1>3, <2>1, <2>2, HitStep, AgesAfter
<1>4. CASE \/ \E cs \in CacheSizes : Open(cs)
           \/ \E b \in Blocks : FlushBlock(b)
           \/ Detach \/ Close \/ Kill
  <2>1. Accessed = {}
    BY <1>4, OtherStep DEF Accessed
  <2>2. CASE Cached' = {}
    BY <2>2 DEF Ages
  <2>3. CASE Cached' # {}
    BY <1>4, <2>1, <2>3, OtherStep, AgesAfter
  <2> QED
    BY <2>2, <2>3
<1> QED
  BY <1>2, <1>3, <1>4 DEF Next, ReadBlock, WriteBlock

LEMMA AgesAreRight == HSpec => []Ages
<1>1. HInit => Ages
  BY DEF HInit, Init, Ages, Cached, NothingCached
<1> QED
  BY <1>1, AgesStep, RecencyKeepsIInv, PTL DEF HSpec

\* What is left of LRU: a block touched since the last transfer goes only when
\* all are such blocks.
THEOREM FreshBlocksStay == HSpec => KeepsFreshBlocks
<1>1. IInv /\ Ages /\ [HNext]_hvars =>
         [MadeRoom /\ Dropped \cap fresh # {} => Cached \subseteq fresh]_hvars
  <2> SUFFICES ASSUME IInv, Ages, [HNext]_hvars, MadeRoom,
                      NEW v \in Dropped, v \in fresh, NEW b \in Cached
               PROVE  b \in fresh
    OBVIOUS
  <2> USE DEF IInv
  <2>1. v \in Cached /\ v \notin Cached' /\ reply'.op \in {"Read", "Write"}
    BY DEF MadeRoom, Dropped
  <2>2. Next
    BY <2>1 DEF HNext, hvars, vars, Cached
  <2>3. v \in Evicted
    <3>1. ASSUME NEW c \in Blocks, ReadMiss(c) \/ \E w \in Values : WriteMiss(c, w)
          PROVE  v \in Evicted
      BY <2>1, <3>1, MissStep
    <3>2. ASSUME NEW c \in Blocks, ReadHit(c) \/ \E w \in Values : WriteHit(c, w)
          PROVE  FALSE
      BY <2>1, <3>2, HitStep
    <3>3. CASE \/ \E cs \in CacheSizes : Open(cs)
               \/ \E c \in Blocks : FlushBlock(c)
               \/ Detach \/ Close \/ Kill
      BY <2>1, <3>3, OtherStep
    <3> QED
      BY <2>2, <3>1, <3>2, <3>3 DEF Next, ReadBlock, WriteBlock
  <2>4. IsOldest(v)
    BY <2>3 DEF Evicted
  <2>5. blockmap[v].lastaccessed = curtime
    BY <2>1 DEF Ages
  <2>6. /\ blockmap[b].lastaccessed \in Nat /\ curtime \in Nat
        /\ blockmap[b].lastaccessed <= curtime
    BY FrameOfCached DEF Ages, TypeOK
  <2>7. b = v \/ blockmap[v].lastaccessed <= blockmap[b].lastaccessed
    BY <2>4, <2>5, <2>6 DEF IsOldest
  <2>8. blockmap[b].lastaccessed = curtime
    BY <2>5, <2>6, <2>7
  <2> QED
    BY <2>8 DEF Ages
<1> QED
  BY <1>1, AgesAreRight, RecencyKeepsIInv, PTL DEF HSpec, KeepsFreshBlocks

-----------------------------------------------------------------------------
(* The size of the cache. *)

Limit == IF cachesize < 1 THEN 1 ELSE cachesize

LEMMA DeviceIsFinite == IsFiniteSet(Device)
BY CacheAssumption, FS_Interval DEF Device

\* A miss in a cache with no stray block: one entry goes before one comes, once
\* the cache is full.
LEMMA MissKeepsSize ==
    ASSUME IInv, NEW b \in Blocks, ReadMiss(b) \/ \E v \in Values : WriteMiss(b, v),
           Cached' \subseteq Device, WithinCacheSize
    PROVE  Cardinality(Cached') <= Limit'
<1> USE DEF IInv
<1>1. /\ b \notin Cached
      /\ Cached \ Evicted \subseteq Cached'
      /\ Cached' \subseteq (Cached \ Evicted) \cup {b}
      /\ cachesize' = cachesize
  BY MissStep
<1>2. Evicted \subseteq Device
  <2> SUFFICES ASSUME NEW v \in Evicted
               PROVE  v \in Device
    OBVIOUS
  <2>1. v \in Cached /\ (v \in Dirty => v \in Device)
    BY DEF Evicted
  <2> QED
    BY <2>1 DEF CleanEntriesMatchDevice
<1>3. Cached \subseteq Device
  BY <1>1, <1>2
<1>4. IsFiniteSet(Cached) /\ Cardinality(Cached) \in Nat
  BY <1>3, DeviceIsFinite, FS_Subset, FS_CardinalityType
<1>5. cachesize \in Nat
  BY DEF TypeOK
<1>6. Cardinality(Cached) <= Limit
  BY <1>3, <1>5 DEF WithinCacheSize, Limit
<1>7. Limit' = Limit
  BY <1>1 DEF Limit
<1>8. IsFiniteSet(Cached \cup {b}) /\ Cardinality(Cached \cup {b}) = Cardinality(Cached) + 1
  BY <1>1, <1>4, FS_AddElement
<1>9. /\ IsFiniteSet(Cached') /\ Cardinality(Cached') \in Nat
      /\ Cardinality(Cached') <= Cardinality(Cached) + 1
  <2>1. Cached' \subseteq Cached \cup {b}
    BY <1>1
  <2>2. Cardinality(Cached') <= Cardinality(Cached \cup {b}) /\ IsFiniteSet(Cached')
    BY <1>8, <2>1, FS_Subset
  <2> QED
    BY <1>8, <2>2, FS_CardinalityType
<1>10. CASE ~Full
  <2>1. Cardinality(Cached) + 1 <= cachesize /\ cachesize <= Limit /\ Limit \in Nat
    BY <1>4, <1>5, <1>10 DEF Full, Limit
  <2> QED
    BY <1>4, <1>5, <1>7, <1>9, <2>1
<1>11. CASE Cached = {}
  <2>1. Cardinality(Cached) = 0 /\ 1 <= Limit /\ Limit \in Nat
    BY <1>5, <1>11, FS_EmptySet DEF Limit
  <2> QED
    BY <1>7, <1>9, <2>1
<1>12. CASE Full /\ Cached # {}
  <2>1. PICK v \in Cached : IsOldest(v)
    BY <1>12, OldestExists
  <2>2. v \in Evicted
    BY <1>3, <1>12, <2>1 DEF Evicted
  <2>3. Cached' \subseteq (Cached \ {v}) \cup {b} /\ b \notin Cached \ {v}
    BY <1>1, <2>2
  <2>4. IsFiniteSet(Cached \ {v}) /\ Cardinality(Cached \ {v}) = Cardinality(Cached) - 1
    BY <1>4, FS_RemoveElement
  <2>5. /\ IsFiniteSet((Cached \ {v}) \cup {b})
        /\ Cardinality((Cached \ {v}) \cup {b}) = Cardinality(Cached \ {v}) + 1
    BY <2>3, <2>4, FS_AddElement
  <2>6. Cardinality(Cached') <= Cardinality((Cached \ {v}) \cup {b})
    BY <2>3, <2>5, FS_Subset
  <2>7. Cardinality(Cached') <= Cardinality(Cached)
    BY <1>4, <1>9, <2>4, <2>5, <2>6
  <2>8. Limit \in Nat
    BY <1>5 DEF Limit
  <2> QED
    BY <1>4, <1>6, <1>7, <1>9, <2>7, <2>8
<1> QED
  BY <1>10, <1>11, <1>12

LEMMA SizeStep ==
    ASSUME IInv, IInv', WithinCacheSize, [Next]_vars
    PROVE  WithinCacheSize'
<1>0. cachesize \in Nat /\ cachesize' \in Nat
  BY DEF IInv, TypeOK
<1> SUFFICES ASSUME Cached' \subseteq Device
             PROVE  Cardinality(Cached') <= Limit'
  BY <1>0 DEF WithinCacheSize, Limit
<1>1. Cached \subseteq Device => Cardinality(Cached) <= Limit
  BY <1>0 DEF WithinCacheSize, Limit
<1>2. CASE UNCHANGED vars
  BY <1>1, <1>2 DEF vars, Cached, Limit
<1>3. ASSUME NEW b \in Blocks, ReadMiss(b) \/ \E v \in Values : WriteMiss(b, v)
      PROVE  Cardinality(Cached') <= Limit'
  BY <1>3, MissKeepsSize
<1>4. ASSUME NEW b \in Blocks, ReadHit(b) \/ \E v \in Values : WriteHit(b, v)
      PROVE  Cardinality(Cached') <= Limit'
  <2>1. Cached' = Cached /\ cachesize' = cachesize
    BY <1>4, HitStep DEF IInv
  <2> QED
    BY <1>1, <2>1 DEF Limit
<1>5. CASE \/ \E cs \in CacheSizes : Open(cs)
           \/ \E b \in Blocks : FlushBlock(b)
           \/ Detach \/ Close \/ Kill
  <2>1. CASE Cached' = {}
    BY <1>0, <2>1, FS_EmptySet DEF Limit
  <2>2. CASE cachesize' = cachesize /\ Cached' = Cached
    BY <1>1, <2>2 DEF Limit
  <2>3. ASSUME cachesize' = cachesize, NEW d \in Device, Cached' = Cached \ {d}
        PROVE  Cardinality(Cached') <= Limit'
    <3>1. Cached \subseteq Device
      BY <2>3
    <3>2. IsFiniteSet(Cached) /\ Cardinality(Cached) \in Nat
      BY <3>1, DeviceIsFinite, FS_Subset, FS_CardinalityType
    <3>3. Cardinality(Cached') <= Cardinality(Cached) /\ IsFiniteSet(Cached')
      BY <2>3, <3>2, FS_Subset
    <3>4. Cardinality(Cached') \in Nat
      BY <3>3, FS_CardinalityType
    <3> QED
      BY <1>0, <1>1, <2>3, <3>1, <3>2, <3>3, <3>4 DEF Limit
  <2> QED
    BY <1>5, <2>1, <2>2, <2>3, OtherStep DEF IInv
<1> QED
  BY <1>2, <1>3, <1>4, <1>5 DEF Next, ReadBlock, WriteBlock

\* The cache keeps to its size, or to one block, as long as it holds no block
\* past the end of the device.
THEOREM CacheKeepsItsSize == HSpec => []WithinCacheSize
<1>1. HInit => WithinCacheSize
  <2> SUFFICES ASSUME HInit
               PROVE  WithinCacheSize
    OBVIOUS
  <2>1. Cached = {} /\ cachesize = 0
    BY DEF HInit, Init, Cached, NothingCached
  <2> QED
    BY <2>1, FS_EmptySet DEF WithinCacheSize
<1>2. IInv /\ IInv' /\ WithinCacheSize /\ [HNext]_hvars => WithinCacheSize'
  BY StepOfCache, SizeStep
<1> QED
  BY <1>1, <1>2, RecencyKeepsIInv, PTL DEF HSpec
=============================================================================
