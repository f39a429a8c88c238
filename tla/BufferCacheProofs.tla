------------------------- MODULE BufferCacheProofs -------------------------
(***************************************************************************)
(* The buffer cache keeps its promise for every device, every set of       *)
(* blocks and values, every cache size and every number of transfers.      *)
(*                                                                         *)
(* The inductive invariant is TypeOK /\ CleanEntriesMatchDevice: without   *)
(* the second part, dropping a clean entry could change what a read        *)
(* returns.                                                                *)
(***************************************************************************)
EXTENDS BufferCache, FiniteSetTheorems, TLAPS

IInv == TypeOK /\ CleanEntriesMatchDevice

-----------------------------------------------------------------------------
\* Only entries the device accepted are dropped, so a dirty one is on it.
LEMMA EvictedDirtyOnDevice == Evicted \cap Dirty \subseteq Device
BY DEF Evicted

\* Writing typed entries to the device leaves it typed.
LEMMA WrittenType ==
    ASSUME TypeOK, NEW B, B \subseteq Cached
    PROVE  Written(B) \in [Device -> Values]
<1> SUFFICES ASSUME NEW b \in Device, b \in B
             PROVE  blockmap[b].data \in Values
    BY DEF Written, TypeOK
<1>1. b \in Blocks /\ blockmap[b] # NotCached
    BY DEF Cached
<1>2. blockmap[b] \in Frame
    BY <1>1 DEF TypeOK
<1> QED BY <1>2 DEF Frame

LEMMA FileAfterType ==
    ASSUME TypeOK, NEW B, B \subseteq Cached
    PROVE  FileAfter(B) \in [Device -> Values]
BY WrittenType DEF FileAfter, TypeOK

\* Entering a frame, or nothing, leaves the map typed.
LEMMA EnteredType ==
    ASSUME TypeOK, NEW b \in Blocks, NEW f \in Frame \cup {NotCached}
    PROVE  Entered(b, f) \in [Blocks -> Frame \cup {NotCached}]
BY DEF Entered, TypeOK

\* The frame of a cached block is a frame.
LEMMA FrameOfCached ==
    ASSUME TypeOK, NEW b \in Cached
    PROVE  /\ b \in Blocks
           /\ blockmap[b] \in Frame
           /\ blockmap[b] = [data |-> blockmap[b].data,
                             lastaccessed |-> blockmap[b].lastaccessed,
                             dirty |-> blockmap[b].dirty]
           /\ blockmap[b].data \in Values
           /\ blockmap[b].lastaccessed \in Nat
           /\ blockmap[b].dirty \in BOOLEAN
BY DEF TypeOK, Cached, Frame

\* Detach writes a finite number of blocks: all of them are on the device.
LEMMA DetachableOnDevice ==
    /\ Detachable \subseteq Device \cap Dirty
    /\ Cardinality(Detachable) \in Nat
<1>1. Detachable \subseteq Device \cap Dirty
  <2> SUFFICES ASSUME NEW b \in Detachable PROVE b \in Device /\ b \in Dirty
      OBVIOUS
  <2>1. b \in Dirty /\ (b <= b => b \in Device)
      BY DEF Detachable
  <2>2. b \in Nat
      BY <2>1, CacheAssumption DEF Dirty, Cached
  <2> QED BY <2>1, <2>2
<1>2. IsFiniteSet(Device)
    BY FS_Interval, CacheAssumption DEF Device
<1>3. IsFiniteSet(Detachable)
    BY <1>1, <1>2, FS_Subset
<1> QED BY <1>1, <1>3, FS_CardinalityType

\* The block numbers past the end of the device are larger than those on it,
\* so every dirty block on the device is written before one can refuse.
LEMMA DetachableAll == Detachable = Dirty \cap Device
<1> SUFFICES ASSUME NEW b \in Dirty, b \in Device,
                    NEW c \in Dirty, c <= b
             PROVE  c \in Device
    BY DetachableOnDevice DEF Detachable
<1>1. c \in Nat /\ b \in Nat
    BY CacheAssumption DEF Dirty, Cached
<1> QED BY <1>1, CacheAssumption DEF Device

-----------------------------------------------------------------------------
LEMMA TypeInit == Init => TypeOK
<1> SUFFICES ASSUME Init PROVE TypeOK
    OBVIOUS
<1>1. reply \in Replies /\ file \in [Device -> Values]
    BY DEF Init, Answer, Replies
<1>2. blockmap \in [Blocks -> Frame \cup {NotCached}]
    BY DEF Init, NothingCached
<1> QED BY <1>1, <1>2 DEF Init, TypeOK

LEMMA TypeStep == TypeOK /\ [Next]_vars => TypeOK'
<1> SUFFICES ASSUME TypeOK, [Next]_vars PROVE TypeOK'
    OBVIOUS
<1>1. ASSUME NEW cs \in CacheSizes, Open(cs) PROVE TypeOK'
    BY <1>1, CacheAssumption
    DEF Open, TypeOK, NothingCached, Answer, Replies
<1>2. ASSUME NEW b \in Blocks, ReadHit(b) PROVE TypeOK'
  <2>1. blockmap[b] \in Frame /\ blockmap[b].data \in Values
      BY <1>2, FrameOfCached DEF ReadHit
  <2>2. blockmap' \in [Blocks -> Frame \cup {NotCached}]
      BY <1>2, <2>1 DEF ReadHit, Touched, TypeOK, Frame
  <2> QED BY <1>2, <2>1, <2>2 DEF ReadHit, TypeOK, Answer, Replies
<1>3. ASSUME NEW b \in Blocks, ReadMiss(b) PROVE TypeOK'
  <2>1. disk' \in [Device -> Values] /\ file' \in [Device -> Values]
      BY <1>3, WrittenType, FileAfterType DEF ReadMiss, Dirty
  <2>2. curtime' \in Nat
      BY <1>3 DEF ReadMiss, TimeEvicted, TypeOK
  <2>3. b \in Device => disk[b] \in Values
      BY DEF TypeOK
  <2>4. blockmap' \in [Blocks -> Frame \cup {NotCached}]
      BY <1>3, <2>2, <2>3, EnteredType DEF ReadMiss, FrameRead, Frame
  <2> QED BY <1>3, <2>1, <2>2, <2>3, <2>4
          DEF ReadMiss, TypeOK, Answer, Replies
<1>4. ASSUME NEW b \in Blocks, NEW v \in Values, WriteHit(b, v) PROVE TypeOK'
    BY <1>4 DEF WriteHit, FrameWritten, TypeOK, Frame, Answer, Replies
<1>5. ASSUME NEW b \in Blocks, NEW v \in Values, WriteMiss(b, v) PROVE TypeOK'
  <2>1. disk' \in [Device -> Values] /\ file' \in [Device -> Values]
      BY <1>5, WrittenType, FileAfterType DEF WriteMiss, WriteBack, Dirty
  <2>2. curtime' \in Nat /\ TimeEvicted \in Nat
      BY <1>5 DEF WriteMiss, TimeEvicted, TypeOK
  <2>3. blockmap' \in [Blocks -> Frame \cup {NotCached}]
      BY <1>5, <2>2, EnteredType DEF WriteMiss, FrameWritten, Frame
  <2> QED BY <1>5, <2>1, <2>2, <2>3 DEF WriteMiss, TypeOK, Answer, Replies
<1>6. ASSUME NEW b \in Blocks, FlushBlock(b) PROVE TypeOK'
  <2>1. disk' \in [Device -> Values] /\ file' \in [Device -> Values]
      BY <1>6, WrittenType, FileAfterType DEF FlushBlock, WriteBack, Dirty, TypeOK
  <2>2. curtime' \in Nat
      BY <1>6 DEF FlushBlock, TypeOK
  <2> QED BY <1>6, <2>1, <2>2 DEF FlushBlock, TypeOK, Answer, Replies
<1>7. CASE Detach
  <2>1. disk' \in [Device -> Values] /\ file' \in [Device -> Values]
      BY <1>7, WrittenType, FileAfterType DEF Detach, WriteBack, Detachable, Dirty
  <2>2. curtime' \in Nat
      BY <1>7, DetachableOnDevice DEF Detach, TypeOK
  <2> QED BY <1>7, <2>1, <2>2
          DEF Detach, TypeOK, NothingCached, Answer, Replies
<1>8. CASE Close
  <2>1. disk' \in [Device -> Values]
      BY <1>8, WrittenType DEF Close, Detachable, Dirty
  <2> QED BY <1>8, <2>1 DEF Close, NoProcess, TypeOK, NothingCached, Answer, Replies
<1>9. CASE UNCHANGED vars
    BY <1>9 DEF vars, TypeOK
<1>10. CASE Kill
  <2>1. \A n \in Blocks : Written({b \in Detachable : b <= n}) \in [Device -> Values]
      BY WrittenType DEF Detachable, Dirty
  <2>2. disk' \in [Device -> Values] /\ file' = disk'
      BY <1>10, <2>1 DEF Kill, TypeOK
  <2> QED BY <1>10, <2>2 DEF Kill, NoProcess, TypeOK, NothingCached, Answer, Replies
<1> QED BY <1>1, <1>2, <1>3, <1>4, <1>5, <1>6, <1>7, <1>8, <1>9, <1>10
        DEF Next, ReadBlock, WriteBlock

\* Every variable keeps its type, whatever the constants.
THEOREM TypeCorrect == Spec => []TypeOK
BY TypeInit, TypeStep, PTL DEF Spec
-----------------------------------------------------------------------------
LEMMA CleanInit == Init => CleanEntriesMatchDevice
BY DEF Init, CleanEntriesMatchDevice, Cached, Dirty, NothingCached

\* Writing blocks to the device changes only those blocks.
LEMMA WrittenAt ==
    ASSUME NEW B, NEW b \in Device
    PROVE  Written(B)[b] = IF b \in B THEN blockmap[b].data ELSE disk[b]
BY DEF Written

\* What a miss leaves clean in the cache, other than the block it is for,
\* was clean before and is not written, so it still matches the device.
LEMMA CleanAfterMiss ==
    ASSUME TypeOK, CleanEntriesMatchDevice,
           NEW b \in Blocks, NEW f, blockmap' = Entered(b, f),
           disk' = Written(Evicted \cap Dirty),
           NEW c \in Blocks \ {b}, c \in Cached' \ Dirty'
    PROVE  c \in Device /\ blockmap'[c].data = disk'[c]
<1>1. blockmap'[c] = blockmap[c] /\ c \in Cached \ Dirty
    BY DEF Entered, Cached, Dirty
<1>2. c \in Device /\ blockmap[c].data = disk[c]
    BY <1>1 DEF CleanEntriesMatchDevice
<1> QED BY <1>1, <1>2, WrittenAt

LEMMA CleanStep ==
    TypeOK /\ CleanEntriesMatchDevice /\ [Next]_vars
        => CleanEntriesMatchDevice'
<1> SUFFICES ASSUME TypeOK, CleanEntriesMatchDevice, [Next]_vars,
                    NEW c \in Cached' \ Dirty'
             PROVE  c \in Device /\ blockmap'[c].data = disk'[c]
    BY DEF CleanEntriesMatchDevice
<1>0. c \in Blocks /\ blockmap'[c] # NotCached /\ ~blockmap'[c].dirty
    BY DEF Cached, Dirty
<1>1. ASSUME NEW cs \in CacheSizes, Open(cs) PROVE FALSE
    BY <1>0, <1>1 DEF Open, NothingCached
<1>2. ASSUME NEW b \in Blocks, ReadHit(b)
      PROVE  c \in Device /\ blockmap'[c].data = disk'[c]
  <2>1. c \in Cached \ Dirty /\ blockmap'[c].data = blockmap[c].data
      BY <1>0, <1>2, FrameOfCached
      DEF ReadHit, Touched, Cached, Dirty, TypeOK
  <2> QED BY <1>2, <2>1 DEF ReadHit, CleanEntriesMatchDevice
<1>3. ASSUME NEW b \in Blocks, ReadMiss(b)
      PROVE  c \in Device /\ blockmap'[c].data = disk'[c]
  <2>1. CASE c # b
      BY <1>0, <1>3, <2>1, CleanAfterMiss DEF ReadMiss
  <2>2. CASE c = b
    <3>1. b \in Device /\ blockmap'[b].data = disk[b]
        BY <1>0, <1>3, <2>2 DEF ReadMiss, Entered, FrameRead
    <3>2. disk'[b] = disk[b]
        BY <1>3, <3>1, WrittenAt DEF ReadMiss, Evicted
    <3> QED BY <2>2, <3>1, <3>2
  <2> QED BY <2>1, <2>2
<1>4. ASSUME NEW b \in Blocks, NEW v \in Values, WriteHit(b, v)
      PROVE  c \in Device /\ blockmap'[c].data = disk'[c]
  <2>1. c # b
      BY <1>0, <1>4 DEF WriteHit, FrameWritten, TypeOK
  <2>2. c \in Cached \ Dirty /\ blockmap'[c] = blockmap[c]
      BY <1>0, <1>4, <2>1 DEF WriteHit, TypeOK, Cached, Dirty
  <2> QED BY <1>4, <2>2 DEF WriteHit, CleanEntriesMatchDevice
<1>5. ASSUME NEW b \in Blocks, NEW v \in Values, WriteMiss(b, v)
      PROVE  c \in Device /\ blockmap'[c].data = disk'[c]
  <2>1. c # b
      BY <1>0, <1>5 DEF WriteMiss, Entered, FrameWritten
  <2> QED BY <1>0, <1>5, <2>1, CleanAfterMiss DEF WriteMiss, WriteBack
<1>6. ASSUME NEW b \in Blocks, FlushBlock(b)
      PROVE  c \in Device /\ blockmap'[c].data = disk'[c]
  <2>1. CASE b \in Dirty /\ b \notin Device
      BY <1>6, <2>1 DEF FlushBlock, CleanEntriesMatchDevice, Cached, Dirty
  <2>2. CASE ~(b \in Dirty /\ b \notin Device)
    <3>1. c # b
        BY <1>0, <1>6, <2>2 DEF FlushBlock, TypeOK
    <3>2. c \in Cached \ Dirty /\ blockmap'[c] = blockmap[c]
        BY <1>0, <1>6, <2>2, <3>1 DEF FlushBlock, TypeOK, Cached, Dirty
    <3>3. c \in Device /\ blockmap[c].data = disk[c]
        BY <3>2 DEF CleanEntriesMatchDevice
    <3> QED BY <1>6, <2>2, <3>1, <3>2, <3>3, WrittenAt DEF FlushBlock, WriteBack
  <2> QED BY <2>1, <2>2
<1>7. CASE Detach
  <2>1. c \in Cached \ Dirty /\ blockmap'[c] = blockmap[c]
      BY <1>0, <1>7 DEF Detach, NothingCached, Cached, Dirty
  <2>2. c \in Device /\ blockmap[c].data = disk[c]
      BY <2>1 DEF CleanEntriesMatchDevice
  <2> QED BY <1>7, <2>1, <2>2, WrittenAt DEF Detach, WriteBack, Detachable
<1>8. CASE Close \/ Kill
    BY <1>0, <1>8 DEF Close, Kill, NoProcess, NothingCached
<1>9. CASE UNCHANGED vars
    BY <1>9 DEF vars, CleanEntriesMatchDevice, Cached, Dirty
<1> QED BY <1>1, <1>2, <1>3, <1>4, <1>5, <1>6, <1>7, <1>8, <1>9
        DEF Next, ReadBlock, WriteBlock

\* A clean entry always holds what the device holds, so CheckDeleteOldest,
\* FlushBlock and Detach may drop it unwritten.
THEOREM CleanEntriesSafe == Spec => []CleanEntriesMatchDevice
<1>1. Init => IInv
    BY TypeInit, CleanInit DEF IInv
<1>2. IInv /\ [Next]_vars => IInv'
    BY TypeStep, CleanStep DEF IInv
<1>3. IInv => CleanEntriesMatchDevice
    BY DEF IInv
<1> QED BY <1>1, <1>2, <1>3, PTL DEF Spec
-----------------------------------------------------------------------------
\* The refinement: Latest and disk behave as `latest' and `durable' of
\* BlockStore.

\* A miss, whatever it drops and writes, changes what a read returns only
\* for the block that is entered.
LEMMA LatestAfterMiss ==
    ASSUME IInv, NEW b \in Blocks, b \notin Cached,
           NEW f \in Frame \cup {NotCached},
           blockmap' = Entered(b, f),
           disk' = Written(Evicted \cap Dirty),
           NEW c \in Blocks \ {b}
    PROVE  Latest'[c] = Latest[c]
<1>1. CASE c \in Evicted
  <2>1. c \in Cached /\ c \notin Cached'
      BY <1>1 DEF Evicted, Entered, Cached
  <2>2. c \in Device
      BY <1>1, <2>1, EvictedDirtyOnDevice
      DEF IInv, CleanEntriesMatchDevice
  <2>3. disk'[c] = blockmap[c].data
      BY <1>1, <2>1, <2>2, WrittenAt DEF IInv, CleanEntriesMatchDevice
  <2> QED BY <2>1, <2>2, <2>3 DEF Latest
<1>2. CASE c \notin Evicted
  <2>1. blockmap'[c] = blockmap[c] /\ (c \in Cached' <=> c \in Cached)
      BY <1>2 DEF Entered, Cached
  <2>2. c \in Device => disk'[c] = disk[c]
      BY <1>2, WrittenAt
  <2> QED BY <2>1, <2>2 DEF Latest
<1> QED BY <1>1, <1>2

\* A miss makes at most the dropped dirty block durable.
LEMMA DurableAfterMiss ==
    ASSUME disk' = Written(Evicted \cap Dirty)
    PROVE  Store!SomeBecomeDurable
<1> DEFINE B == Evicted \cap Dirty
<1>1. B \in SUBSET Device
    BY EvictedDirtyOnDevice
<1>2. ASSUME NEW b \in Device, b \in B PROVE Latest[b] = blockmap[b].data
    BY <1>2 DEF Latest, Dirty, Cached
<1>3. disk' = [b \in Device |-> IF b \in B THEN Latest[b] ELSE disk[b]]
    BY <1>2 DEF Written
<1>4. \E A \in SUBSET Device :
        disk' = [b \in Device |-> IF b \in A THEN Latest[b] ELSE disk[b]]
    BY <1>1, <1>3
<1> QED BY <1>4 DEF Store!SomeBecomeDurable

LEMMA NothingBecomesDurable ==
    ASSUME TypeOK, UNCHANGED disk
    PROVE  Store!SomeBecomeDurable
<1>1. disk' = [b \in Device |-> IF b \in {} THEN Latest[b] ELSE disk[b]]
    BY DEF TypeOK
<1>2. \E A \in SUBSET Device :
        disk' = [b \in Device |-> IF b \in A THEN Latest[b] ELSE disk[b]]
  <2> DEFINE A == {}
  <2>1. A \in SUBSET Device
      OBVIOUS
  <2> QED BY <1>1, <2>1
<1> QED BY <1>2 DEF Store!SomeBecomeDurable

\* Whatever the device writes, all but the last block of it is safe.
LEMMA WriteBackSafe ==
    ASSUME TypeOK, NEW B, B \subseteq Device, disk' = Written(B), file' = FileAfter(B)
    PROVE  Store!BecomesSafe
<1>1. CASE B = {}
    BY <1>1 DEF Store!BecomesSafe, FileAfter, Written, TypeOK
<1>2. ASSUME NEW m \in B, \A c \in B : c <= m
      PROVE  Store!BecomesSafe
  <2>1. \A b \in B : (\A c \in B : c <= b) <=> b = m
    <3>1. \A b \in B : b \in Nat
        BY CacheAssumption DEF Device
    <3> QED BY <1>2, <3>1
  <2>2. file' = [Written(B) EXCEPT ![m] = disk[m]]
      BY <1>2, <2>1 DEF FileAfter, Written
  <2> QED BY <1>2, <2>2 DEF Store!BecomesSafe
<1>3. ASSUME NEW d \in B, ~ \E m \in B : \A c \in B : c <= m
      PROVE  Store!BecomesSafe
  <2>1. file' = Written(B)
      BY <1>3 DEF FileAfter, Written
  <2> QED BY <1>3, <2>1 DEF Store!BecomesSafe
<1> QED BY <1>1, <1>2, <1>3

\* What is Absent is exactly what is neither cached nor on the device.
LEMMA LatestAbsent ==
    ASSUME TypeOK, NEW b \in Blocks
    PROVE  Latest[b] = Absent <=> b \notin Cached /\ b \notin Device
<1>1. b \in Cached => blockmap[b].data \in Values
    BY FrameOfCached
<1>2. b \in Device => disk[b] \in Values
    BY DEF TypeOK
<1> QED BY <1>1, <1>2, CacheAssumption DEF Latest

\* The stray blocks of BlockStore are the cached ones past the end of the
\* device, and those are dirty.
LEMMA StrayIsDirty == IInv => Store!Stray = Dirty \ Device
<1> SUFFICES ASSUME IInv PROVE Store!Stray = Dirty \ Device
    OBVIOUS
<1>1. ASSUME NEW b \in Store!Stray PROVE b \in Dirty \ Device
    BY <1>1, LatestAbsent
    DEF Store!Stray, IInv, CleanEntriesMatchDevice
<1>2. ASSUME NEW b \in Dirty \ Device PROVE b \in Store!Stray
    BY <1>2, LatestAbsent DEF Store!Stray, IInv, Dirty, Cached
<1> QED BY <1>1, <1>2

\* Detach and ~BufferCache leave on the device what a read would return.
LEMMA DetachMakesAllDurable ==
    ASSUME IInv, disk' = Written(Detachable)
    PROVE  Store!AllBecomeDurable
<1> SUFFICES ASSUME NEW b \in Device PROVE disk'[b] = Latest[b]
    BY DEF Store!AllBecomeDurable, Written
<1>1. b \in Blocks
    BY CacheAssumption
<1>2. CASE b \in Dirty
    BY <1>1, <1>2, DetachableAll, WrittenAt DEF Latest, Dirty
<1>3. CASE b \in Cached \ Dirty
    BY <1>1, <1>3, DetachableAll, WrittenAt
    DEF Latest, IInv, CleanEntriesMatchDevice
<1>4. CASE b \notin Cached
    BY <1>1, <1>4, DetachableAll, WrittenAt DEF Latest, Dirty
<1> QED BY <1>2, <1>3, <1>4 DEF Dirty

LEMMA StoreInit == Init => Store!Init
<1> SUFFICES ASSUME Init PROVE Store!Init
    OBVIOUS
<1>1. Cached = {}
    BY DEF Init, Cached, NothingCached
<1>2. Latest = Store!OnDevice
    BY <1>1 DEF Latest, Store!OnDevice
<1> QED BY <1>2 DEF Init, Store!Init, Answer, Store!Answer

LEMMA StoreOpen ==
    ASSUME IInv, running = FALSE => Cached = {},
           NEW cs \in CacheSizes, Open(cs)
    PROVE  Store!Open
<1>1. Cached = {} /\ Cached' = {}
    BY DEF Open, Cached, NothingCached, IInv, TypeOK
<1>2. Latest' = Latest
    BY <1>1 DEF Latest, Open
<1> QED BY <1>2 DEF Open, Store!Open, Answer, Store!Answer

LEMMA StoreRead ==
    ASSUME IInv, NEW b \in Blocks, ReadBlock(b)
    PROVE  Store!Read(b)
<1>0. TypeOK
    BY DEF IInv
<1>1. CASE ReadHit(b)
  <2>1. \A c \in Blocks : /\ c \in Cached' <=> c \in Cached
                          /\ blockmap'[c].data = blockmap[c].data
    <3> SUFFICES ASSUME NEW c \in Blocks
                 PROVE  /\ c \in Cached' <=> c \in Cached
                        /\ blockmap'[c].data = blockmap[c].data
        OBVIOUS
    <3>1. CASE c # b
        BY <1>0, <1>1, <3>1 DEF ReadHit, Touched, Cached, TypeOK
    <3>2. CASE c = b
      <4>1. blockmap[b] \in Frame /\ curtime \in Nat
          BY <1>0, <1>1, FrameOfCached DEF ReadHit, TypeOK
      <4>2. blockmap'[b] = [blockmap[b] EXCEPT !.lastaccessed = curtime]
          BY <1>0, <1>1 DEF ReadHit, Touched, TypeOK
      <4>3. blockmap'[b] \in Frame /\ blockmap'[b].data = blockmap[b].data
          BY <4>1, <4>2 DEF Frame
      <4> QED BY <1>1, <3>2, <4>3, FrameAssumption DEF ReadHit, Cached
    <3> QED BY <3>1, <3>2
  <2>2. Latest' = Latest
      BY <1>1, <2>1 DEF Latest, ReadHit
  <2>3. Latest[b] = blockmap[b].data /\ Latest[b] # Absent
      BY <1>0, <1>1, LatestAbsent DEF ReadHit, Latest
  <2> QED BY <1>0, <1>1, <2>2, <2>3, NothingBecomesDurable
          DEF ReadHit, Store!Read, Store!BecomesSafe, Answer, Store!Answer
<1>2. CASE ReadMiss(b)
  <2> DEFINE f == IF b \in Device
                  THEN [data |-> disk[b], lastaccessed |-> curtime',
                        dirty |-> FALSE]
                  ELSE NotCached
  <2>1. f \in Frame \cup {NotCached}
    <3>1. curtime' \in Nat
        BY <1>0, <1>2 DEF ReadMiss, TimeEvicted, TypeOK
    <3>2. b \in Device => disk[b] \in Values
        BY <1>0 DEF TypeOK
    <3> QED BY <3>1, <3>2 DEF Frame
  <2>2. blockmap' = Entered(b, f)
      BY <1>2 DEF ReadMiss, FrameRead
  <2>3. \A c \in Blocks \ {b} : Latest'[c] = Latest[c]
      BY <1>2, <2>1, <2>2, LatestAfterMiss DEF ReadMiss
  <2>4. Latest[b] = IF b \in Device THEN disk[b] ELSE Absent
      BY <1>2 DEF ReadMiss, Latest
  <2>5. Latest'[b] = Latest[b]
    <3>1. CASE b \in Device
      <4>0. f \in Frame /\ f.data = disk[b]
        <5>1. curtime' \in Nat
            BY <1>0, <1>2 DEF ReadMiss, TimeEvicted, TypeOK
        <5>2. disk[b] \in Values
            BY <1>0, <3>1 DEF TypeOK
        <5> QED BY <3>1, <5>1, <5>2 DEF Frame
      <4>1. blockmap'[b] = f /\ f # NotCached /\ f.data = disk[b]
          BY <2>2, <4>0, FrameAssumption DEF Entered
      <4> QED BY <2>4, <3>1, <4>1 DEF Latest, Cached
    <3>2. CASE b \notin Device
        BY <2>2, <2>4, <3>2 DEF Latest, Cached, Entered
    <3> QED BY <3>1, <3>2
  <2>6. Latest' = Latest
      BY <2>3, <2>5 DEF Latest
  <2>7. Latest[b] = Absent <=> b \notin Device
      BY <1>0, <1>2, LatestAbsent DEF ReadMiss
  <2>8. Store!SomeBecomeDurable
      BY <1>2, DurableAfterMiss DEF ReadMiss
  <2>9. Store!BecomesSafe
    <3>1. CASE b \in Device
        BY <1>2, <3>1 DEF ReadMiss, Store!BecomesSafe
    <3>2. CASE b \notin Device
        BY <1>0, <1>2, <3>2, EvictedDirtyOnDevice, WriteBackSafe DEF ReadMiss
    <3> QED BY <3>1, <3>2
  <2> QED BY <1>2, <2>4, <2>6, <2>7, <2>8, <2>9
          DEF ReadMiss, Store!Read, Answer, Store!Answer
<1> QED BY <1>1, <1>2 DEF ReadBlock

LEMMA StoreWrite ==
    ASSUME IInv, NEW b \in Blocks, NEW v \in Values, WriteBlock(b, v)
    PROVE  Store!Write(b, v)
<1>0. TypeOK
    BY DEF IInv
<1> DEFINE f(t) == [data |-> v, lastaccessed |-> t, dirty |-> TRUE]
<1>1. ASSUME NEW t \in Nat
      PROVE  f(t) \in Frame /\ f(t) # NotCached /\ f(t).data = v
  <2>1. f(t) \in Frame
      BY DEF Frame
  <2> QED BY <2>1, FrameAssumption
<1>2. SUFFICES /\ \A c \in Blocks \ {b} : Latest'[c] = Latest[c]
               /\ Latest'[b] = v
               /\ Store!SomeBecomeDurable /\ Store!BecomesSafe
  <2>1. ASSUME \A c \in Blocks \ {b} : Latest'[c] = Latest[c],
               Latest'[b] = v
        PROVE  Latest' = [Latest EXCEPT ![b] = v]
      BY <2>1 DEF Latest
  <2> QED BY <2>1 DEF WriteBlock, WriteHit, WriteMiss, Store!Write, Answer,
          Store!Answer
<1>3. CASE WriteHit(b, v)
  <2>1. curtime \in Nat /\ blockmap' = [blockmap EXCEPT ![b] = f(curtime)]
      BY <1>0, <1>3 DEF WriteHit, FrameWritten, TypeOK
  <2>2. blockmap'[b] = f(curtime)
      BY <1>0, <2>1 DEF TypeOK
  <2>3. Latest'[b] = v
      BY <1>1, <2>1, <2>2 DEF Latest, Cached
  <2>4. \A c \in Blocks \ {b} : blockmap'[c] = blockmap[c]
      BY <1>0, <2>1 DEF TypeOK
  <2>5. \A c \in Blocks \ {b} : Latest'[c] = Latest[c]
      BY <1>3, <2>4 DEF WriteHit, Latest, Cached
  <2> QED BY <1>0, <1>3, <2>3, <2>5, NothingBecomesDurable DEF WriteHit, Store!BecomesSafe
<1>4. CASE WriteMiss(b, v)
  <2>1. TimeEvicted \in Nat /\ blockmap' = Entered(b, f(TimeEvicted))
      BY <1>0, <1>4 DEF WriteMiss, FrameWritten, TimeEvicted, TypeOK
  <2>2. Latest'[b] = v
      BY <1>1, <2>1 DEF Latest, Cached, Entered
  <2>3. \A c \in Blocks \ {b} : Latest'[c] = Latest[c]
      BY <1>1, <1>4, <2>1, LatestAfterMiss DEF WriteMiss, WriteBack
  <2> QED BY <1>0, <1>4, <2>2, <2>3, DurableAfterMiss, WriteBackSafe, EvictedDirtyOnDevice
          DEF WriteMiss, WriteBack
<1> QED BY <1>3, <1>4 DEF WriteBlock

LEMMA StoreFlush ==
    ASSUME IInv, NEW b \in Blocks, FlushBlock(b)
    PROVE  Store!Flush(b)
<1>0. TypeOK
    BY DEF IInv
<1>1. CASE b \in Dirty \ Device
  <2>1. b \in Store!Stray
      BY <1>1, StrayIsDirty
  <2>2. Latest' = Latest
      BY <1>1 DEF FlushBlock, Latest, Cached
  <2> QED BY <1>1, <2>1, <2>2
          DEF FlushBlock, Store!Flush, Store!BecomesSafe, Answer, Store!Answer
<1>2. CASE b \notin Dirty \ Device
  <2>1. b \notin Store!Stray
      BY <1>2, StrayIsDirty
  <2>2. /\ disk' = Written({b} \cap Dirty)
        /\ blockmap' = [blockmap EXCEPT ![b] = NotCached]
        /\ reply' = Answer("Flush", b, "NOERROR", Absent)
        /\ running /\ running' = running
      BY <1>2 DEF FlushBlock, WriteBack
  <2>7. Store!BecomesSafe
    <3>1. {b} \cap Dirty \subseteq Device
        BY <1>2
    <3> QED BY <1>0, <1>2, <3>1, WriteBackSafe DEF FlushBlock, WriteBack
  <2>3. ASSUME NEW c \in Device PROVE disk'[c] = IF c = b THEN Latest[b] ELSE disk[c]
    <3>1. c \in Blocks
        BY CacheAssumption
    <3> QED BY <2>2, <3>1, WrittenAt
            DEF Latest, Dirty, IInv, CleanEntriesMatchDevice
  <2>4. disk' = IF b \in Device THEN [disk EXCEPT ![b] = Latest[b]] ELSE disk
      BY <1>0, <2>2, <2>3 DEF TypeOK, Written
  <2>5. ASSUME NEW c \in Blocks PROVE Latest'[c] = Latest[c]
    <3>1. CASE c # b
        BY <1>0, <2>2, <2>3, <3>1 DEF Latest, Cached, TypeOK
    <3>2. CASE c = b
      <4>1. b \notin Cached'
          BY <1>0, <2>2 DEF Cached, TypeOK
      <4>2. b \notin Device => b \notin Cached
          BY <1>2 DEF IInv, CleanEntriesMatchDevice
      <4> QED BY <2>3, <3>2, <4>1, <4>2 DEF Latest
    <3> QED BY <3>1, <3>2
  <2>6. Latest' = Latest
      BY <2>5 DEF Latest
  <2> QED BY <2>1, <2>2, <2>4, <2>6, <2>7 DEF Store!Flush, Answer, Store!Answer
<1> QED BY <1>1, <1>2

LEMMA StoreDetach ==
    ASSUME IInv, Detach
    PROVE  Store!Detach
<1>0. TypeOK
    BY DEF IInv
<1>1. Store!AllBecomeDurable
    BY DetachMakesAllDurable DEF Detach, WriteBack
<1>5. Store!BecomesSafe
    BY <1>0, DetachableOnDevice, WriteBackSafe DEF Detach, WriteBack
<1>2. Store!Stray = {} <=> Dirty \subseteq Device
    BY StrayIsDirty
<1>3. ASSUME NEW c \in Blocks PROVE Latest'[c] = Latest[c]
  <2>1. c \in Device => disk'[c] = Latest[c]
      BY <1>1 DEF Store!AllBecomeDurable
  <2>2. CASE Dirty \subseteq Device
    <3>1. Cached' = {}
        BY <2>2 DEF Detach, Cached, NothingCached
    <3>2. c \notin Device => Latest[c] = Absent
        BY <1>2, <2>2 DEF Store!Stray
    <3> QED BY <2>1, <3>1, <3>2 DEF Latest
  <2>3. CASE ~(Dirty \subseteq Device)
    <3>1. blockmap' = blockmap /\ Cached' = Cached
        BY <2>3 DEF Detach, Cached
    <3> QED BY <2>1, <3>1 DEF Latest
  <2> QED BY <2>2, <2>3
<1>4. Latest' = Latest
    BY <1>3 DEF Latest
<1> QED BY <1>1, <1>2, <1>4, <1>5 DEF Detach, Store!Detach, Answer, Store!Answer

\* Without a process, a read returns what the device holds.
LEMMA LatestWithout ==
    ASSUME NoProcess
    PROVE  Latest' = Store!OnDevice'
<1>1. Cached' = {}
    BY DEF NoProcess, Cached, NothingCached
<1> QED BY <1>1 DEF Latest, Store!OnDevice

LEMMA StoreClose ==
    ASSUME IInv, Close
    PROVE  Store!Close
<1>1. Store!AllBecomeDurable
    BY DetachMakesAllDurable DEF Close
<1> QED BY <1>1, LatestWithout
        DEF Close, NoProcess, Store!Close, Store!Ended, Answer, Store!Answer

\* A death in the middle of Detach has made the first few blocks durable.
LEMMA StoreDie ==
    ASSUME IInv, Kill
    PROVE  Store!Die
<1>0. TypeOK
    BY DEF IInv
<1>1. Store!SomeBecomeDurable \/ disk' = file
  <2>1. CASE disk' = disk
      BY <1>0, <2>1, NothingBecomesDurable
  <2>2. ASSUME NEW n \in Blocks, disk' = Written({b \in Detachable : b <= n})
        PROVE  Store!SomeBecomeDurable
    <3> DEFINE B == {b \in Detachable : b <= n}
    <3>1. B \in SUBSET Device /\ B \subseteq Dirty
        BY DetachableOnDevice
    <3> HIDE DEF B
    <3>2. ASSUME NEW b \in B PROVE Latest[b] = blockmap[b].data
        BY <3>1 DEF Latest, Dirty, Cached
    <3>3. disk' = [b \in Device |-> IF b \in B THEN Latest[b] ELSE disk[b]]
        BY <2>2, <3>2 DEF Written, B
    <3> QED BY <3>1, <3>3 DEF Store!SomeBecomeDurable
  <2> QED BY <2>1, <2>2 DEF Kill
<1> QED BY <1>1, LatestWithout
        DEF Kill, NoProcess, Store!Die, Store!Ended, Answer, Store!Answer

\* No process, no cache: nothing carries over from one process to the next.
ClosedIsEmpty == running = FALSE => Cached = {}

LEMMA ClosedInit == Init => ClosedIsEmpty
BY DEF Init, ClosedIsEmpty, Cached, NothingCached

LEMMA ClosedStep == TypeOK /\ ClosedIsEmpty /\ [Next]_vars => ClosedIsEmpty'
<1> SUFFICES ASSUME TypeOK, ClosedIsEmpty, [Next]_vars, running' = FALSE
             PROVE  Cached' = {}
    BY DEF ClosedIsEmpty
<1>1. CASE UNCHANGED vars
    BY <1>1 DEF vars, ClosedIsEmpty, Cached
<1>2. CASE Next
    BY <1>2
    DEF Next, Open, ReadBlock, ReadHit, ReadMiss, WriteBlock, WriteHit,
        WriteMiss, FlushBlock, Detach, Close, Kill, NoProcess, Cached, NothingCached
<1> QED BY <1>1, <1>2

LEMMA StoreStep ==
    IInv /\ ClosedIsEmpty /\ [Next]_vars => [Store!Next]_(Store!vars)
<1> SUFFICES ASSUME IInv, ClosedIsEmpty, [Next]_vars
             PROVE  [Store!Next]_(Store!vars)
    OBVIOUS
<1>1. ASSUME NEW cs \in CacheSizes, Open(cs) PROVE Store!Next
    BY <1>1, StoreOpen DEF ClosedIsEmpty, Store!Next
<1>2. ASSUME NEW b \in Blocks, ReadBlock(b) PROVE Store!Next
    BY <1>2, StoreRead DEF Store!Next
<1>3. ASSUME NEW b \in Blocks, NEW v \in Values, WriteBlock(b, v)
      PROVE  Store!Next
    BY <1>3, StoreWrite DEF Store!Next
<1>4. ASSUME NEW b \in Blocks, FlushBlock(b) PROVE Store!Next
    BY <1>4, StoreFlush DEF Store!Next
<1>5. CASE Detach
    BY <1>5, StoreDetach DEF Store!Next
<1>6. CASE Close
    BY <1>6, StoreClose DEF Store!Next
<1>7. ASSUME UNCHANGED vars PROVE UNCHANGED Store!vars
    BY <1>7 DEF vars, Store!vars, Latest, Cached
<1>8. CASE Kill
    BY <1>8, StoreDie DEF Store!Next
<1> QED BY <1>1, <1>2, <1>3, <1>4, <1>5, <1>6, <1>7, <1>8 DEF Next

\* The cache implements the block store: reads return the last write through
\* any sequence of hits, misses, evictions, refusals and processes, the end of
\* a process loses nothing that was written inside the device, and its death
\* no more than what the device had not accepted and one block that it had.
THEOREM CacheImplementsStore == Spec => ImplementsBlockStore
<1>1. Init => IInv /\ ClosedIsEmpty /\ Store!Init
    BY TypeInit, CleanInit, ClosedInit, StoreInit DEF IInv
<1>2. IInv /\ ClosedIsEmpty /\ [Next]_vars => IInv' /\ ClosedIsEmpty'
    BY TypeStep, CleanStep, ClosedStep DEF IInv
<1>3. IInv /\ ClosedIsEmpty /\ [Next]_vars => [Store!Next]_(Store!vars)
    BY StoreStep
<1> QED BY <1>1, <1>2, <1>3, PTL DEF Spec, ImplementsBlockStore, Store!Spec
=============================================================================
