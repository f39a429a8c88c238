---------------------------- MODULE BufferCache ----------------------------
(***************************************************************************)
(* The write-back block cache of btree_lab/buffercache.cc over the device  *)
(* of disksystem.cc.  A process (a tool, or sim) opens the cache, reads,   *)
(* writes and flushes blocks one call at a time, may detach, and at its    *)
(* end runs ~BufferCache, unless it is killed.  The device outlives it:    *)
(* `disk' and `file' are the `latest' and the `durable' of BlockFile, for  *)
(* the blocks of a disk whose blocks are apart.                            *)
(*                                                                         *)
(* Time only orders accesses: a transfer inside the device takes a         *)
(* positive time (disksystem.cc:407-412), so curtime counts transfers;     *)
(* hits, and transfers the device refuses, take none.                      *)
(***************************************************************************)
EXTENDS Integers, FiniteSets

CONSTANTS
    NumBlocks,   \* the device holds blocks 0 .. NumBlocks-1
    Blocks,      \* the block numbers callers name; some may not exist
    Values,      \* what a block may hold
    CacheSizes,  \* the cachesize arguments a process may be started with
    NotCached,   \* blockmap has no entry for the block
    Absent,      \* no value: the block cannot be read
    NoBlock,     \* the block of a call that names none
    MaxTime      \* bound: transfers a process makes before it must end

Device == 0 .. NumBlocks - 1

ASSUME CacheAssumption ==
    /\ NumBlocks \in Nat
    /\ Blocks \subseteq Nat
    /\ Device \subseteq Blocks
    /\ CacheSizes \subseteq Nat
    /\ Absent \notin Values
    /\ NoBlock \notin Blocks
    /\ MaxTime \in Nat

VARIABLES
    disk,        \* [Device -> Values]: what the device answers a read with
    file,        \* [Device -> Values]: what the death of the process leaves
    running,     \* does a process hold the cache?
    cachesize,   \* its cachesize argument
    blockmap,    \* [Blocks -> frame or NotCached]
    curtime,     \* simulated time, in transfers
    reply        \* the last call and what it returned

vars == <<disk, file, running, cachesize, blockmap, curtime, reply>>

Frame == [data : Values, lastaccessed : Nat, dirty : BOOLEAN]

ASSUME FrameAssumption == NotCached \notin Frame

Answer(op, b, rc, v) == [op |-> op, block |-> b, rc |-> rc, value |-> v]

Replies == [op : {"Open", "Read", "Write", "Flush", "Detach", "Close",
                  "Kill"},
            block : Blocks \cup {NoBlock},
            rc : {"NOERROR", "NOSPACE"},
            value : Values \cup {Absent}]

-----------------------------------------------------------------------------
Cached == {b \in Blocks : blockmap[b] # NotCached}
Dirty  == {b \in Cached : blockmap[b].dirty}

\* What a read returns now, whether or not the block is in the cache.
Latest ==
    [b \in Blocks |-> IF b \in Cached THEN blockmap[b].data
                      ELSE IF b \in Device THEN disk[b] ELSE Absent]

NothingCached == [b \in Blocks |-> NotCached]

\* The device after the blocks of B are written from the cache.
Written(B) == [b \in Device |-> IF b \in B THEN blockmap[b].data ELSE disk[b]]

\* The .data file then.  Each transfer has stdio pass on the one before, so
\* only the last block written, the largest, is still in its buffer.
FileAfter(B) ==
    IF B = {} THEN file
    ELSE [b \in Device |-> IF b \in B /\ \A c \in B : c <= b THEN disk[b]
                           ELSE Written(B)[b]]

\* Strictly smaller lastaccessed wins, so a tie goes to the smaller number.
IsOldest(v) ==
    \A b \in Cached \ {v} :
        \/ blockmap[v].lastaccessed < blockmap[b].lastaccessed
        \/ blockmap[v].lastaccessed = blockmap[b].lastaccessed /\ v < b

FullLate == Cardinality(Cached) > cachesize    \* off by one

Full == Cardinality(Cached) >= cachesize

\* The block CheckDeleteOldest drops: none while there is room, and none
\* when the oldest is dirty and the device refuses it (callers ignore that).
Evicted ==
    {v \in Cached : Full /\ IsOldest(v) /\ (v \in Dirty => v \in Device)}

\* The time once CheckDeleteOldest is done.
TimeEvicted == IF Evicted \cap Dirty = {} THEN curtime ELSE curtime + 1

\* The map once CheckDeleteOldest is done and b is entered as frame f.
Entered(b, f) ==
    [c \in Blocks |-> IF c = b THEN f
                      ELSE IF c \in Evicted THEN NotCached ELSE blockmap[c]]

\* The block is noted as accessed now; a bug would forget to.
TouchedNever(b) == blockmap
Touched(b) == [blockmap EXCEPT ![b].lastaccessed = curtime]

\* The entry a miss makes at time t, or none if the device refuses the block;
\* a bug would not look at the device's answer.
FrameReadAlways(b, t) == [data |-> Latest[b], lastaccessed |-> t, dirty |-> FALSE]
FrameRead(b, t) ==
    IF b \in Device
    THEN [data |-> disk[b], lastaccessed |-> t, dirty |-> FALSE]
    ELSE NotCached

\* The entry a write leaves at time t; a bug would not set the dirty flag.
FrameWrittenClean(v, t) == [data |-> v, lastaccessed |-> t, dirty |-> FALSE]
FrameWritten(v, t) == [data |-> v, lastaccessed |-> t, dirty |-> TRUE]

\* Detach writes the dirty blocks in order of number, up to the first one
\* the device refuses; over a map ordered the other way round, from the end.
DetachableFromTheEnd == {b \in Dirty : \A c \in Dirty : c >= b => c \in Device}
Detachable == {b \in Dirty : \A c \in Dirty : c <= b => c \in Device}

\* The device writes the blocks of B in order.
WriteBack(B) ==
    /\ disk' = Written(B)
    /\ file' = FileAfter(B)

\* There is no process any more.
NoProcess ==
    /\ running' = FALSE
    /\ cachesize' = 0
    /\ blockmap' = NothingCached
    /\ curtime' = 0

TimeBound == curtime' <= MaxTime
-----------------------------------------------------------------------------
Init ==
    /\ disk \in [Device -> Values]
    /\ file = disk
    /\ running = FALSE
    /\ cachesize = 0
    /\ blockmap = NothingCached
    /\ curtime = 0
    /\ reply = Answer("Close", NoBlock, "NOERROR", Absent)

\* A process constructs the cache and calls Attach before anything else.
Open(cs) ==
    /\ ~running
    /\ running' = TRUE
    /\ cachesize' = cs
    /\ blockmap' = NothingCached
    /\ curtime' = 0
    /\ reply' = Answer("Open", NoBlock, "NOERROR", Absent)
    /\ UNCHANGED <<disk, file>>

ReadHit(b) ==
    /\ running
    /\ b \in Cached
    /\ blockmap' = Touched(b)
    /\ reply' = Answer("Read", b, "NOERROR", blockmap[b].data)
    /\ UNCHANGED <<disk, file, running, cachesize, curtime>>

\* Room is made before the device is asked, and stays made if it refuses.
ReadMiss(b) ==
    /\ running
    /\ b \notin Cached
    /\ disk' = Written(Evicted \cap Dirty)
    /\ file' = IF b \in Device THEN disk' ELSE FileAfter(Evicted \cap Dirty)
    /\ curtime' = IF b \in Device THEN TimeEvicted + 1 ELSE TimeEvicted
    /\ blockmap' = Entered(b, FrameRead(b, curtime'))
    /\ reply' = IF b \in Device THEN Answer("Read", b, "NOERROR", disk[b])
                                ELSE Answer("Read", b, "NOSPACE", Absent)
    /\ TimeBound
    /\ UNCHANGED <<running, cachesize>>

WriteHit(b, v) ==
    /\ running
    /\ b \in Cached
    /\ blockmap' = [blockmap EXCEPT ![b] = FrameWritten(v, curtime)]
    /\ reply' = Answer("Write", b, "NOERROR", v)
    /\ UNCHANGED <<disk, file, running, cachesize, curtime>>

\* Nothing checks that the device has block b.
WriteMiss(b, v) ==
    /\ running
    /\ b \notin Cached
    /\ WriteBack(Evicted \cap Dirty)
    /\ curtime' = TimeEvicted
    /\ blockmap' = Entered(b, FrameWritten(v, TimeEvicted))
    /\ reply' = Answer("Write", b, "NOERROR", v)
    /\ TimeBound
    /\ UNCHANGED <<running, cachesize>>

FlushBlock(b) ==
    /\ running
    /\ IF b \in Dirty /\ b \notin Device
       THEN /\ reply' = Answer("Flush", b, "NOSPACE", Absent)
            /\ UNCHANGED <<disk, file, blockmap, curtime>>
       ELSE /\ reply' = Answer("Flush", b, "NOERROR", Absent)
            /\ WriteBack({b} \cap Dirty)
            /\ blockmap' = [blockmap EXCEPT ![b] = NotCached]
            /\ curtime' = IF b \in Dirty THEN curtime + 1 ELSE curtime
    /\ TimeBound
    /\ UNCHANGED <<running, cachesize>>

Detach ==
    /\ running
    /\ WriteBack(Detachable)
    /\ curtime' = curtime + Cardinality(Detachable)
    /\ IF Dirty \subseteq Device
       THEN /\ blockmap' = NothingCached
            /\ reply' = Answer("Detach", NoBlock, "NOERROR", Absent)
       ELSE /\ UNCHANGED blockmap
            /\ reply' = Answer("Detach", NoBlock, "NOSPACE", Absent)
    /\ TimeBound
    /\ UNCHANGED <<running, cachesize>>

\* The process returns from main: ~BufferCache detaches and ignores the
\* result, ~DiskSystem closes the file.
Close ==
    /\ running
    /\ disk' = Written(Detachable)
    /\ file' = disk'
    /\ NoProcess
    /\ reply' = Answer("Close", NoBlock, "NOERROR", Absent)

\* The process dies: an assert or a signal, perhaps in the middle of Detach.
Kill ==
    /\ running
    /\ \/ disk' \in {disk, file}
       \/ \E n \in Blocks : disk' = Written({b \in Detachable : b <= n})
    /\ file' = disk'
    /\ NoProcess
    /\ reply' = Answer("Kill", NoBlock, "NOERROR", Absent)

ReadBlock(b) == ReadHit(b) \/ ReadMiss(b)

WriteBlock(b, v) == WriteHit(b, v) \/ WriteMiss(b, v)

Next ==
    \/ \E cs \in CacheSizes : Open(cs)
    \/ \E b \in Blocks : ReadBlock(b)
    \/ \E b \in Blocks, v \in Values : WriteBlock(b, v)
    \/ \E b \in Blocks : FlushBlock(b)
    \/ Detach
    \/ Close
    \/ Kill

Spec == Init /\ [][Next]_vars
-----------------------------------------------------------------------------
\* Every variable stays within the range the code's types and Open give it.
TypeOK ==
    /\ disk \in [Device -> Values] /\ file \in [Device -> Values]
    /\ running \in BOOLEAN
    /\ cachesize \in Nat
    /\ blockmap \in [Blocks -> Frame \cup {NotCached}]
    /\ curtime \in Nat
    /\ reply \in Replies

\* An entry the cache may drop without writing it (CheckDeleteOldest and
\* FlushBlock erase clean entries) holds exactly what the device holds.
CleanEntriesMatchDevice ==
    \A b \in Cached \ Dirty : b \in Device /\ blockmap[b].data = disk[b]

Store == INSTANCE BlockStore WITH latest <- Latest, durable <- disk, safe <- file

\* The cache implements the block store: whatever is evicted, flushed or
\* refused, ReadBlock returns the last WriteBlock of that block (also one of
\* an earlier process), and what was written inside the device is on the
\* device once Detach or ~BufferCache has run, even if they fail.  A death
\* leaves of every block what was written last or what the device had, and
\* takes back at most one block that the device had accepted.
ImplementsBlockStore == Store!Spec
=============================================================================
