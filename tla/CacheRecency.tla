---------------------------- MODULE CacheRecency ----------------------------
(***************************************************************************)
(* The replacement policy of the buffer cache, judged from outside it: two *)
(* history variables record in which order the process touched the cached  *)
(* blocks, without looking at the lastaccessed times the cache keeps.      *)
(***************************************************************************)
EXTENDS BufferCache, Sequences

VARIABLES
    order,       \* the cached blocks, the least recently touched first
    fresh        \* those touched since simulated time last moved

hvars == <<vars, order, fresh>>

Accessed == IF reply'.op \in {"Read", "Write"} THEN {reply'.block} ELSE {}

Recorded ==
    LET kept(b) == b \in Cached' \ Accessed
        last == IF Accessed \cap Cached' = {} THEN <<>> ELSE <<reply'.block>>
    IN  /\ order' = SelectSeq(order, kept) \o last
        /\ fresh' = ((IF curtime' = curtime THEN fresh ELSE {}) \cup Accessed)
                       \cap Cached'

HInit == Init /\ order = <<>> /\ fresh = {}
HNext == Next /\ Recorded
HSpec == HInit /\ [][HNext]_hvars
-----------------------------------------------------------------------------
Dropped == Cached \ Cached'

\* A read or a write made room by dropping a block.
MadeRoom == reply'.op \in {"Read", "Write"} /\ Dropped # {}

\* "LRU block cache" (buffercache.h:21): the block dropped to make room is
\* the one touched longest ago.
DropsLeastRecentlyUsed ==
    [][MadeRoom => Dropped = {Head(order)}]_hvars

\* What is left of LRU when time stands still between transfers: a block
\* touched since the last transfer is dropped only when every cached block
\* has been touched since then.
KeepsFreshBlocks ==
    [][MadeRoom /\ Dropped \cap fresh # {} => Cached \subseteq fresh]_hvars

\* The cache holds at most cachesize blocks, and one when cachesize is 0,
\* as long as no block past the end of the device has been written: once
\* such a block is the oldest entry, CheckDeleteOldest never drops anything
\* again and the cache grows with every miss.
WithinCacheSize ==
    LET Larger(m, n) == IF m < n THEN n ELSE m
    IN  Cached \subseteq Device => Cardinality(Cached) <= Larger(cachesize, 1)
=============================================================================
