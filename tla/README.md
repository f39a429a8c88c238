# A TLA+ verification of the EECS 339 projects

The repository holds three course projects: `btree_lab`, a C++ B-tree index over
a simulated disk with a buffer cache; `rwb`, the "Red, White and Blue" web
application (a Perl CGI program over an SQL database, and a JavaScript map
client); and `fec`, the scripts that load and geocode the election data `rwb`
shows. This directory holds TLA+ models of their core logic, the TLC
configurations that check them, and TLAPS proofs about them.

Run inside this directory: `tlc -config X.cfg M` for a run of the table below,
`tlapm M.tla` for the proofs of a module.

## 1. Inventory

### btree_lab (C++)

The layers call downwards only, one call at a time; there are no threads and no
callbacks. What makes the code hard is not interleaving but *long sequences of
legal calls*, *partial failure* (most callers ignore error codes), *the end of a
process* (every command-line tool is a process of its own, and destructors do the
writing) and *unsigned arithmetic at its edges*.

| component | state | operations | what must hold |
|---|---|---|---|
| `DiskSystem` (disksystem.cc) | the data, config and bitmap files; geometry; head position | constructor with and without creation, `Read`, `Write`, `NotifyAllocateBlocks`, `NotifyDeallocateBlocks`, `IsBlockAllocated`, destructor | transfers stay inside the device; the bitmap says what is allocated, also in the next process |
| `BufferCache` (buffercache.cc) | `blockmap` of dirty and clean blocks with access times, `curtime` | `Attach`, `Detach`, `ReadBlock`, `WriteBlock`, `FlushBlock`, destructor; `CheckDeleteOldest` inside every miss | a read returns the last write; nothing inside the device is lost; the size and the replacement order |
| `BTreeIndex`, space (btree.cc) | the superblock in memory, the free list threaded through the blocks | `Attach` with and without creation, `AllocateNode`, `DeallocateNode`, `Detach` | a block is never both free and in use; the list is never lost, cyclic or stale |
| `BTreeIndex`, keys (btree.cc, btree_ds.cc) | the tree of nodes | `Lookup`, `Insert`, `Display`; `Update`, `Delete`, `SanityCheck` are stubs | lookup agrees with a map; node slots stay inside the block |
| tools and `sim` | one process each | construct, attach, one or more operations, detach | the layers are opened and closed in the right order |
| test harness (Perl) | none | generate a sequence, run a hash table on it, compare transcripts | - |

`BTreeIndex::Insert` in this commit does not compile; `Update`, `Delete` and
`SanityCheck` return `ERROR_UNIMPL`.

### rwb (Perl, SQL, JavaScript)

`rwb.pl` runs once for every HTTP request: it takes a name from a cookie, logs in or out,
and performs one action (`base`, `near`, `invite-user`, `add-user`, `register-user`,
`delete-user`, `add-perm-user`, `revoke-perm-user`). Its state is the database
(`rwb_users`, `rwb_permissions`, `rwb_opinions`, `rwb_cs_ind_to_geo`); every SQL
statement opens its own connection and commits by itself, so requests interleave
between statements. `rwb.js` keeps the map, its markers and the checkboxes, and
sends an asynchronous request for every map movement. What must hold: an action is
performed only by a user who may; referential integrity survives deletions; the
map shows the view it is at.

### fec (SQL, Perl)

Table definitions, bulk-load control files and `geocode.pl`, which empties its
target table and refills it row by row. What must hold: a failure is noticed, not
left as a partial table that looks complete.

## 2. Plan

In order of importance. All but the last are built.

| | modules | what they say | proofs |
|---|---|---|---|
| 1 | `BlockStore` <- `BufferCache` <- `CacheRecency` | the cache is a store of blocks; how it replaces them | `BufferCacheProofs`, `CacheRecencyProofs` |
| 2 | `BlockPool` <- `BTreeSpace` (over what `BlockStore` promises) | the index is a pool of blocks | `BTreeSpaceProofs` |
| 3 | `RwbUsers` | referrals, permissions and requests that interleave | `RwbUsersProofs` |
| 4 | `RwbMap` | the map, its boxes and asynchronous answers | `RwbMapProofs` |
| 5 | `BlockFile` <- `DiskSystem` | the data file is bytes that keep what was written; the three files of a disk across processes that may die anywhere | `DiskSystemProofs` |
| 6 | `NodeArrays` <- `NodeLayout` | a node in the bytes of its block is three arrays | `NodeLayoutProofs` |
| 7 | `BTreeTools` (over what `BlockStore` promises) | searching and listing trees; the tools and `sim` | `BTreeToolsProofs` |
| 8 | `Geocode` | empty and refill a table with autocommit, failing anywhere | still to come, if ever |

The modules of the lab are joined by promises, not by one product of their states:
`BTreeSpace` and `BTreeTools` read and write blocks as `BlockStore` says, which
`BufferCache` is proved to implement; the cache in turn reads and writes a device that
behaves as `BlockFile` says, which `DiskSystem` is proved to implement; `BTreeTools`
reads nodes as `NodeArrays` says, which `NodeLayout` implements.

## 3. The modules and the code

**`BufferCache`** models `buffercache.cc` over the part of `disksystem.cc` it uses.
`blockmap` is the code's map; a block without an entry is `NotCached`. One action is
one call: `ReadHit`/`ReadMiss` and `WriteHit`/`WriteMiss` are the two branches of
`ReadBlock` and `WriteBlock`, each with the `CheckDeleteOldest` inside it (`Evicted`,
`TimeEvicted`, `Entered`); `FlushBlock`, `Detach`, `Open` (constructor and `Attach`)
and `Close` (destructor). `Kill` is a death at any moment, also half way through
`Detach`; `file` is what it would leave of the blocks the device has accepted, which
differs from `disk` in at most the block that stdio still buffers (`FileAfter`). Block
contents are opaque values. Simulated time is kept
only as the number of transfers, because it only orders accesses: a transfer takes a
positive time, a hit and a refused request take none.

**`BlockStore`** is the same interface without a cache: `latest` is what a read
returns, `durable` what the device has accepted and a process that ends well leaves,
`safe` what of it even a death leaves: all but one block of the last transfer
(`BecomesSafe`). The refinement
mapping is `latest <- Latest` (the cached copy, else the device's), `durable <- disk`
and `safe <- file`.

**`CacheRecency`** adds two history variables, the order in which cached blocks were
touched and those touched since time last moved, to judge replacement without the
times the code keeps.

**`BTreeSpace`** models the free list of `btree.cc`. `node` is what
`BTreeNode::Unserialize` finds in a block; of a node the type and the free-list link
are kept. `AttachCreate` and `Attach` are the two branches of `BTreeIndex::Attach`,
`AllocateNode`, `DeallocateNode` and `Detach` those functions, `WriteNode` the caller
that serializes its new node, and `Exit` the end of the process with its destructors.
An assert that fails is `Abort`, after which the process takes no step. A link that
the code leaves uninitialized is any block number. What `node` does across processes
is what `BlockStore` promises and `BufferCache` implements, so the cache itself is
left out. Nothing in the source calls `DeallocateNode` yet; it is given any block but the
superblock and the root, which nothing removes. Only a node of the tree passes its assert
(`InTree`): a block that is free, or was handed out and not yet written, or never held a
node, aborts the process.

**`BlockPool`** is a set of free blocks. The mapping is `free <- Free`, where `Free` is
the least set that holds the head of the stored list and the link of each member.

**`RwbUsers`** models the user administration of `rwb.pl` over the constraints of
`rwb.sql`. `referer` is the table `rwb_users`, `permitted` is `rwb_permissions`. Every
HTTP request is a process that takes its user from the cookie (`Begin`), as the client
sends it: the password in it is compared with the database when a user logs in and never
again, so a request may carry any name, whoever sent it and whether or not there is such a
user. As the cookie is split at its first slash, a name that has one is never the name of
a request (`Callers` are those that can be); it can be added and deleted like any other.
Logging in and out change no table and are left out. The request asks `UserCan` once or
twice (`CheckAdd`, `CheckManage`) and runs one statement (`UserAdd`, `UserDel`,
`GiveUserPerm`, `RevokeUserPerm`, or `RunFails`). `ExecSQL` opens a
connection for each statement, and it commits by itself: so one statement is one
action, and other requests run in between. `able` is a history variable: the requests
whose user was, at some moment of the request, allowed what it asks for: the properties
say what is done in whose name, and never who did it, which nothing in the program knows.
Passwords and email addresses are abstracted to the choice that `UserAdd` succeeds or
fails.

**`RwbMap`** models `rwb.js` and the `near` action of `rwb.pl`. A request carries the
view and the boxes of the moment it was sent; `NewData` reads the boxes of the moment
it is answered. A movement fires up to three events, one for each listener `Start` registers
(`Move`). Until the map has its first bounds, the handler throws (`ViewShiftThrows`). A
category whose query fails has no division in the answer, and a
checked category without a division makes `UpdateMapById` throw, after the markers were
cleared and the categories before it were drawn; the banner then keeps saying
"Updating". A row is abstracted to the view and cycle it belongs to. `Blank` is the
marker drawn for the empty line after the last row. With two cycles checked, the query
compares the cycle with one string that joins both, and finds nothing (`Rows`); what the
boxes ask for (`Wanted`) is stated without it. The handler
bodies are atomic, since a browser runs one at a time.

**`DiskSystem`** models `disksystem.cc` with the tools that make and delete disks.
`config`, `bitmap` and `data` are the three files; `cfg`, `bits`, `last_track`,
`last_sector` the members of the object; `tail` is the block that stdio still buffers;
`pc` is how far the process has come. `SIZE_T` has `Word` values and wraps. The data file
is its bytes: a block has those from its address on (`Span`), and where addresses wrap the
blocks of a disk may overlap in part. What a request writes is the same in all its bytes.
`MakeDisk`, `WriteConfig`, `CreateBitmap` and `OpenData` are the creating constructor, one
step for each change of a file; `Open` and `OpenFails` the other one; `Read`, `Write` and
`Refused` are transfers with their bounds check and `ModelAccess`; `TruncateConfig`,
`WriteConfig`, `CloseBitmap` and `CloseData` the destructor, which a tool that could not
open its disk comes to as well; `RemoveData`, `RemoveBitmap` and `RemoveConfig`
`deletedisk`. `Kill` may come between any two of them, and leaves any beginning of what
stdio has yet to pass on. What `%lf` does to a tiny latency and what a line buffer of 80
characters does to a long stem are modelled by what they do to the values read back
(`Written`, `Parsed`, and `Echo` for a file that is empty). Four history variables say
which disagreements a death has caused: `owned`, `doubtful`, `hurt`, `wrapped`.

**`BlockFile`** is the data file as those above think of it: `latest` is what a read finds
in each byte, `durable` what would be there after a death. `Write` changes the bytes it is
about to one value, and all but those of one block, `blocksize` in a row, are durable at
once; `Settle`, a read or the end of the process, makes the rest so; `Die` may take them
back, or some of them. `Remove` needs a file that nobody has open. The mapping is
`latest <- Latest` (the file with stdio's buffer over it) and `durable <- data`.

**`NodeLayout`** models `btree_ds.cc`: `info` is the header and `data` the bytes behind
it, functions from offsets to bytes. `Slots`, `Stride` and `Address` are
`GetNumSlotsAs*` and `Resolve*`, with every sum and product a `SIZE_T` that wraps: the
bytes of a block without its header, the length of an entry, and the offset of a field.
`Roomy` says when none of these wraps as long as the slots last; `New`, `Get`, `Set`,
`GetKeyVal`, `SetKeyVal`, `Serialize` and `Unserialize` are the functions of the name,
with the assert or `ERROR_NOMEM` of each. `SetNumKeys` is what a caller may do to the
counter: one more while there is an empty slot, or half of it. `answer` is what the last
call returned; `strayed` records an access outside of the bytes it was meant for.
**`NodeArrays`** is the node its callers have in mind: three arrays, of keys, pointers
and values. The mapping reads the arrays off the bytes (`Arrays`).

**`BTreeTools`** models `LookupOrUpdateInternal` and `DisplayInternal` and the processes
that call them: each `btree_` tool (construct, attach, one call, detach) and `sim`, where
INIT, LOOKUP, DISPLAY, UPDATE, DELETE and DEINIT come in any order. DEINIT writes every
block and leaves the disk system open, so that a later death may still take one of them
back. One step visits one node. `todo` stands for the stack of the recursion. Nodes have
the fields `NodeArrays` gives them. `mem` and `disk` are `BlockStore`'s two views, and a process that dies leaves
any of its blocks on the disk. As `Insert` does not compile, trees with keys are those of
`Trees`: any that satisfy `SearchTree`, which says of each node the keys in the leaves
under it (`below`). An argument is the interval of keys that `memcmp` cannot tell it
from: one key if it has the right length.

Each `as` operator of PROJECT.json's mutants stands beside the definition it would
replace: it is the bug its comment names, and the property it belongs to fails with it.

## 4. The runs

| run | instance | shows |
|---|---|---|
| `cache_store` | 2 blocks and 1 past the end, 2 values, cache sizes 0-2, 4 transfers a process | `ImplementsBlockStore`: the cache is invisible but for when a write becomes durable, and a death takes back at most one block the device had accepted; `CleanEntriesMatchDevice`: what is dropped unwritten is on the device |
| `cache_replacement` | 3 blocks and 1 past the end, sizes 0-3, 5 transfers | `WithinCacheSize` while no stray block is cached; `KeepsFreshBlocks`, what is left of LRU |
| `cache_lru` (violation) | 3 blocks | the block dropped is not the least recently used |
| `space_pool` | 5 blocks | the free list is sound, blocks in use are marked, the index is a `BlockPool`, and only blocks of the tree come back to the list (`OnlyTreeBlocksComeBack`) |
| `space_tiny_disk` | 2 blocks | even with the list off the device, no block of the tree is handed out (`TreeBlocksNeverHandedOut`) |
| `disk_files` | words of 3 values, files of 6 bytes, six disks of 0-2 blocks, transfers of 0-2 blocks, notifications of block 1 | disks stay openable, the bitmap remembers, the arm's arithmetic does not wrap with one head, blocks leave each other and the rest of the file alone and hold what was written last, the data file is a `BlockFile` |
| `node_layout` | words of 5 values, headers and pointers of 1 byte, seven sizes of blocks, keys and values, at most 2 keys, bits for bytes | no access leaves a node with room, and such a node is a `NodeArrays` |
| `btree_tools` | 8 blocks; no index, a tree of two levels or one of three, 4 keys, 6 exact arguments and 2 of another length | `Lookup` and `Display` are right in a whole index, never make up a value, and end; no call on a whole index aborts (`WholeIndexesNeverAbort`) |
| `users_pass` | `root`, `anon`, one more name and one with a slash, 2 permissions, 2 requests at a time, 4 in all | referrals lead to root, permissions belong to users, only requests in the name of a manager manage, and only what they ask for, and who is added is added in the name of its referer (`ReferersMayAdd`) |
| `users_referer` (violation) | `root`, `anon` and one more name, 1 request | registering without a cookie makes `anon` a referer |
| `map_pass` | 2 views, 2 cycles, 2 categories, 3 acts of the user, at most 6 requests | one answer at a time is drawn, a quiet page that says Ready after its last answer is complete unless two cycles are checked, queries end, and no handler makes more work than it does (`PageComesToRest`) |
| `map_overtaken` (violation) | the same with 1 cycle | an overtaken answer redraws the view before |

### Why the bounds are enough

- Two blocks of which one is evicted, written back or refused, one block past the end
  and cache sizes below, at and above the number of blocks reach every branch of
  `buffercache.cc`. Replacement needs three blocks to have a choice. Four transfers
  are a miss that evicts a dirty block (two) and another one. `MaxTime` stops misses,
  not processes: the number of processes and calls is not bounded.
- Five blocks give a free list of three, so that there is a head, a middle and an end
  to lose, and any order of giving back. Calls and processes are not bounded. A disk of
  two blocks is the one that `Attach` mishandles; below that, block 1 does not exist.
- In `disk_files` a word of three values makes sums, products and addresses wrap on disks
  of two blocks, whose bytes reach past the largest address. The six disks are: one whose
  blocks do not fit and overlap in part where a request wraps, and that wait for each
  other; one whose blocks do fit, on two tracks; one without blocks; one with two heads, a
  product that wraps and a latency that does not survive the file; two whose stem does
  not survive. Transfers of two blocks are the shortest with a first and a last block.
  The number of processes, deaths, disks made and deleted is not bounded.
- In `node_layout` the seven sizes are one slot of each kind; two keys in a leaf; two
  values in a leaf, and three pointers; keys and values of no bytes; a block without room
  for a pointer; one without room for the header; and a key and a value whose lengths add
  up to six, which is one in words of five, so that a leaf has a slot that is shorter
  than its key. Two keys are the fewest that can overlap. `Memory` is less than
  what a size that wraps around asks for. Calls are not bounded. Deadlock is not
  checked, since a process whose assert failed takes no step.
- In `btree_tools` a tree of two levels has a leaf with two entries; one of three levels
  has a search that turns left after right. Arguments below, at, between and above the
  keys, and two that are the beginning of others. Processes, commands and deaths are not
  bounded, so that a tree half overwritten by a new one, with links that lead back up, is
  among the states.
- In `users_pass` two requests interleave at every statement. Four requests are enough to
  register, delete and register a name again while a request in that name is under way,
  which is how a user could come to refer to itself, and to give a permission to a name
  that is being deleted. The bound stops a behaviour, so deadlock is not checked; the
  theorems below have no such bound in them.
- In `map_pass` three acts are enough to check a category, check a cycle and move the
  map while earlier requests are under way, with up to three events for a movement. Six
  requests (`MaxRequests`) let one movement fire all three and the next two of them, after
  the request the page starts with. The user then stops, which is no deadlock. Two of the three categories suffice for one
  drawn before another one throws; the third is treated like the second.
- `users_pass` is checked up to a permutation of the two processes, which nothing tells
  apart. The other runs use no symmetry.
- Deadlock is checked in the cache, disk and tools runs. In `BTreeSpace` a failed assert
  ends the process for good, since what a process leaves behind when it aborts is not
  modelled there; in `BTreeTools` it is a death like any other.

### Fairness

The modules of the lab are sequential programs driven by their user, who may stop at
any time: their properties are safety properties, and `RwbUsers` has only such, too.
`BTreeTools` assumes weak fairness of the steps inside a call (`LookupVisit`,
`DisplayVisit`, `DisplayEnds`): a process that is not killed goes on with the call it
has begun. Nothing is assumed of the user, who need not make a call. `RwbMap` assumes
weak fairness of the callbacks a browser owes the page (`Callback`) and of the end of
each request (`Over`): a browser runs queued events and ends every request by an answer
or an error. Nothing is assumed of the user, of the order of answers, or of which of
the two ends a request has.

## 5. The proofs

All proofs are for every value of the constants that the named assumptions allow, and
without the bounds above, except for those that are parameters (`MaxTime`, `MaxActs`,
`MaxKeys`, `MaxCount`, `MaxRequests`), for which they hold whatever the bound.

- **`BufferCacheProofs`** (from `CacheAssumption`, `FrameAssumption`).
  The inductive invariant is `TypeOK /\ CleanEntriesMatchDevice`; the second part is
  needed because dropping a clean entry would otherwise change what a read returns.
  `CacheImplementsStore` maps each action to the store's. Deaths rest on two lemmas: of
  what a transfer hands to the device all but its greatest block is safe
  (`WriteBackSafe`), and a death in the middle of `Detach` has handed over the blocks up to
  some number (`StoreDie`).
- **`CacheRecencyProofs`** (from the same). `CacheKeepsItsSize` needs that a full cache
  has an oldest entry: `OldestExists` takes the least of the times and then the least of
  the numbers, and `CleanEntriesMatchDevice` says that what may be dropped is on the
  device. `FreshBlocksStay` rests on `Ages`: an entry has the present time if and only if
  it was touched since time last moved.
- **`BTreeSpaceProofs`** (from `SpaceAssumption`, `NodeAssumption`; the theorems about the
  free list and the pool also from the hypothesis `BigEnough`, at least three blocks: on
  two, `Attach` starts the list past the end, and `space_tiny_disk` shows what is left).
  On larger disks the properties lean on one another: that the head of the list is a free node needs
  `SuperblockStored`, that giving a block back does not close a cycle needs
  `FreeNotInUse`, and both need to know where superblock and root are (`LayoutOK`). As
  `Free` is a least set, no induction over the list is needed: a set closed under the
  links bounds `Free` from above, and a closed set cut down to `Free` stays closed. For
  the list of a fresh index, well-founded induction on block numbers finds the least
  block that would be missing. `BlocksComeBackFromTheTree` follows from what each
  operation adds to the list. A second invariant, `AnyDisk`, needs no list: it says of
  each block what its type and its use say about each other and about the bitmap, and
  that what memory has of block 0 is on the disk. It holds on disks of one block and of
  two as well, and gives `SpaceTypeCorrect`, `DetachIsOptional`, `UsedIsMarked` and
  `TreeIsNeverHandedOut` without `BigEnough`, links read from the stack included.
- **`DiskSystemProofs`** (from `DiskAssumption`, `NamesAssumption`). Types come first; then
  an invariant that says, for each value of `pc`, which files exist, what is in them and
  how the object's bits relate to the file's, without which a property that speaks of an
  idle disk says nothing about the steps before it is idle. `NoRotationWraps` is
  arithmetic: with one head a sector is smaller than a track. `WindowHolds` and
  `BlocksStayApart` are action properties; the latter needs that the bytes of different
  blocks differ while the device fits below the largest address (`SpansApart`), and a
  request that has not wrapped. `DiskImplementsFile` needs neither, as `BlockFile` speaks
  of bytes: those of the last block of a request are in stdio's buffer (`RequestedLast`),
  what it had there before was safe, and of what is in it a death leaves a beginning
  (`Reached`).
- **`NodeLayoutProofs`** (from `LayoutAssumption`, `NoNodeAssumption`). Where a node
  is `Roomy`, the length of an entry does not wrap (`StrideFlat`), and as the number of
  entries stays within `Slots`, neither does an `Address` (`AddressFlat`, where the
  division of the one meets the multiplication of the other), so that `Address` plus
  `Length` stays within the bytes. That no two fields overlap, that a field is read as it
  was written, and that all others stay, are lemmas about `Put` and `Item`, and
  `NodesAreArrays` maps each call to the arrays'. Without `Roomy` the types still hold and
  nothing else is claimed: the run has sizes for which it would be false.
- **`BTreeToolsProofs`** (from `ToolsAssumption`, `TreesAssumption`). The inductive
  invariant joins the types, the shape of every node (`Nodes`), the whole tree while it
  is whole (`Whole`), what a call has on its stack (`Visits`), `NothingSkipped` and what a
  listing has shown against what is still to be shown (`Listing`). `LookupsAreRight`
  includes the value: it is one that a leaf in memory has under the key, and
  `WholeIndexesDoNotAbort` that every block a call comes to is a node. As `below` labels each
  node with its keys, one step of a search needs the labels of two nodes only, and no
  induction on the height of the tree.
- **`RwbUsersProofs`** (from `UsersAssumption`, `RequestAssumption`).
  `ReferralsLeadToRoot` is inductive with `TypeOK`: a new row refers to an older one or
  is root, and the row of a referer cannot go. `OnlyManagersManage` rests on
  `RunnersAreAble /\ AddersAsk`: a request at its statement was sent there by a check
  that saw a permission which allows its act, and ends with the change it asks for
  (`Ends`). `EveryRefererMayAdd` follows from the same, and from the key of the table: the
  row of a user is never written over. None of this says who sent a request.
- **`RwbMapProofs`** (from `MapAssumption`). `ReadyMeansComplete` speaks of a page at rest,
  but what it promises is decided when the last request is sent. The invariant follows
  that request, under way (`LastRequestKnows`) and as the answer shown
  (`LastAnswerKnows`, `ReadyIsDrawn`); `WereSent` keeps it apart from older ones. It is
  claimed for at most one checked cycle, for which `Rows` is what was asked for. Two
  theorems are the part of `QueriesEnd` that needs no fairness: `QueryingIsWaiting`, that
  a page which says "Querying" waits for something, and `PagesComeToRest`, that every
  handler leaves less to do (`Work`) and a movement adds six steps at most, for which
  requests have to be finitely many.

Every invariant, action property and refinement that a passing run checks is proved.
Only model-checked: the liveness properties `QueriesEnd` and `CallsEnd`, which like
everything under fairness, and `ENABLED`, are beyond the prover. The prover cannot do induction over data with an operator as
parameter either: that `below` is what a recursion through the tree would compute is
part of `SearchTree`, not a theorem.

## 6. Disagreements between code and documentation

Each violation run is one, and PROJECT.json quotes the line. The cache is called LRU,
but hits do not advance the time that orders the entries. A user is said to be validated
by somebody other than the anonymous user, and `register-user` takes whoever asks. The
map is said to be redrawn when it moves, and an answer that is overtaken redraws the view
before.

Met while reading, and not the subject of a run:

- `WriteBlock` promises an error for a block that does not exist, and does not look; the
  write is lost when the process ends. The models contain this: it is the stray block of
  `BlockStore` and the reason for the condition in `WithinCacheSize`.
- `AllocateNode` promises NOSPACE, and on a disk of two blocks hands out a third; the
  model contains this (`space_tiny_disk` shows that no block of the tree goes with it).
- The bitmap is said to be kept up to date, and re-creating an index leaves the bits of
  the old one, which is why `UsedBlocksMarked` is an implication.
- A disk with a latency below half a millionth, or a long stem, can be made and never
  opened; `UnhurtDisksOpen` excludes the two.
- `Attach` promises ERROR_NOTANINDEX for a block that is no superblock
  (`btree.h:94-95`), and has no such answer: on a disk without an index the assert of
  `Unserialize` (`btree_ds.cc:125-132`) aborts the process. `BTreeSpace` and `BTreeTools`
  contain this, and claim nothing of such disks: `WholeIndexesNeverAbort` is about those
  that hold an index.
- The page offers a box for every cycle, and with two of them checked shows the rows of
  none (`rwb.js:204`: the checked cycles go into the query as one string).
  `ReadyMeansComplete` excludes it.
- `rwb.sql:199` says that an added user can do all but manage users, and `UserAdd` gives
  no permissions; `Display` answers NOERROR whatever happened below it (`btree.cc:717`).

## 7. What is not modelled

- *`BTreeIndex::Insert`*, sim's INSERT and `btree_insert`: `Insert` does not compile in
  this commit (`btree.cc:435`, `448`, `489`, `511`), so there is no behaviour to be
  faithful to. `Update`, `Delete` and `SanityCheck` are stubs, and modelled as what they
  return. What would make a tree is therefore a parameter (`Trees`).
- *Use after DEINIT and before INIT*: sim goes on with the deleted index, or with a
  pointer that was never set (`sim.cc:43`). After DEINIT the model has two outcomes, the
  memory as it was or a death, and before INIT only a death; any other is left out.
- *Disks*: an error of the file below a transfer (the code answers IMPLBUG), partitions
  with an offset other than 0, which `makedisk` cannot make, the time of a transfer but
  for the rotation in it, access counters, `IsBlockAllocated` and `Print`.
- *`PrefetchBlock`* is an unimplemented stub. `WriteBlock` is called with whole blocks
  only, and its missing check of their size is left out.
- *Copies and memory*: copy constructors and assignments, which nothing that runs relies
  on, and leaks.
- *Deaths in `BTreeSpace`*: processes end there with their destructors, and what the next
  one finds after an assert has failed is left out. What is proved of the free list is
  therefore silent about deaths. In `BufferCache`, `DiskSystem` and `BTreeTools` a process
  may die at any moment.
- *Arguments and printing* of the tools.
- *Who sends a request* to `rwb.pl`, and logging in and out: see `RwbUsers` above.
- *Forms, listings, mail, opinions* of `rwb.pl`: they change nothing, or are stubs.
- *The test harness* compares transcripts with those of a hash table; with INSERT missing
  the trees `sim` makes stay empty, and there is nothing to compare.
- *fec* holds table definitions and bulk loads; `geocode.pl` is one sequential copy whose
  failure leaves a partial table, with no state but the row it is at.

Some hazards that PROJECT.json lists are in the models, and no property fails with them:
there the code does go wrong, and the property beside it is stated so as to leave the case
out. They are a cache that grows beyond its size after a refused write-back
(`WithinCacheSize` wants every cached block on the device); marks of an old index in the
bitmap (`UsedBlocksMarked` is an implication); a rotation that wraps on disks of several
heads (`WaitsLessThanARevolution`); requests that wrap (`DataOutsideWindowUntouched` and
`BlocksAreIndependent`, but not `ImplementsBlockFile`); latencies and stems that do not
survive the file, and a death while a file is rewritten (`UnhurtDisksOpen`); bits made up
from memory (`AllocationsRemembered`); blocks without room for the header, and entries
whose length wraps (`Roomy`); and two cycles checked at once (`ReadyMeansComplete`).
