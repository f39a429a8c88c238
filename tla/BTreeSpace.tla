----------------------------- MODULE BTreeSpace -----------------------------
(***************************************************************************)
(* How a BTreeIndex (btree_lab/btree.cc) lays its index out on the disk    *)
(* and keeps track of the free blocks: Attach with and without creation,   *)
(* AllocateNode, DeallocateNode, Detach, and the process around them.      *)
(*                                                                         *)
(* `node' is what BTreeNode::Unserialize finds in a block through the      *)
(* buffer cache.  BlockStore says what that is: the node last written,     *)
(* also in an earlier process; a write past the end of the device is       *)
(* accepted and forgotten when the process ends.  Each call runs to its    *)
(* end before the next (the program is sequential), so it is one action.   *)
(* Of a node only the type and the free-list link are kept: every node is  *)
(* written with the same sizes and rootnode 1.                             *)
(***************************************************************************)
EXTENDS Integers, FiniteSets

CONSTANTS
    NumBlocks,   \* the device holds blocks 0 .. NumBlocks-1
    Blocks,      \* the block numbers a link may hold
    Blank,       \* never written: zeroes on the device, nothing past its end
    NoIndex,     \* the process has no attached BTreeIndex
    None         \* no block

Device == 0 .. NumBlocks - 1

ASSUME SpaceAssumption ==
    /\ NumBlocks \in Nat \ {0}
    /\ Blocks \subseteq Nat
    /\ Device \cup {0, 1, 2} \subseteq Blocks
    /\ None \notin Blocks

VARIABLES
    node,        \* [Blocks -> node or Blank]
    bitmap,      \* DiskSystem's allocation bits: [Device -> BOOLEAN]
    superblock,  \* the copy the attached BTreeIndex holds, or NoIndex
    pending,     \* blocks AllocateNode returned and the caller has not written
    aborted,     \* an assert has ended the process
    answer       \* what AllocateNode returned, if it was the last call

vars == <<node, bitmap, superblock, pending, aborted, answer>>

Link(type, next) == [nodetype |-> type, freelist |-> next]

TreeTypes == {"ROOT", "INTERIOR", "LEAF"}

Node == [nodetype : {"UNALLOCATED", "SUPERBLOCK"} \cup TreeTypes,
         freelist : Blocks]

ASSUME NodeAssumption == Blank \notin Node /\ NoIndex \notin Node

Quiet == answer' = [rc |-> "NONE", block |-> None]

Attached == superblock # NoIndex /\ ~aborted

\* NotifyAllocateBlock and NotifyDeallocateBlock: a block the device does not
\* have is refused, and no caller looks at the answer.  A bug would not tell.
MarkedNever(B) == bitmap
Marked(B)   == [b \in Device |-> b \in B \/ bitmap[b]]
Unmarked(b) == [c \in Device |-> c # b /\ bitmap[c]]

\* superblock.Serialize, into block superblock_index = 0; or forgotten.
NotSaved(super) == node
Saved(super) == [node EXCEPT ![0] = super]

\* Does the block hold a node at all, as the assert in Unserialize on its
\* blocksize demands; and without that assert.
FormattedUnasserted(b) == TRUE
Formatted(b) == node[b] # Blank

\* A block past the end can be read only while the cache still holds it.
Readable(b) == b \in Device \/ node[b] # Blank

\* AllocateNode asserts that the node is free; a build without asserts.
FreeNodeUnasserted(b) == TRUE
FreeNode(b) == node[b].nodetype = "UNALLOCATED"

\* DeallocateNode asserts that the node is not free.  Its local node says
\* UNALLOCATED unless Unserialize, with an assert of its own on the blocksize,
\* has read another type; a build without these asserts.
InTreeUnasserted(b) == TRUE
InTree(b) == node[b] # Blank /\ node[b].nodetype # "UNALLOCATED"

\* What DeallocateNode writes; a bug would leave the type of the tree node.
FreedTyped(b) == [node[b] EXCEPT !.freelist = superblock.freelist]
Freed(b) == Link("UNALLOCATED", superblock.freelist)

\* Creation links each free block to the next, the last one to 0; the list
\* could run off the device, or end one block early.
FreshLinkUnended(b) == b + 1
FreshLinkShort(b)   == IF b + 2 >= NumBlocks THEN 0 ELSE b + 1
FreshLink(b)        == IF b + 1 = NumBlocks THEN 0 ELSE b + 1

\* An assert: abort runs no destructor, and this process does no more.
Abort ==
    /\ aborted' = TRUE
    /\ Quiet
    /\ UNCHANGED <<node, bitmap, superblock, pending>>
-----------------------------------------------------------------------------
Init ==
    /\ node = [b \in Blocks |-> Blank]
    /\ bitmap = [b \in Device |-> FALSE]
    /\ superblock = NoIndex
    /\ pending = {}
    /\ aborted = FALSE
    /\ answer = [rc |-> "NONE", block |-> None]

\* What creation writes: the superblock, the root, and the rest as free list.
\* The superblock links to block 2 whether or not there is one.
FreshNode(b) ==
    CASE b = 0 -> Link("SUPERBLOCK", 2)
      [] b = 1 -> Link("ROOT", 2)
      [] b \in Device \ {0, 1} -> Link("UNALLOCATED", FreshLink(b))
      [] OTHER -> node[b]

\* Attach(0, true): btree_init, or INIT in sim, where an index that is
\* already attached is simply replaced.  Only blocks 0 and 1 are notified.
AttachCreate ==
    /\ ~aborted
    /\ node' = [b \in Blocks |-> FreshNode(b)]
    /\ bitmap' = Marked({0, 1})
    /\ superblock' = FreshNode(0)
    /\ pending' = {}
    /\ Quiet
    /\ UNCHANGED aborted

\* Attach(0, false): Unserialize asserts that the block has this blocksize.
Attach ==
    /\ ~aborted
    /\ superblock = NoIndex
    /\ IF Formatted(0)
       THEN /\ superblock' = node[0]
            /\ Quiet
            /\ UNCHANGED <<node, bitmap, pending, aborted>>
       ELSE Abort

\* The superblock moves on to `next' and n is handed to the caller.
HandOut(n, next) ==
    /\ superblock' = [superblock EXCEPT !.freelist = next]
    /\ node' = Saved(superblock')
    /\ bitmap' = Marked({n})
    /\ pending' = pending \cup {n}
    /\ answer' = [rc |-> "NOERROR", block |-> n]
    /\ UNCHANGED aborted

\* AllocateNode ignores the result of Unserialize: if the block cannot be
\* read, its local node still says UNALLOCATED and holds an uninitialized
\* link, so the superblock's next link is whatever was on the stack.
AllocateNode ==
    LET n == superblock.freelist
    IN  /\ Attached
        /\ \/ /\ n = 0
              /\ answer' = [rc |-> "NOSPACE", block |-> None]
              /\ UNCHANGED <<node, bitmap, superblock, pending, aborted>>
           \/ /\ n # 0 /\ ~Readable(n)
              /\ \E garbage \in Blocks : HandOut(n, garbage)
           \/ /\ n # 0 /\ Readable(n)
              /\ IF Formatted(n) /\ FreeNode(n)
                 THEN HandOut(n, node[n].freelist)
                 ELSE Abort

\* The caller serializes its new node into the block it was given.
WriteNode(n, type) ==
    /\ Attached
    /\ n \in pending
    /\ node' = [node EXCEPT ![n] = Link(type, 0)]
    /\ pending' = pending \ {n}
    /\ Quiet
    /\ UNCHANGED <<bitmap, superblock, aborted>>

\* The caller gives a block back, any but the superblock and the root, which
\* nothing removes.  A block of the tree goes to the front of the free list;
\* one that is free, or was handed out and not written yet, or never held a
\* node, trips an assert.
DeallocateNode(n) ==
    /\ Attached
    /\ n \notin {0, 1}
    /\ IF InTree(n)
       THEN /\ superblock' = [superblock EXCEPT !.freelist = n]
            /\ node' = [Saved(superblock') EXCEPT ![n] = Freed(n)]
            /\ bitmap' = Unmarked(n)
            /\ Quiet
            /\ UNCHANGED <<pending, aborted>>
       ELSE Abort

Detach ==
    /\ Attached
    /\ node' = Saved(superblock)
    /\ Quiet
    /\ UNCHANGED <<bitmap, superblock, pending, aborted>>

\* The process ends, with or without Detach: the cache and the bitmap are
\* written by their destructors, what the caller did not write is forgotten.
Exit ==
    /\ Attached
    /\ superblock' = NoIndex
    /\ node' = [b \in Blocks |-> IF b \in Device THEN node[b] ELSE Blank]
    /\ pending' = {}
    /\ Quiet
    /\ UNCHANGED <<bitmap, aborted>>

Next ==
    \/ AttachCreate \/ Attach \/ AllocateNode \/ Detach \/ Exit
    \/ \E n \in pending, type \in {"INTERIOR", "LEAF"} : WriteNode(n, type)
    \/ \E n \in Blocks : DeallocateNode(n)

Spec == Init /\ [][Next]_vars
-----------------------------------------------------------------------------
\* Every variable stays within what the code can store in it.
TypeOK ==
    /\ node \in [Blocks -> Node \cup {Blank}]
    /\ bitmap \in [Device -> BOOLEAN]
    /\ superblock \in Node \cup {NoIndex}
    /\ pending \subseteq Blocks
    /\ aborted \in BOOLEAN
    /\ answer \in [rc : {"NONE", "NOERROR", "NOSPACE"},
                   block : Blocks \cup {None}]

\* The head of the free list as it is stored, and the blocks it leads to:
\* the least set that holds the head and the link of each of its members.
Stored == IF node[0] = Blank THEN 0 ELSE node[0].freelist

ClosedUnderLinks(S) ==
    /\ Stored \in S \cup {0}
    /\ \A b \in S : node[b] # Blank => node[b].freelist \in S \cup {0}

Free == {b \in Blocks : \A S \in SUBSET Blocks : ClosedUnderLinks(S) => b \in S}

InUse == {b \in Blocks : node[b] # Blank /\ node[b].nodetype # "UNALLOCATED"}

\* AllocateNode can walk the free list to its end without tripping its
\* assert: every block on it is a free node of the device, and no block, the
\* head included, is linked to twice, so the walk cannot come back.
FreeListSound ==
    /\ \A b \in Free : /\ b \in Device \ {0, 1}
                       /\ node[b] # Blank
                       /\ node[b].nodetype = "UNALLOCATED"
                       /\ node[b].freelist # Stored
    /\ \A b, c \in Free :
            node[b].freelist = node[c].freelist /\ node[b].freelist # 0 => b = c

\* No block in the tree, or handed out, is ever on the free list as well.
FreeNotInUse == Free \cap (InUse \cup pending) = {}

\* Whatever the index uses, the disk's bitmap says is allocated.
UsedBlocksMarked ==
    \A b \in Device : b \in InUse \cup pending => bitmap[b]

\* What the process holds in memory is never ahead of what is stored, so a
\* process may end without Detach and the next one finds the same free list.
SuperblockStored == Attached => superblock = node[0]

PoolBlocks == Device \ {0, 1}
BlockPoolSpec == INSTANCE BlockPool WITH Pool <- PoolBlocks, free <- Free

\* The index is a block pool: AllocateNode never returns a block somebody
\* has, and NOSPACE only when no free block is left.
ImplementsBlockPool == BlockPoolSpec!Spec

\* Blocks come back to the free list from the tree only: a block that is free
\* already, or was handed out and not written, never gets onto it, because the
\* process that gives such a block back is aborted.  What a process took and
\* left unwritten is lost to every later one until an index is created anew.
OnlyTreeBlocksComeBack == [][AttachCreate \/ Free' \ Free \subseteq InUse]_vars

\* Even when the list has gone wrong (a disk too small for one), the assert
\* keeps AllocateNode from handing out a block that holds a node of the tree.
TreeBlocksNeverHandedOut ==
    [][answer'.rc = "NOERROR" => answer'.block \notin InUse]_vars
=============================================================================
