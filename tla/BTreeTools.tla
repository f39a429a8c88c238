----------------------------- MODULE BTreeTools -----------------------------
(***************************************************************************)
(* Searching and listing the tree (btree_lab/btree.cc), and the processes  *)
(* that do it: the btree_* tools, which make one call each, and sim, which *)
(* reads commands.  Insert does not compile in this commit, so a tree with *)
(* keys is one that an earlier build has left on the disk.                 *)
(*                                                                         *)
(* `mem' is what a process reads through the cache and `disk' what the     *)
(* next one will find; as BlockStore promises, a process that is killed    *)
(* leaves any of its blocks on the disk and the others as they were.       *)
(* A step visits one node, as one call of LookupOrUpdateInternal or        *)
(* DisplayInternal does.                                                   *)
(***************************************************************************)
EXTENDS Integers, Sequences

CONSTANTS
    NumBlocks,   \* the device holds blocks 0 .. NumBlocks-1
    Keys,        \* the keys a node may hold, in the order of memcmp
    Values,
    Trees,       \* the disks earlier builds have left: [node, below]
    Args,        \* what a key may be asked for with, see below
    Blank,       \* a block that was never written
    NoValue

Device == 0 .. NumBlocks - 1

TreeTypes == {"ROOT", "INTERIOR"}

Node == [nodetype : {"UNALLOCATED", "SUPERBLOCK", "LEAF"} \cup TreeTypes,
         rootnode : Device, key : Seq(Keys), ptr : Seq(Device), val : Seq(Values)]

\* `below' are the keys in the leaves under a node.  A key that equals the one
\* between two pointers is under the first of them.
SearchTree(t, below) ==
    \A b \in Device : t[b] # Blank =>
        /\ t[b].nodetype = "LEAF" =>
              /\ Len(t[b].val) = Len(t[b].key)
              /\ below[b] = {t[b].key[i] : i \in 1 .. Len(t[b].key)}
              /\ \A i, j \in 1 .. Len(t[b].key) : i < j => t[b].key[i] < t[b].key[j]
        /\ t[b].nodetype \in TreeTypes =>
              /\ Len(t[b].ptr) = Len(t[b].key) + 1
              /\ below[b] = IF t[b].key = <<>> THEN {}
                            ELSE UNION {below[t[b].ptr[i]] : i \in 1 .. Len(t[b].ptr)}
              /\ t[b].key # <<>> => \A i \in 1 .. Len(t[b].ptr) :
                    t[t[b].ptr[i]].nodetype \in TreeTypes \cup {"LEAF"}
              /\ \A i \in 1 .. Len(t[b].key), j \in 1 .. Len(t[b].ptr) :
                    \A k \in below[t[b].ptr[j]] :
                        IF j <= i THEN k <= t[b].key[i] ELSE t[b].key[i] < k

\* The key given to a call may be shorter or longer than those of the index.
\* memcmp then reads what lies behind the shorter one: [lo, hi] are the keys
\* it begins or is begun by, and a comparison with one of them ends anyhow.
ArgType == [lo : Int, hi : Int, exact : BOOLEAN]

ASSUME ToolsAssumption ==
    /\ NumBlocks \in Nat /\ NumBlocks > 1
    /\ Keys \subseteq Int
    /\ Args # {} /\ Args \subseteq ArgType
    /\ \A a \in Args : a.exact => a.lo = a.hi
    /\ Blank \notin Node
    /\ NoValue \notin Values

ASSUME TreesAssumption ==
    \A t \in Trees :
        /\ t.node \in [Device -> Node]
        /\ t.below \in [Device -> SUBSET Keys]
        /\ t.node[0].nodetype = "SUPERBLOCK"
        /\ t.node[t.node[0].rootnode].nodetype \in TreeTypes
        /\ SearchTree(t.node, t.below)

VARIABLES
    disk, mem,   \* [Device -> Node or Blank]
    tool,        \* the process: "none", "sim" or what a btree_ tool does
    index,       \* its BTreeIndex: "none", "attached", "deleted" or "done"
    rootnode,    \* of the superblock it has read
    call,        \* the call under way: "none", "LOOKUP" or "DISPLAY"
    arg,         \* the key it was given
    todo,        \* the nodes it has still to visit, in this order
    shown,       \* the keys it has printed
    answer,      \* the last call: [op, arg, rc, value, shown]
    below,       \* history: the keys under each node of the index in mem
    intact,      \* history: mem holds one whole index
    stored       \* history: the pairs ever found in a leaf of the disk

process == <<tool, index, rootnode>>
search  == <<call, arg, todo, shown>>
history == <<below, intact, stored>>
vars == <<disk, mem, process, search, answer, history>>

Tools == {"init", "lookup", "display", "stub", "sim"}

SomeArg == CHOOSE a \in Args : TRUE

Pairs(t) ==
    UNION {{<<t[b].key[i], t[b].val[i]>> : i \in 1 .. Len(t[b].key)} :
              b \in {c \in Device : t[c] # Blank /\ t[c].nodetype = "LEAF"}}
-----------------------------------------------------------------------------
(* Block::operator< and operator== on an argument and a key of the index. *)

Undecided(k) == ~arg.exact /\ arg.lo <= k /\ k <= arg.hi

\* key < testkey || key == testkey; a bug would forget the second.
MayBeLess(k) == arg.hi < k \/ Undecided(k)
MayBeUpTo(k) == arg.lo <= k
MayBeAbove(k) == ~MayBeUpTo(k) \/ Undecided(k)

MayEqual(k)  == arg.lo <= k /\ k <= arg.hi
MayDiffer(k) == ~MayEqual(k) \/ ~arg.exact

\* Where a search goes on below an interior node: to the pointer before the
\* first key that is not smaller, else to the last pointer.
StopsAt(n, i) ==
    /\ i \in DOMAIN n.key => MayBeUpTo(n.key[i])
    /\ \A j \in 1 .. i - 1 : MayBeAbove(n.key[j])

\* The recursive call; a bug would pass on the node instead of the pointer.
ChildSelf(n, i) == Head(todo)
Child(n, i) == n.ptr[i]

\* The entries of a leaf it looks at; a bug would stop one early.
ScannedButLast(n) == 1 .. Len(n.key) - 1
Scanned(n) == 1 .. Len(n.key)

Matches(n, i) ==
    /\ MayEqual(n.key[i])
    /\ \A j \in 1 .. i - 1 : MayDiffer(n.key[j])

\* What the search copies out of a leaf; bugs would copy the key, or the value
\* of the last entry.
FoundKey(n, i)  == n.key[i]
FoundLast(n, i) == n.val[Len(n.val)]
Found(n, i) == n.val[i]

\* Of what it prints of a node only the keys of leaves are kept here.
PrintNode(n) == IF n.nodetype = "LEAF" THEN n.key ELSE <<>>

\* What a listing descends into; a bug would leave the last pointer out.
ChildrenButLast(n) == SubSeq(n.ptr, 1, Len(n.key))
Children(n) == IF n.key = <<>> THEN <<>> ELSE n.ptr

\* What Attach(0, true) writes; a bug would not write the root.
EmptyNode(type) ==
    [nodetype |-> type, rootnode |-> 1, key |-> <<>>, val |-> <<>>,
     ptr |-> IF type = "ROOT" THEN <<0>> ELSE <<>>]

FreshRootless(b) == IF b = 1 THEN mem[b]
                    ELSE EmptyNode(IF b = 0 THEN "SUPERBLOCK" ELSE "UNALLOCATED")
Fresh(b) == EmptyNode(IF b = 0 THEN "SUPERBLOCK"
                      ELSE IF b = 1 THEN "ROOT" ELSE "UNALLOCATED")
-----------------------------------------------------------------------------
NoAnswer == [op |-> "none", arg |-> SomeArg, rc |-> "NOERROR",
             value |-> NoValue, shown |-> <<>>]

Init ==
    /\ \/ /\ disk = [b \in Device |-> Blank]
          /\ below = [b \in Device |-> {}]
       \/ \E t \in Trees : disk = t.node /\ below = t.below
    /\ mem = disk
    /\ tool = "none" /\ index = "none" /\ rootnode = 0
    /\ call = "none" /\ arg = SomeArg /\ todo = <<>> /\ shown = <<>>
    /\ answer = NoAnswer
    /\ intact = (disk[0] # Blank)
    /\ stored = Pairs(disk)

NoProcess == tool' = "none" /\ index' = "none" /\ rootnode' = 0
NoSearch  == call' = "none" /\ arg' = SomeArg /\ todo' = <<>> /\ shown' = <<>>

\* DiskSystem, BufferCache and BTreeIndex are constructed.
Start(t) ==
    /\ tool = "none"
    /\ tool' = t
    /\ answer' = NoAnswer
    /\ UNCHANGED <<disk, mem, index, rootnode, search, history>>

Unwritten == {b \in Device : mem[b] # disk[b]}

\* The process ends without its destructors.
Dies ==
    /\ \E B \in SUBSET Unwritten :
          disk' = [b \in Device |-> IF b \in B THEN mem[b] ELSE disk[b]]
    /\ mem' = disk'
    /\ intact' = (intact /\ disk' = mem)
    /\ NoProcess
    /\ NoSearch
    /\ UNCHANGED <<below, stored>>

Kill == tool # "none" /\ Dies /\ answer' = NoAnswer

\* The assert of Unserialize.
Abort(op) == Dies /\ answer' = [NoAnswer EXCEPT !.op = op, !.rc = "ABORT"]

Idle == call = "none"

\* Attach(0): every tool but btree_init and sim.
Attach ==
    /\ tool \in {"lookup", "display", "stub"}
    /\ index = "none"
    /\ IF mem[0] = Blank
       THEN Abort("ATTACH")
       ELSE /\ index' = "attached"
            /\ rootnode' = mem[0].rootnode
            /\ UNCHANGED <<disk, mem, tool, search, answer, history>>

\* Attach(0, true): btree_init, and INIT at any moment in sim.
AttachCreate ==
    /\ \/ tool = "init" /\ index = "none"
       \/ tool = "sim" /\ Idle
    /\ mem' = [b \in Device |-> Fresh(b)]
    /\ index' = "attached"
    /\ rootnode' = 1
    /\ answer' = [NoAnswer EXCEPT !.op = "INIT"]
    /\ below' = [b \in Device |-> {}]
    /\ intact' = TRUE
    /\ UNCHANGED <<disk, tool, search, stored>>

\* The call of a tool, once, and the commands of sim.  After DEINIT they use
\* the deleted index: the memory is still as it was, or the process dies.
\* Before INIT they use a pointer that was never set (sim.cc:43): of what may
\* come of that only the death of the process is here, as Kill.
MayCall(t) ==
    /\ Idle
    /\ \/ tool = t /\ index = "attached" /\ index' = "done"
       \/ tool = "sim" /\ index \in {"attached", "deleted"} /\ UNCHANGED index

Lookup(a) ==
    /\ MayCall("lookup")
    /\ call' = "LOOKUP"
    /\ arg' = a
    /\ todo' = <<rootnode>>
    /\ answer' = NoAnswer
    /\ UNCHANGED <<disk, mem, tool, rootnode, shown, history>>

Display ==
    /\ MayCall("display")
    /\ call' = "DISPLAY"
    /\ todo' = <<rootnode>>
    /\ answer' = NoAnswer
    /\ UNCHANGED <<disk, mem, tool, rootnode, arg, shown, history>>

\* Update, Delete and SanityCheck.
Unimplemented ==
    /\ MayCall("stub")
    /\ answer' = [NoAnswer EXCEPT !.op = "STUB", !.rc = "UNIMPL"]
    /\ UNCHANGED <<disk, mem, tool, rootnode, search, history>>

Returns(rc, v) ==
    /\ answer' = [NoAnswer EXCEPT !.op = "LOOKUP", !.arg = arg, !.rc = rc, !.value = v]
    /\ NoSearch
    /\ UNCHANGED <<disk, mem, process, history>>

\* LookupOrUpdateInternal(node, BTREE_OP_LOOKUP, key, value)
LookupVisit ==
    /\ call = "LOOKUP"
    /\ LET n == mem[Head(todo)]
       IN  \/ n = Blank /\ Abort("LOOKUP")
           \/ /\ n # Blank /\ n.nodetype \in TreeTypes /\ n.key # <<>>
              /\ \E i \in 1 .. Len(n.key) + 1 :
                    StopsAt(n, i) /\ todo' = <<Child(n, i)>>
              /\ UNCHANGED <<disk, mem, process, call, arg, shown, answer, history>>
           \/ /\ n # Blank /\ n.nodetype \in TreeTypes /\ n.key = <<>>
              /\ Returns("NONEXISTENT", NoValue)
           \/ /\ n # Blank /\ n.nodetype = "LEAF"
              /\ \/ \E i \in Scanned(n) :
                       Matches(n, i) /\ Returns("NOERROR", Found(n, i))
                 \/ /\ \A i \in Scanned(n) : MayDiffer(n.key[i])
                    /\ Returns("NONEXISTENT", NoValue)
           \/ /\ n # Blank /\ n.nodetype \notin TreeTypes \cup {"LEAF"}
              /\ Returns("INSANE", NoValue)

\* DisplayInternal(node, o, display_type): an error ends the listing at every
\* level of the recursion.
DisplayVisit ==
    /\ call = "DISPLAY" /\ todo # <<>>
    /\ LET n == mem[Head(todo)]
       IN  \/ n = Blank /\ Abort("DISPLAY")
           \/ /\ n # Blank
              /\ todo' = IF n.nodetype \in TreeTypes THEN Children(n) \o Tail(todo)
                         ELSE IF n.nodetype = "LEAF" THEN Tail(todo) ELSE <<>>
              /\ shown' = shown \o PrintNode(n)
              /\ UNCHANGED <<disk, mem, process, call, arg, answer, history>>

\* Display answers NOERROR whatever happened below.
DisplayEnds ==
    /\ call = "DISPLAY" /\ todo = <<>>
    /\ answer' = [NoAnswer EXCEPT !.op = "DISPLAY", !.shown = shown]
    /\ NoSearch
    /\ UNCHANGED <<disk, mem, process, history>>

\* DEINIT: superblock and cache are written, the index is deleted.  The disk
\* system stays open, and the block written last may still be in its buffers.
Deinit ==
    /\ tool = "sim" /\ Idle /\ index = "attached"
    /\ \E b \in Device : disk' \in {mem, [mem EXCEPT ![b] = disk[b]]}
    /\ index' = "deleted"
    /\ answer' = [NoAnswer EXCEPT !.op = "DEINIT"]
    /\ UNCHANGED <<mem, tool, rootnode, search, history>>

\* The end of the process: Detach and the destructors, or only these.
Exit ==
    /\ tool # "none" /\ Idle
    /\ \/ tool = "sim"
       \/ index = "done"
       \/ tool = "init" /\ index = "attached"
    /\ disk' = mem
    /\ NoProcess
    /\ answer' = NoAnswer
    /\ UNCHANGED <<mem, search, history>>

Next ==
    \/ \E t \in Tools : Start(t)
    \/ Attach \/ AttachCreate \/ Display \/ Unimplemented
    \/ \E a \in Args : Lookup(a)
    \/ LookupVisit \/ DisplayVisit \/ DisplayEnds
    \/ Deinit \/ Exit \/ Kill

\* The program runs a call to its end.
Fairness == WF_vars(LookupVisit \/ DisplayVisit \/ DisplayEnds)

Spec == Init /\ [][Next]_vars /\ Fairness
-----------------------------------------------------------------------------
Contents == [Device -> Node \cup {Blank}]

\* Every variable stays within what the code can store in it.
TypeOK ==
    /\ disk \in Contents /\ mem \in Contents
    /\ tool \in Tools \cup {"none"}
    /\ index \in {"none", "attached", "deleted", "done"}
    /\ rootnode \in Device
    /\ call \in {"none", "LOOKUP", "DISPLAY"}
    /\ arg \in Args
    /\ todo \in Seq(Device) /\ shown \in Seq(Keys)
    /\ answer.op \in {"none", "INIT", "ATTACH", "LOOKUP", "DISPLAY", "STUB",
                      "DEINIT"}
    /\ answer.arg \in Args
    /\ answer.rc \in {"NOERROR", "NONEXISTENT", "INSANE", "UNIMPL", "ABORT"}
    /\ answer.value \in Values \cup {NoValue}
    /\ answer.shown \in Seq(Keys)
    /\ below \in [Device -> SUBSET Keys]
    /\ intact \in BOOLEAN
    /\ stored \in SUBSET (Keys \X Values)

\* A search has not gone past its key: it is in the index if and only if it
\* is under the node the search has come to.
NothingSkipped ==
    call = "LOOKUP" /\ intact /\ arg.exact =>
        (arg.lo \in below[rootnode] <=> arg.lo \in below[Head(todo)])

\* Lookup finds a key if and only if the tree has it, with its value, in
\* every index an earlier build or btree_init has left, for keys of the right
\* length: a short or long one may match any key it begins or is begun by.
LookupIsRight ==
    answer.op = "LOOKUP" /\ intact /\ answer.arg.exact =>
        /\ answer.rc \in {"NOERROR", "NONEXISTENT"}
        /\ answer.rc = "NOERROR" <=> answer.arg.lo \in below[rootnode]
        /\ answer.rc = "NOERROR" => <<answer.arg.lo, answer.value>> \in Pairs(mem)

\* Whatever is killed where and whatever is asked for, a value that Lookup
\* returns was stored with a key that the argument begins or is begun by.
FoundWasStored ==
    answer.op = "LOOKUP" /\ answer.rc = "NOERROR" =>
        \E k \in answer.arg.lo .. answer.arg.hi : <<k, answer.value>> \in stored

\* "This will be the keys and values in the tree sorted in order of keys"
\* (btree.h:136-137): a listing of an index shows every key of it, in order,
\* each one once.
ListingIsComplete ==
    answer.op = "DISPLAY" /\ intact =>
        /\ {answer.shown[i] : i \in DOMAIN answer.shown} = below[rootnode]
        /\ \A i, j \in DOMAIN answer.shown : i < j => answer.shown[i] < answer.shown[j]

\* No call made while one whole index is in memory ends in an assert.  Of
\* other disks nothing is claimed: there Attach and the calls abort, where
\* btree.h:94-95 promises ERROR_NOTANINDEX.
WholeIndexesNeverAbort == [][intact => answer'.rc # "ABORT"]_vars

\* Every call ends, in an index that a killed process has left as well.
CallsEnd == call # "none" ~> call = "none"
=============================================================================
