----------------------------- MODULE NodeLayout -----------------------------
(***************************************************************************)
(* A node as btree_lab/btree_ds.cc lays it out: a header, and behind it    *)
(* `data', the bytes that hold pointers, keys and values.                  *)
(*                                                                         *)
(*   interior and root:   PTR KEY PTR KEY PTR ...                          *)
(*   leaf:                PTR KEY VAL KEY VAL ...                          *)
(*                                                                         *)
(* A key, pointer or value is the function of its bytes.  SIZE_T and       *)
(* size_t have Word values and wrap, as on the 32-bit machines of the lab. *)
(* All nodes of an index have the same sizes.  Bytes beyond data hold      *)
(* anything, and a write there is only recorded in `strayed'.              *)
(***************************************************************************)
EXTENDS Integers

CONSTANTS
    Word,        \* the number of values of SIZE_T
    PtrSize,     \* sizeof(SIZE_T)
    HeaderSize,  \* sizeof(NodeMetadata)
    Memory,      \* the most bytes operator new has
    Sizes,       \* the sizes an index may be created with
    MaxKeys,     \* a bound on numkeys
    Types,       \* the node types a run creates: a bound
    Byte,        \* what a byte may hold
    ZeroByte,    \* what memset leaves
    NoNode,      \* no node in memory, or none in the block
    NoData       \* a node without data

Interior  == {"ROOT", "INTERIOR"}
TreeTypes == Interior \cup {"LEAF"}
NodeTypes == TreeTypes \cup {"UNALLOCATED", "SUPERBLOCK"}

ASSUME LayoutAssumption ==
    /\ Word \in Nat /\ PtrSize \in Nat \ {0} /\ HeaderSize \in Nat
    /\ HeaderSize + PtrSize < Word
    /\ Memory \in Nat /\ MaxKeys \in Nat
    /\ Sizes \subseteq [keysize : 0 .. Word - 1, valuesize : 0 .. Word - 1,
                        blocksize : 0 .. Word - 1]
    /\ Types \subseteq NodeTypes
    /\ ZeroByte \in Byte

Info == [nodetype : NodeTypes, numkeys : 0 .. MaxKeys]

ASSUME NoNodeAssumption ==
    /\ NoNode \notin Info
    /\ \A n \in 0 .. Memory :
          NoNode \notin [info : Info, data : [0 .. n - 1 -> Byte] \cup {NoData}]

VARIABLES
    size,        \* the sizes of the index
    info,        \* [nodetype, numkeys] of the node in memory, or NoNode
    data,        \* its bytes
    block,       \* what the cache holds: [info, data], or NoNode
    aborted,     \* an assert, or an exception nobody catches
    answer,      \* the last call: [op, field, offset, rc, value]
    strayed      \* history: an access outside of the bytes it was meant for

vars == <<size, info, data, block, aborted, answer, strayed>>

Fields == {"key", "ptr", "val"}
Length(f) == CASE f = "key" -> size.keysize
               [] f = "val" -> size.valuesize
               [] f = "ptr" -> PtrSize

\* Unsigned; or as a signed type would have it.
NumDataBytesSigned == size.blocksize - HeaderSize
NumDataBytes == (size.blocksize - HeaderSize) % Word

\* From one entry to the next; the sum is a SIZE_T as well.
Stride(type) == (size.keysize + IF type = "LEAF" THEN size.valuesize
                                                 ELSE PtrSize) % Word

\* Entries and the pointer before them; a bug would forget that pointer.
SlotsNoPointer(type) == NumDataBytes \div Stride(type)
Slots(type) == ((NumDataBytes - PtrSize) % Word) \div Stride(type)

\* Resolve*: where the field starts, from its place in an entry.  A bug would
\* put values over keys.
Place(f) == CASE f = "ptr" -> 0
              [] f = "key" -> PtrSize
              [] f = "val" -> PtrSize + size.keysize

AddressValuesFirst(type, f, i) ==
    (i * Stride(type) + IF f = "ptr" THEN 0 ELSE PtrSize) % Word
Address(type, f, i) == (i * Stride(type) + Place(f)) % Word

\* Fields the type of node has (the others resolve to 0), and the asserts.
Resolves(type, f) == type = "LEAF" \/ (type \in Interior /\ f # "val")

Offsets(type, n, f) ==
    CASE f # "ptr"                  -> 0 .. n - 1
      [] f = "ptr" /\ type # "LEAF" -> 0 .. n
      [] f = "ptr" /\ type = "LEAF" -> {0}

\* The bytes of a field, and what they make.
Span(type, f, i) == Address(type, f, i) .. Address(type, f, i) + Length(f) - 1

Items(f) == [0 .. Length(f) - 1 -> Byte]

Holds(d, type, f, i, x) ==
    \A a \in Span(type, f, i) \cap DOMAIN d : d[a] = x[a - Address(type, f, i)]

Put(d, type, f, i, x) ==
    [a \in DOMAIN d |-> IF a \in Span(type, f, i)
                        THEN x[a - Address(type, f, i)] ELSE d[a]]
-----------------------------------------------------------------------------
NoItem == <<>>

Call(op, f, i, rc, x) ==
    answer' = [op |-> op, field |-> f, offset |-> i, rc |-> rc, value |-> x]

Init ==
    /\ size \in Sizes
    /\ info = NoNode
    /\ data = NoData
    /\ block = NoNode
    /\ aborted = FALSE
    /\ answer = [op |-> "None", field |-> "key", offset |-> 0,
                 rc |-> "NOERROR", value |-> NoItem]
    /\ strayed = FALSE

Refused(op, f, i, rc) ==
    /\ Call(op, f, i, rc, NoItem)
    /\ UNCHANGED <<size, info, data, block, aborted, strayed>>

\* An assert, or what operator new throws when it has not that many bytes.
Abort(op, f, i) ==
    /\ aborted' = TRUE
    /\ Call(op, f, i, "ABORT", NoItem)
    /\ UNCHANGED <<size, info, data, block, strayed>>

HasNode == ~aborted /\ info # NoNode

Allocates(type) == type \in TreeTypes
TooMuch(type)   == Allocates(type) /\ NumDataBytes > Memory

\* The constructor.
New(type) ==
    /\ ~aborted
    /\ \/ /\ TooMuch(type)
          /\ Abort("New", "key", 0)
       \/ /\ ~TooMuch(type)
          /\ info' = [nodetype |-> type, numkeys |-> 0]
          /\ data' = IF Allocates(type)
                     THEN [a \in 0 .. NumDataBytes - 1 |-> ZeroByte] ELSE NoData
          /\ Call("New", "key", 0, "NOERROR", NoItem)
          /\ UNCHANGED <<size, block, aborted, strayed>>

\* Insert counts one more entry while there is an empty slot, and half of
\* them when it splits a node.  Without keys and values it divides by zero.
SetNumKeys(n) ==
    /\ HasNode
    /\ info.nodetype \in TreeTypes
    /\ \/ /\ Stride(info.nodetype) = 0
          /\ Abort("SetNumKeys", "key", n)
       \/ /\ Stride(info.nodetype) # 0
          /\ \/ n = info.numkeys + 1 /\ n <= Slots(info.nodetype)
             \/ n = info.numkeys \div 2
          /\ info' = [info EXCEPT !.numkeys = n]
          /\ Call("SetNumKeys", "key", n, "NOERROR", NoItem)
          /\ UNCHANGED <<size, data, block, aborted, strayed>>

\* Resolve* returns 0, or its assert fails.
Unresolved(op, f, i) ==
    \/ ~Resolves(info.nodetype, f) /\ Refused(op, f, i, "NOMEM")
    \/ /\ Resolves(info.nodetype, f)
       /\ i \notin Offsets(info.nodetype, info.numkeys, f)
       /\ Abort(op, f, i)

Resolved(f, i) ==
    /\ Resolves(info.nodetype, f)
    /\ i \in Offsets(info.nodetype, info.numkeys, f)

\* Is the field a part of data?
Inside(f, i) == Span(info.nodetype, f, i) \subseteq DOMAIN data

GetItem(f, i, x) == x \in Items(f) /\ Holds(data, info.nodetype, f, i, x)

Read(op, f, i, x, inside) ==
    /\ Call(op, f, i, "NOERROR", x)
    /\ strayed' = (strayed \/ ~inside)
    /\ UNCHANGED <<size, info, data, block, aborted>>

\* GetKey, GetPtr and GetVal.
Get(f, i) ==
    /\ HasNode
    /\ \/ Unresolved("Get", f, i)
       \/ /\ Resolved(f, i)
          /\ \E x \in Items(f) :
                GetItem(f, i, x) /\ Read("Get", f, i, x, Inside(f, i))

GetKeyVal(i) ==
    /\ HasNode
    /\ \/ Unresolved("GetKeyVal", "key", i)
       \/ Resolved("key", i) /\ Unresolved("GetKeyVal", "val", i)
       \/ /\ Resolved("key", i) /\ Resolved("val", i)
          /\ \E k \in Items("key"), v \in Items("val") :
                /\ GetItem("key", i, k) /\ GetItem("val", i, v)
                /\ Read("GetKeyVal", "key", i, <<k, v>>,
                        Inside("key", i) /\ Inside("val", i))

Written(op, f, i, rc, x, inside) ==
    /\ Call(op, f, i, rc, x)
    /\ strayed' = (strayed \/ ~inside)
    /\ UNCHANGED <<size, info, block, aborted>>

\* SetKey, SetPtr and SetVal.
Set(f, i, x) ==
    /\ HasNode
    /\ \/ Unresolved("Set", f, i)
       \/ /\ Resolved(f, i)
          /\ data' = Put(data, info.nodetype, f, i, x)
          /\ Written("Set", f, i, "NOERROR", x, Inside(f, i))

\* On an interior node the key is set before SetVal refuses the value.
SetKeyVal(i, k, v) ==
    /\ HasNode
    /\ \/ Unresolved("SetKeyVal", "key", i)
       \/ /\ Resolved("key", i) /\ ~Resolves(info.nodetype, "val")
          /\ data' = Put(data, info.nodetype, "key", i, k)
          /\ Written("SetKeyVal", "key", i, "NOMEM", <<k, v>>, Inside("key", i))
       \/ /\ Resolved("key", i) /\ Resolved("val", i)
          /\ data' = Put(Put(data, info.nodetype, "key", i, k),
                         info.nodetype, "val", i, v)
          /\ Written("SetKeyVal", "key", i, "NOERROR", <<k, v>>,
                     Inside("key", i) /\ Inside("val", i))

\* The header is copied from and to a buffer of blocksize bytes.
HeaderFits == HeaderSize <= size.blocksize

Serialize ==
    /\ HasNode
    /\ block' = [info |-> info, data |-> data]
    /\ strayed' = (strayed \/ ~HeaderFits)
    /\ Call("Serialize", "key", 0, "NOERROR", NoItem)
    /\ UNCHANGED <<size, info, data, aborted>>

\* ReadBlock may fail; a block that holds no node fails the assert.  What
\* could be allocated to write a node can be allocated to read it.
Unserialize ==
    /\ ~aborted
    /\ \/ Refused("Unserialize", "key", 0, "NOSPACE")
       \/ /\ block = NoNode
          /\ Abort("Unserialize", "key", 0)
       \/ /\ block # NoNode
          /\ info' = block.info
          /\ data' = block.data
          /\ strayed' = (strayed \/ ~HeaderFits)
          /\ Call("Unserialize", "key", 0, "NOERROR", NoItem)
          /\ UNCHANGED <<size, block, aborted>>

Next ==
    \/ \E type \in Types : New(type)
    \/ \E n \in 0 .. MaxKeys : SetNumKeys(n) \/ GetKeyVal(n)
    \/ \E f \in Fields, i \in 0 .. MaxKeys :
          Get(f, i) \/ \E x \in Items(f) : Set(f, i, x)
    \/ \E i \in 0 .. MaxKeys, k \in Items("key"), v \in Items("val") :
          SetKeyVal(i, k, v)
    \/ Serialize \/ Unserialize

Spec == Init /\ [][Next]_vars
-----------------------------------------------------------------------------
\* A node of the tree has the bytes of its block behind the header.
NodeOK(i, d) ==
    \/ i = NoNode /\ d = NoData
    \/ /\ i \in Info /\ Allocates(i.nodetype)
       /\ NumDataBytes \in 0 .. Memory
       /\ d \in [0 .. NumDataBytes - 1 -> Byte]
    \/ i \in Info /\ ~Allocates(i.nodetype) /\ d = NoData

\* Every variable stays within what the code can store in it.
TypeOK ==
    /\ size \in Sizes
    /\ NodeOK(info, data)
    /\ block # NoNode => block.info # NoNode /\ NodeOK(block.info, block.data)
    /\ aborted \in BOOLEAN
    /\ strayed \in BOOLEAN

\* An entry is not longer than a SIZE_T can say.
StridesFit == /\ size.keysize + PtrSize < Word
              /\ size.keysize + size.valuesize < Word

\* There is room for the header and the first pointer, and for that sum.
Roomy == HeaderSize + PtrSize <= size.blocksize /\ StridesFit

\* In a block with that much room no access leaves its node, as long as the
\* sizes of a key and a value add up without wrapping and numkeys is kept to
\* the slots there are: keys and values may be longer than the block.
\* Without that room blocksize-sizeof(*this) or the pointer's size wraps
\* around, or the length of an entry does, and there are slots without bytes;
\* nothing is claimed then.
AccessesStayInside == Roomy => ~strayed

\* The node as its user sees it; bytes beyond data count as zero.
Item(d, type, f, i) ==
    [j \in 0 .. Length(f) - 1 |->
        LET a == Address(type, f, i) + j
        IN  IF a \in DOMAIN d THEN d[a] ELSE ZeroByte]

Entries(i, d, f) ==
    [o \in IF Resolves(i.nodetype, f) THEN Offsets(i.nodetype, i.numkeys, f) ELSE {}
        |-> Item(d, i.nodetype, f, o)]

Arrays(i, d) ==
    [nodetype |-> i.nodetype, numkeys |-> i.numkeys, key |-> Entries(i, d, "key"),
     ptr |-> Entries(i, d, "ptr"), val |-> Entries(i, d, "val")]

NodeSeen   == IF info = NoNode THEN NoNode ELSE Arrays(info, data)
StoredSeen == IF block = NoNode THEN NoNode ELSE Arrays(block.info, block.data)

Seen == INSTANCE NodeArrays WITH node <- NodeSeen, stored <- StoredSeen

\* A node that has room, with entries whose length does not wrap, behaves as
\* three arrays: no field overlaps another, in leaves or elsewhere, and
\* Serialize and Unserialize lose nothing.
ImplementsNodeArrays ==
    /\ Seen!Init
    /\ [][Roomy => [Seen!Next]_(Seen!vars)]_vars
=============================================================================
