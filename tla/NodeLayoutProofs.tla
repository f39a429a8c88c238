-------------------------- MODULE NodeLayoutProofs --------------------------
(***************************************************************************)
(* The slot arithmetic of a node, for every word, header and pointer, and  *)
(* all sizes that are Roomy: the block has room for header and pointer,    *)
(* and the length of an entry does not wrap.  As long as numkeys is kept   *)
(* to the slots there are, no access leaves the bytes of the node, and the *)
(* node behaves as arrays do.                                              *)
(***************************************************************************)
EXTENDS NodeLayout, TLAPS

\* numkeys is kept to the slots there are, and to none if a slot has no bytes.
Filled(i) ==
    i # NoNode /\ i.nodetype \in TreeTypes =>
        /\ Stride(i.nodetype) = 0 => i.numkeys = 0
        /\ Stride(i.nodetype) # 0 => i.numkeys <= Slots(i.nodetype)

IInv ==
    /\ TypeOK
    /\ Filled(info)
    /\ block # NoNode => Filled(block.info)
    /\ AccessesStayInside
-----------------------------------------------------------------------------
(* Arithmetic. *)

\* The slots of a stretch of bytes end before it does.
LEMMA SlotEnds ==
    ASSUME NEW a \in Nat, NEW w \in Nat \ {0}, NEW n \in Nat, n <= a \div w
    PROVE  n * w <= a
  OBVIOUS

LEMMA SlotBeforeSlot ==
    ASSUME NEW w \in Nat, NEW i \in Nat, NEW j \in Nat, i < j
    PROVE  i * w \in Nat /\ i * w + w <= j * w
  OBVIOUS

LEMMA SizeType ==
    ASSUME size \in Sizes
    PROVE  /\ size.keysize \in Nat /\ size.valuesize \in Nat
           /\ size.blocksize \in Nat /\ size.blocksize < Word
           /\ NumDataBytes \in Nat
           /\ \A type : Stride(type) \in Nat
           /\ \A f \in Fields : Length(f) \in Nat
  <1>1. /\ size.keysize \in Nat /\ size.valuesize \in Nat
        /\ size.blocksize \in Nat /\ size.blocksize < Word
        /\ PtrSize \in Nat /\ HeaderSize \in Nat /\ Word \in Nat \ {0}
    BY LayoutAssumption
  <1> QED BY <1>1 DEF NumDataBytes, Stride, Length, Fields

LEMMA AddressType ==
    ASSUME size \in Sizes, NEW type, NEW f \in Fields, NEW i \in Nat
    PROVE  /\ Address(type, f, i) \in Nat
           /\ Span(type, f, i) \subseteq Nat
  <1>1. i * Stride(type) \in Nat
    BY SizeType
  <1>2. Address(type, f, i) \in Nat
    BY <1>1, SizeType, LayoutAssumption DEF Address, Place, Fields
  <1> QED BY <1>2, SizeType DEF Span

\* With room for the header and a pointer nothing wraps around.
LEMMA NothingWraps ==
    ASSUME size \in Sizes, Roomy, NEW type
    PROVE  /\ NumDataBytes - PtrSize \in Nat /\ NumDataBytes < Word
           /\ Slots(type) = (NumDataBytes - PtrSize) \div Stride(type)
  <1>1. NumDataBytes = size.blocksize - HeaderSize
    BY SizeType, LayoutAssumption DEF NumDataBytes, Roomy
  <1>2. NumDataBytes - PtrSize \in Nat /\ NumDataBytes - PtrSize < Word
    BY <1>1, SizeType, LayoutAssumption DEF Roomy
  <1>3. (NumDataBytes - PtrSize) % Word = NumDataBytes - PtrSize
    BY <1>2, LayoutAssumption
  <1> QED BY <1>1, <1>2, <1>3, SizeType, LayoutAssumption DEF Slots

\* Nor does the length of an entry.
LEMMA StrideFlat ==
    ASSUME size \in Sizes, StridesFit, NEW type
    PROVE  /\ type = "LEAF" => Stride(type) = size.keysize + size.valuesize
           /\ type # "LEAF" => Stride(type) = size.keysize + PtrSize
  BY SizeType, LayoutAssumption DEF StridesFit, Stride

\* All n entries, and the pointer before them, end within a word.
Flat(type, n) == StridesFit /\ PtrSize + n * Stride(type) < Word

\* The address of a field of one of them is what it says.
LEMMA AddressFlat ==
    ASSUME size \in Sizes, NEW type, NEW n \in Nat, Flat(type, n),
           NEW f \in Fields, NEW i \in Offsets(type, n, f), Resolves(type, f)
    PROVE  /\ i \in Nat
           /\ Address(type, f, i) = i * Stride(type) + Place(f)
           /\ Address(type, f, i) + Length(f) <= PtrSize + n * Stride(type)
  <1> DEFINE w == Stride(type)
  <1>1. /\ i \in Nat /\ w \in Nat /\ size.keysize \in Nat /\ size.valuesize \in Nat
        /\ Length(f) \in Nat /\ Place(f) \in Nat /\ PtrSize \in Nat /\ Word \in Nat
    BY SizeType, LayoutAssumption DEF Offsets, Fields, Place
  <1>2. i * w \in Nat /\ n * w \in Nat
    BY <1>1
  <1>3. i * w + Place(f) + Length(f) <= PtrSize + n * w
    <2>1. CASE f = "ptr"
      <3>1. i <= n
        BY <1>1, <2>1 DEF Offsets
      <3>2. i * w <= n * w
        BY <1>1, <3>1
      <3> QED BY <1>1, <1>2, <2>1, <3>2 DEF Place, Length
    <2>2. CASE f # "ptr"
      <3>1. i < n
        BY <1>1, <2>2 DEF Offsets
      <3>2. i * w + w <= n * w
        BY <1>1, <3>1, SlotBeforeSlot
      <3>3. f = "key" => size.keysize <= w
        BY <1>1, StrideFlat DEF Flat
      <3>4. f = "val" => w = size.keysize + size.valuesize
        BY <2>2, StrideFlat DEF Resolves, Flat
      <3> QED BY <1>1, <1>2, <2>2, <3>2, <3>3, <3>4 DEF Place, Length, Fields
    <2> QED BY <2>1, <2>2
  <1>4. i * w + Place(f) < Word
    BY <1>1, <1>2, <1>3, LayoutAssumption DEF Flat, Length, Fields
  <1>5. Address(type, f, i) = i * w + Place(f)
    <2> DEFINE a == i * w + Place(f)
    <2>1. a \in Nat /\ a < Word
      BY <1>1, <1>2, <1>4
    <2> HIDE DEF a
    <2>2. a % Word = a
      BY <1>1, <2>1
    <2> QED BY <2>2 DEF Address, a
  <1> QED BY <1>1, <1>3, <1>5

\* All entries, and the pointer before them, end where the data ends.
LEMMA EntriesFit ==
    ASSUME size \in Sizes, Roomy, NEW i \in Info, i # NoNode, Filled(i),
           i.nodetype \in TreeTypes
    PROVE  PtrSize + i.numkeys * Stride(i.nodetype) <= NumDataBytes
  <1> DEFINE w == Stride(i.nodetype)
             n == i.numkeys
  <1>1. n \in Nat /\ w \in Nat /\ NumDataBytes - PtrSize \in Nat /\ NumDataBytes \in Nat
    BY SizeType, NothingWraps, LayoutAssumption DEF Info
  <1>2. CASE w = 0
    <2>1. n * w = 0
      BY <1>1, <1>2
    <2> QED BY <1>1, <2>1, LayoutAssumption
  <1>3. CASE w # 0
    <2>1. n <= (NumDataBytes - PtrSize) \div w
      BY <1>3, NothingWraps DEF Filled
    <2>2. n * w <= NumDataBytes - PtrSize
      BY <1>1, <1>3, <2>1, SlotEnds
    <2>3. n * w \in Nat
      BY <1>1
    <2> QED BY <1>1, <2>2, <2>3, LayoutAssumption
  <1> QED BY <1>2, <1>3

\* The entries of a node do not wrap.
LEMMA EntriesFlat ==
    ASSUME size \in Sizes, Roomy, NEW i \in Info, i # NoNode, Filled(i),
           i.nodetype \in TreeTypes
    PROVE  Flat(i.nodetype, i.numkeys)
  <1> DEFINE m == i.numkeys * Stride(i.nodetype)
  <1>1. i.numkeys \in Nat /\ Stride(i.nodetype) \in Nat /\ NumDataBytes \in Nat
    BY SizeType, LayoutAssumption DEF Info
  <1>2. m \in Nat
    BY <1>1
  <1>3. PtrSize + m <= NumDataBytes /\ NumDataBytes < Word
    BY EntriesFit, NothingWraps
  <1> QED BY <1>1, <1>2, <1>3, LayoutAssumption DEF Flat, Roomy

\* A field that resolves lies inside data.
LEMMA FieldInside ==
    ASSUME size \in Sizes, Roomy, NEW i \in Info, i # NoNode, Filled(i),
           NEW f \in Fields, NEW o \in Nat, Resolves(i.nodetype, f),
           o \in Offsets(i.nodetype, i.numkeys, f)
    PROVE  Span(i.nodetype, f, o) \subseteq 0 .. NumDataBytes - 1
  <1> DEFINE m == i.numkeys * Stride(i.nodetype)
             e == Address(i.nodetype, f, o) + Length(f)
  <1>1. i.nodetype \in TreeTypes /\ i.numkeys \in Nat /\ NumDataBytes \in Nat
        /\ Stride(i.nodetype) \in Nat
    BY SizeType, LayoutAssumption DEF Info, Resolves, TreeTypes, Interior
  <1>2. m \in Nat
    BY <1>1
  <1>3. PtrSize + m <= NumDataBytes
    BY <1>1, EntriesFit
  <1>4. e <= PtrSize + m
    BY <1>1, EntriesFlat, AddressFlat
  <1>5. e \in Nat
    <2>1. Address(i.nodetype, f, o) \in Nat /\ Length(f) \in Nat
      BY AddressType, SizeType
    <2> QED BY <2>1
  <1>6. e <= NumDataBytes
    BY <1>1, <1>2, <1>3, <1>4, <1>5, LayoutAssumption
  <1> QED BY <1>1, <1>6, AddressType, SizeType DEF Span
-----------------------------------------------------------------------------
(* Type correctness. *)

\* Setting a field keeps the bytes bytes.
LEMMA PutType ==
    ASSUME size \in Sizes, NEW n, NEW d \in [0 .. n - 1 -> Byte],
           NEW type, NEW f \in Fields, NEW o \in Nat, NEW x \in Items(f)
    PROVE  Put(d, type, f, o, x) \in [0 .. n - 1 -> Byte]
  <1> SUFFICES ASSUME NEW a \in 0 .. n - 1, a \in Span(type, f, o)
               PROVE  x[a - Address(type, f, o)] \in Byte
    BY DEF Put
  <1>1. a - Address(type, f, o) \in 0 .. Length(f) - 1
    BY AddressType, SizeType DEF Span
  <1> QED BY <1>1 DEF Items

\* A node whose fields resolve has data.
LEMMA ResolvesData ==
    ASSUME NEW i, NEW d, NodeOK(i, d), i # NoNode, NEW f, Resolves(i.nodetype, f)
    PROVE  /\ i \in Info /\ i.nodetype \in TreeTypes
           /\ NumDataBytes \in 0 .. Memory
           /\ d \in [0 .. NumDataBytes - 1 -> Byte]
  BY DEF NodeOK, Resolves, TreeTypes, Allocates

LEMMA TypeInit == Init => TypeOK
  BY DEF Init, TypeOK, NodeOK

LEMMA TypeStep == TypeOK /\ [Next]_vars => TypeOK'
  <1> SUFFICES ASSUME TypeOK, [Next]_vars PROVE TypeOK'
    OBVIOUS
  <1> USE DEF Fields
  <1>1. ASSUME UNCHANGED <<size, info, data, block>>,
               aborted' \in BOOLEAN, strayed' \in BOOLEAN
        PROVE  TypeOK'
    BY <1>1 DEF TypeOK, NodeOK, NumDataBytes
  <1>2. ASSUME NEW op, NEW f, NEW o, NEW rc, Refused(op, f, o, rc) \/ Abort(op, f, o)
        PROVE  TypeOK'
    BY <1>1, <1>2 DEF Refused, Abort, TypeOK
  <1>3. ASSUME NEW type \in Types, New(type) PROVE TypeOK'
    <2>1. CASE ~TooMuch(type) /\ ~aborted
      <3>1. info' \in Info /\ info'.nodetype = type
        BY <1>3, <2>1, LayoutAssumption DEF New, Info, Abort
      <3>2. Allocates(type) =>
              /\ NumDataBytes \in 0 .. Memory
              /\ data' \in [0 .. NumDataBytes - 1 -> Byte]
        BY <1>3, <2>1, SizeType, LayoutAssumption DEF New, TooMuch, TypeOK
      <3>3. ~Allocates(type) => data' = NoData
        BY <1>3, <2>1 DEF New
      <3>4. UNCHANGED <<size, block, aborted, strayed>>
        BY <1>3, <2>1 DEF New
      <3> QED BY <3>1, <3>2, <3>3, <3>4 DEF TypeOK, NodeOK, NumDataBytes
    <2> QED BY <1>2, <1>3, <2>1 DEF New
  <1>4. ASSUME NEW n \in 0 .. MaxKeys, SetNumKeys(n) PROVE TypeOK'
    <2>1. ASSUME info # NoNode, info.nodetype \in TreeTypes,
                 info' = [info EXCEPT !.numkeys = n],
                 UNCHANGED <<size, data, block, aborted, strayed>>
          PROVE  TypeOK'
      BY <2>1 DEF TypeOK, NodeOK, NumDataBytes, Info, Allocates
    <2> QED BY <1>2, <1>4, <2>1 DEF SetNumKeys, HasNode
  <1>5. ASSUME NEW op, NEW f, NEW o, NEW x, NEW inside \in BOOLEAN,
               Read(op, f, o, x, inside)
        PROVE  TypeOK'
    BY <1>1, <1>5 DEF Read, TypeOK
  <1>6. ASSUME NEW f \in Fields, NEW n \in 0 .. MaxKeys, Get(f, n) PROVE TypeOK'
    BY <1>2, <1>5, <1>6 DEF Get, Unresolved, Inside
  <1>7. ASSUME NEW n \in 0 .. MaxKeys, GetKeyVal(n) PROVE TypeOK'
    BY <1>2, <1>5, <1>7 DEF GetKeyVal, Unresolved, Inside
  <1>8. ASSUME info # NoNode, NEW g, Resolves(info.nodetype, g),
               data' \in [0 .. NumDataBytes - 1 -> Byte],
               NEW op, NEW f, NEW o, NEW rc, NEW x, NEW inside \in BOOLEAN,
               Written(op, f, o, rc, x, inside)
        PROVE  TypeOK'
    <2>1. info \in Info /\ Allocates(info.nodetype) /\ NumDataBytes \in 0 .. Memory
      BY <1>8, ResolvesData DEF TypeOK, Allocates
    <2> QED BY <1>8, <2>1 DEF Written, TypeOK, NodeOK, NumDataBytes
  <1>9. ASSUME info # NoNode, NEW g, Resolves(info.nodetype, g),
               NEW d \in [0 .. NumDataBytes - 1 -> Byte],
               NEW f \in Fields, NEW n \in 0 .. MaxKeys, NEW x \in Items(f)
        PROVE  Put(d, info.nodetype, f, n, x) \in [0 .. NumDataBytes - 1 -> Byte]
    <2>1. NumDataBytes \in Nat /\ n \in Nat
      BY SizeType, LayoutAssumption DEF TypeOK
    <2> QED BY <1>9, <2>1, PutType DEF TypeOK
  <1>10. ASSUME info # NoNode, NEW g, Resolves(info.nodetype, g)
         PROVE  data \in [0 .. NumDataBytes - 1 -> Byte]
    BY <1>10, ResolvesData DEF TypeOK
  <1>11. ASSUME NEW f \in Fields, NEW n \in 0 .. MaxKeys, NEW x \in Items(f), Set(f, n, x)
         PROVE  TypeOK'
    <2>1. CASE Unresolved("Set", f, n)
      BY <1>2, <2>1 DEF Unresolved
    <2>2. CASE Resolved(f, n) /\ ~Unresolved("Set", f, n)
      <3>1. Resolves(info.nodetype, f) /\ info # NoNode
        BY <1>11, <2>2 DEF Set, Resolved, HasNode
      <3>2. data' \in [0 .. NumDataBytes - 1 -> Byte]
        BY <1>9, <1>10, <1>11, <2>2, <3>1 DEF Set
      <3> QED BY <1>8, <1>11, <2>2, <3>1, <3>2 DEF Set, Inside
    <2> QED BY <1>11, <2>1, <2>2 DEF Set
  <1>12. ASSUME NEW n \in 0 .. MaxKeys, NEW k \in Items("key"), NEW v \in Items("val"),
                SetKeyVal(n, k, v)
         PROVE  TypeOK'
    <2>1. CASE Unresolved("SetKeyVal", "key", n)
      BY <1>2, <2>1 DEF Unresolved
    <2>2. CASE Resolved("key", n) /\ ~Unresolved("SetKeyVal", "key", n)
      <3>1. Resolves(info.nodetype, "key") /\ info # NoNode
        BY <1>12, <2>2 DEF SetKeyVal, Resolved, HasNode
      <3>2. data' \in [0 .. NumDataBytes - 1 -> Byte]
        <4>1. Put(data, info.nodetype, "key", n, k) \in [0 .. NumDataBytes - 1 -> Byte]
          BY <1>9, <1>10, <3>1
        <4>2. Put(Put(data, info.nodetype, "key", n, k), info.nodetype, "val", n, v)
                \in [0 .. NumDataBytes - 1 -> Byte]
          BY <1>9, <3>1, <4>1
        <4> QED BY <1>12, <2>2, <4>1, <4>2 DEF SetKeyVal
      <3> QED BY <1>8, <1>12, <2>2, <3>1, <3>2 DEF SetKeyVal, Inside
    <2> QED BY <1>12, <2>1, <2>2 DEF SetKeyVal
  <1>13. CASE Serialize
    BY <1>13 DEF Serialize, HasNode, TypeOK, NodeOK, NumDataBytes, HeaderFits
  <1>14. CASE Unserialize
    <2>1. CASE block # NoNode /\ ~Refused("Unserialize", "key", 0, "NOSPACE")
      BY <1>14, <2>1 DEF Unserialize, TypeOK, NodeOK, NumDataBytes, HeaderFits
    <2> QED BY <1>2, <1>14, <2>1 DEF Unserialize
  <1>15. CASE UNCHANGED vars
    BY <1>1, <1>15 DEF vars, TypeOK
  <1> QED BY <1>3, <1>4, <1>6, <1>7, <1>11, <1>12, <1>13, <1>14, <1>15 DEF Next
-----------------------------------------------------------------------------
(* The invariant. *)

\* Every access to a field that resolves lies inside.
LEMMA AccessInside ==
    ASSUME IInv, Roomy, info # NoNode, NEW f \in Fields, NEW o \in 0 .. MaxKeys,
           Resolved(f, o)
    PROVE  Inside(f, o)
  <1>1. info \in Info /\ DOMAIN data = 0 .. NumDataBytes - 1
    BY ResolvesData DEF IInv, TypeOK, Resolved
  <1>2. o \in Nat
    BY LayoutAssumption
  <1> QED BY <1>1, <1>2, FieldInside DEF IInv, TypeOK, Inside, Resolved

LEMMA IInvInit == Init => IInv
  BY TypeInit DEF Init, IInv, Filled, AccessesStayInside

LEMMA IInvStep == IInv /\ [Next]_vars => IInv'
  <1> SUFFICES ASSUME IInv, [Next]_vars PROVE IInv'
    OBVIOUS
  <1> USE DEF Fields
  <1>1. TypeOK'
    BY TypeStep DEF IInv
  <1>2. ASSUME UNCHANGED size PROVE Roomy' <=> Roomy
    BY <1>2 DEF Roomy, StridesFit
  <1>3. ASSUME UNCHANGED <<size, info, block>>, Roomy => strayed' = strayed
        PROVE  IInv'
    BY <1>1, <1>2, <1>3 DEF IInv, Filled, AccessesStayInside, Stride, Slots, NumDataBytes
  <1>4. ASSUME NEW op, NEW f, NEW o, NEW rc, Refused(op, f, o, rc) \/ Abort(op, f, o)
        PROVE  IInv'
    BY <1>3, <1>4 DEF Refused, Abort
  <1>5. ASSUME NEW op, NEW f, NEW o, NEW rc, NEW x, NEW inside \in BOOLEAN,
               Roomy => inside,
               Read(op, f, o, x, inside) \/ Written(op, f, o, rc, x, inside)
        PROVE  IInv'
    BY <1>3, <1>5 DEF Read, Written, IInv, TypeOK
  <1>6. ASSUME NEW type \in Types, New(type) PROVE IInv'
    <2>1. CASE ~TooMuch(type)
      <3>1. /\ info'.nodetype = type /\ info'.numkeys = 0
            /\ UNCHANGED <<size, block, strayed>>
        BY <1>6, <2>1 DEF New, Abort
      <3>2. Stride(type) # 0 => 0 <= Slots(type)
        <4>1. NumDataBytes \in Nat /\ Stride(type) \in Nat
          BY SizeType DEF IInv, TypeOK
        <4>2. (NumDataBytes - PtrSize) % Word \in Nat
          BY <4>1, LayoutAssumption
        <4> QED BY <4>1, <4>2 DEF Slots
      <3> QED BY <1>1, <1>2, <3>1, <3>2
              DEF IInv, Filled, AccessesStayInside, Stride, Slots, NumDataBytes
    <2> QED BY <1>4, <1>6, <2>1 DEF New
  <1>7. ASSUME NEW n \in 0 .. MaxKeys, SetNumKeys(n) PROVE IInv'
    <2>1. CASE Stride(info.nodetype) # 0 /\ info # NoNode
      <3>1. /\ info.nodetype \in TreeTypes
            /\ n <= Slots(info.nodetype) \/ n = info.numkeys \div 2
            /\ info' = [info EXCEPT !.numkeys = n]
            /\ UNCHANGED <<size, block, strayed>>
        BY <1>7, <2>1 DEF SetNumKeys
      <3>2. info \in Info
        BY <2>1 DEF IInv, TypeOK, NodeOK
      <3>3. n <= Slots(info.nodetype)
        <4>1. info.numkeys <= Slots(info.nodetype)
          BY <2>1, <3>1 DEF IInv, Filled
        <4>2. Slots(info.nodetype) \in Nat
          <5>1. NumDataBytes \in Nat /\ Stride(info.nodetype) \in Nat
            BY SizeType DEF IInv, TypeOK
          <5>2. (NumDataBytes - PtrSize) % Word \in Nat
            BY <5>1, LayoutAssumption
          <5> QED BY <2>1, <5>1, <5>2 DEF Slots
        <4>3. info.numkeys \in Nat
          BY <3>2, LayoutAssumption DEF Info
        <4>4. info.numkeys \div 2 <= info.numkeys
          BY <4>3
        <4> QED BY <3>1, <4>1, <4>2, <4>3, <4>4
      <3>4. info'.nodetype = info.nodetype /\ info'.numkeys = n
        BY <3>1, <3>2 DEF Info
      <3> QED BY <1>1, <1>2, <2>1, <3>1, <3>3, <3>4
              DEF IInv, Filled, AccessesStayInside, Stride, Slots, NumDataBytes
    <2> QED BY <1>4, <1>7, <2>1 DEF SetNumKeys, HasNode
  <1>8. ASSUME NEW f \in Fields, NEW n \in 0 .. MaxKeys, Get(f, n) PROVE IInv'
    <2>1. CASE Unresolved("Get", f, n)
      BY <1>4, <2>1 DEF Unresolved
    <2>2. CASE Resolved(f, n)
      BY <1>4, <1>5, <1>8, <2>2, AccessInside DEF Get, Unresolved, HasNode, Inside
    <2> QED BY <1>8, <2>1, <2>2 DEF Get
  <1>9. ASSUME NEW n \in 0 .. MaxKeys, GetKeyVal(n) PROVE IInv'
    BY <1>4, <1>5, <1>9, AccessInside DEF GetKeyVal, Unresolved, HasNode, Inside
  <1>10. ASSUME NEW f \in Fields, NEW n \in 0 .. MaxKeys, NEW x \in Items(f), Set(f, n, x)
         PROVE  IInv'
    BY <1>4, <1>5, <1>10, AccessInside DEF Set, Unresolved, HasNode, Inside
  <1>11. ASSUME NEW n \in 0 .. MaxKeys, NEW k \in Items("key"), NEW v \in Items("val"),
                SetKeyVal(n, k, v)
         PROVE  IInv'
    BY <1>4, <1>5, <1>11, AccessInside DEF SetKeyVal, Unresolved, HasNode, Inside
  <1>12. Roomy => HeaderFits
    BY SizeType, LayoutAssumption DEF IInv, TypeOK, Roomy, HeaderFits
  <1>13. CASE Serialize
    BY <1>1, <1>2, <1>12, <1>13
    DEF Serialize, IInv, TypeOK, Filled, AccessesStayInside, Stride, Slots, NumDataBytes
  <1>14. CASE Unserialize
    <2>1. CASE block # NoNode /\ ~Refused("Unserialize", "key", 0, "NOSPACE")
      BY <1>1, <1>2, <1>12, <1>14, <2>1
      DEF Unserialize, IInv, TypeOK, Filled, AccessesStayInside, Stride, Slots, NumDataBytes
    <2> QED BY <1>4, <1>14, <2>1 DEF Unserialize
  <1>15. CASE UNCHANGED vars
    BY <1>3, <1>15 DEF vars
  <1> QED BY <1>6, <1>7, <1>8, <1>9, <1>10, <1>11, <1>13, <1>14, <1>15 DEF Next

LEMMA LayoutInvariant == Spec => []IInv
  BY IInvInit, IInvStep, PTL DEF Spec

\* Every variable keeps its type, whatever the sizes, Roomy or not.
THEOREM LayoutTypeCorrect == Spec => []TypeOK
  <1>1. IInv => TypeOK
    BY DEF IInv
  <1> QED BY <1>1, LayoutInvariant, PTL

\* In a block with room for the header and a pointer, and with keys and values
\* whose sizes add up without wrapping, no Get, Set, Serialize or Unserialize
\* touches a byte beyond the node, with as many entries as GetNumSlotsAs*
\* promise.
THEOREM AccessesAreInside == Spec => []AccessesStayInside
  <1>1. IInv => AccessesStayInside
    BY DEF IInv
  <1> QED BY <1>1, LayoutInvariant, PTL
-----------------------------------------------------------------------------
(* The refinement. *)

\* No two fields share a byte.
LEMMA FieldsApart ==
    ASSUME size \in Sizes, NEW type, NEW n \in Nat, Flat(type, n),
           NEW f \in Fields, NEW i \in Offsets(type, n, f), Resolves(type, f),
           NEW g \in Fields, NEW j \in Offsets(type, n, g), Resolves(type, g),
           f # g \/ i # j
    PROVE  Span(type, f, i) \cap Span(type, g, j) = {}
  <1> DEFINE w == Stride(type)
  <1>1. i \in Nat /\ j \in Nat /\ w \in Nat
    BY SizeType DEF Offsets, Fields
  <1>2. i * w \in Nat /\ j * w \in Nat
    BY <1>1
  <1>3. /\ i < j => i * w + w <= j * w
        /\ j < i => j * w + w <= i * w
        /\ i = j => i * w = j * w
    BY <1>1, SlotBeforeSlot
  <1>4. type # "LEAF" => w = size.keysize + PtrSize
    BY StrideFlat DEF Flat
  <1>5. type = "LEAF" => w = size.keysize + size.valuesize
    BY StrideFlat DEF Flat
  <1>6. /\ type = "LEAF" /\ f = "ptr" => i = 0 /\ i * w = 0
        /\ type = "LEAF" /\ g = "ptr" => j = 0 /\ j * w = 0
    BY <1>1 DEF Offsets
  <1>7. type # "LEAF" => f # "val" /\ g # "val"
    BY DEF Resolves
  <1> HIDE DEF w
  <1>8. /\ f = "ptr" => Address(type, f, i) = i * w /\ Length(f) = PtrSize
        /\ f = "key" => Address(type, f, i) = PtrSize + i * w /\ Length(f) = size.keysize
        /\ f = "val" => /\ Address(type, f, i) = PtrSize + i * w + size.keysize
                        /\ Length(f) = size.valuesize
        /\ g = "ptr" => Address(type, g, j) = j * w /\ Length(g) = PtrSize
        /\ g = "key" => Address(type, g, j) = PtrSize + j * w /\ Length(g) = size.keysize
        /\ g = "val" => /\ Address(type, g, j) = PtrSize + j * w + size.keysize
                        /\ Length(g) = size.valuesize
    BY <1>1, <1>2, AddressFlat, SizeType, LayoutAssumption DEF Place, Length, w
  <1>9. \/ Address(type, f, i) + Length(f) <= Address(type, g, j)
        \/ Address(type, g, j) + Length(g) <= Address(type, f, i)
    <2> DEFINE iw == i * w
               jw == j * w
    <2>1. iw \in Nat /\ jw \in Nat /\ size.keysize \in Nat /\ size.valuesize \in Nat
      BY <1>2, SizeType
    <2>2. f \in {"key", "ptr", "val"} /\ g \in {"key", "ptr", "val"}
      BY DEF Fields
    <2>3. i < j \/ j < i \/ (i = j /\ f # g)
      BY <1>1
    <2> USE <1>1, <1>3, <1>8, <2>1, <2>2, <2>3, LayoutAssumption
    <2> HIDE DEF iw, jw
    <2>4. CASE type # "LEAF"
      BY <1>4, <1>7, <2>4 DEF iw, jw
    <2>5. CASE type = "LEAF"
      <3> USE <1>5, <1>6, <2>5
      <3>1. CASE f = "ptr"
        BY <3>1 DEF iw, jw
      <3>2. CASE g = "ptr"
        BY <3>2 DEF iw, jw
      <3>3. CASE f # "ptr" /\ g # "ptr"
        BY <3>3 DEF iw, jw
      <3> QED BY <3>1, <3>2, <3>3
    <2> QED BY <2>4, <2>5
  <1> QED BY <1>1, <1>9, AddressType, SizeType DEF Span

\* Setting an entry changes it to what was set, and no other one.
LEMMA EntriesSet ==
    ASSUME size \in Sizes, NEW i, i.numkeys \in Nat, NEW d,
           Flat(i.nodetype, i.numkeys),
           DOMAIN d = 0 .. NumDataBytes - 1,
           NEW f \in Fields, NEW o \in Offsets(i.nodetype, i.numkeys, f),
           Resolves(i.nodetype, f), Span(i.nodetype, f, o) \subseteq DOMAIN d,
           NEW x \in Items(f), NEW g \in Fields
    PROVE  Entries(i, Put(d, i.nodetype, f, o, x), g)
             = IF g = f THEN [Entries(i, d, f) EXCEPT ![o] = x] ELSE Entries(i, d, g)
  <1> DEFINE type == i.nodetype
             e == Put(d, type, f, o, x)
             S == IF Resolves(type, g) THEN Offsets(type, i.numkeys, g) ELSE {}
  <1>1. ASSUME NEW p \in S
        PROVE  Item(e, type, g, p) = IF g = f /\ p = o THEN x ELSE Item(d, type, g, p)
    <2>1. Resolves(type, g) /\ p \in Offsets(type, i.numkeys, g)
      OBVIOUS
    <2>2. o \in Nat /\ p \in Nat
      BY <2>1 DEF Offsets, Fields
    <2>3. \A j \in 0 .. Length(g) - 1 : Address(type, g, p) + j \in Span(type, g, p)
      BY <2>2, AddressType, SizeType DEF Span
    <2>4. DOMAIN e = DOMAIN d
      BY DEF Put
    <2>5. CASE g = f /\ p = o
      <3>1. ASSUME NEW j \in 0 .. Length(f) - 1
            PROVE  /\ Address(type, f, o) + j \in DOMAIN e
                   /\ e[Address(type, f, o) + j] = x[j]
        <4> DEFINE a == Address(type, f, o) + j
        <4>1. a \in Span(type, f, o) \cap DOMAIN d
          BY <2>3, <2>5
        <4>2. a - Address(type, f, o) = j
          <5>1. Address(type, f, o) \in Nat
            BY <2>2, AddressType
          <5>2. j \in Int
            BY SizeType
          <5> QED BY <5>1, <5>2
        <4>3. e[a] = x[a - Address(type, f, o)]
          BY <4>1 DEF Put
        <4> QED BY <2>4, <4>1, <4>2, <4>3
      <3>2. Item(e, type, f, o) = [j \in 0 .. Length(f) - 1 |-> x[j]]
        BY <3>1 DEF Item
      <3> QED BY <2>5, <3>2 DEF Items
    <2>6. CASE ~(g = f /\ p = o)
      <3>1. Span(type, f, o) \cap Span(type, g, p) = {}
        BY <2>1, <2>6, FieldsApart
      <3>2. ASSUME NEW j \in 0 .. Length(g) - 1, NEW a, a = Address(type, g, p) + j
            PROVE  (IF a \in DOMAIN e THEN e[a] ELSE ZeroByte)
                     = (IF a \in DOMAIN d THEN d[a] ELSE ZeroByte)
        BY <2>3, <3>1, <3>2 DEF Put
      <3> QED BY <2>6, <3>2 DEF Item
    <2> QED BY <2>5, <2>6
  <1> QED BY <1>1 DEF Entries

\* What is read from a field is its entry.
LEMMA ItemGet ==
    ASSUME size \in Sizes, NEW d, NEW type, NEW f \in Fields, NEW o \in Nat,
           Span(type, f, o) \subseteq DOMAIN d, NEW x \in Items(f),
           Holds(d, type, f, o, x)
    PROVE  Item(d, type, f, o) = x
  <1>1. ASSUME NEW j \in 0 .. Length(f) - 1
        PROVE  /\ Address(type, f, o) + j \in DOMAIN d
               /\ d[Address(type, f, o) + j] = x[j]
    <2> DEFINE a == Address(type, f, o) + j
    <2>1. a \in Span(type, f, o) /\ a - Address(type, f, o) = j
      BY AddressType, SizeType DEF Span
    <2>2. d[a] = x[a - Address(type, f, o)]
      BY <2>1 DEF Holds
    <2> QED BY <2>1, <2>2
  <1>2. Item(d, type, f, o) = [j \in 0 .. Length(f) - 1 |-> x[j]]
    BY <1>1 DEF Item
  <1> QED BY <1>2 DEF Items

\* A step that leaves the sizes alone sees the nodes as before.
LEMMA SeenNext ==
    ASSUME UNCHANGED size
    PROVE  /\ NodeSeen' = IF info' = NoNode THEN NoNode ELSE Arrays(info', data')
           /\ StoredSeen' = IF block' = NoNode THEN NoNode
                             ELSE Arrays(block'.info, block'.data)
  <1>1. (Arrays(info, data))' = Arrays(info', data')
    BY DEF Arrays, Entries, Item, Offsets, Resolves, Length, Address, Place, Stride
  <1>2. (Arrays(block.info, block.data))' = Arrays(block'.info, block'.data)
    BY DEF Arrays, Entries, Item, Offsets, Resolves, Length, Address, Place, Stride
  <1> QED BY <1>1, <1>2 DEF NodeSeen, StoredSeen

\* The arrays of a node.
LEMMA ArraysFields ==
    ASSUME NEW i, NEW d
    PROVE  /\ Arrays(i, d).nodetype = i.nodetype
           /\ Arrays(i, d).numkeys = i.numkeys
           /\ \A f \in Fields : Arrays(i, d)[f] = Entries(i, d, f)
  BY DEF Arrays, Fields

\* The fields of a node that can be accessed, and its entries.
LEMMA Accessed ==
    ASSUME IInv, Roomy, info # NoNode, NEW f \in Fields, NEW o \in 0 .. MaxKeys,
           Resolved(f, o)
    PROVE  /\ info.numkeys \in Nat /\ o \in Nat
           /\ Flat(info.nodetype, info.numkeys)
           /\ DOMAIN data = 0 .. NumDataBytes - 1
           /\ Span(info.nodetype, f, o) \subseteq DOMAIN data
           /\ o \in DOMAIN Entries(info, data, f)
  <1>1. info \in Info /\ DOMAIN data = 0 .. NumDataBytes - 1
    BY ResolvesData DEF IInv, TypeOK, Resolved
  <1>2. info.numkeys \in Nat /\ o \in Nat
    BY <1>1, LayoutAssumption DEF Info
  <1>3. o \in DOMAIN Entries(info, data, f)
    BY DEF Entries, Resolved
  <1>4. Flat(info.nodetype, info.numkeys)
    BY <1>1, EntriesFlat DEF IInv, TypeOK, Resolved, Resolves, TreeTypes
  <1> QED BY <1>1, <1>2, <1>3, <1>4, AccessInside DEF Inside

\* What may be set in a node shows in one array only.
LEMMA ArraysSet ==
    ASSUME IInv, Roomy, info # NoNode, NEW f \in Fields, NEW o \in 0 .. MaxKeys,
           Resolved(f, o), NEW d, DOMAIN d = DOMAIN data, NEW x \in Items(f)
    PROVE  Arrays(info, Put(d, info.nodetype, f, o, x))
             = [Arrays(info, d) EXCEPT ![f][o] = x]
  <1>1. ASSUME NEW g \in Fields
        PROVE  Entries(info, Put(d, info.nodetype, f, o, x), g)
                 = IF g = f THEN [Entries(info, d, f) EXCEPT ![o] = x]
                   ELSE Entries(info, d, g)
    BY Accessed, EntriesSet DEF IInv, TypeOK, Resolved
  <1>2. CASE f = "key"
    BY <1>1, <1>2 DEF Arrays, Fields
  <1>3. CASE f = "ptr"
    BY <1>1, <1>3 DEF Arrays, Fields
  <1>4. CASE f = "val"
    BY <1>1, <1>4 DEF Arrays, Fields
  <1> QED BY <1>2, <1>3, <1>4 DEF Fields

\* Every step is one of the arrays, or stutters.
LEMMA SeenStep == IInv /\ [Next]_vars => (Roomy => [Seen!Next]_(Seen!vars))
  <1> SUFFICES ASSUME IInv, Roomy, [Next]_vars PROVE [Seen!Next]_(Seen!vars)
    OBVIOUS
  <1> USE DEF Fields, Seen!Next
  <1>1. ASSUME UNCHANGED <<size, info, data, block>>
        PROVE  UNCHANGED <<NodeSeen, StoredSeen>>
    BY <1>1, SeenNext DEF NodeSeen, StoredSeen
  <1>2. ASSUME NEW op, NEW f, NEW o, NEW rc \in {"NOMEM", "NOSPACE", "ABORT"},
               op = "SetKeyVal" /\ rc = "NOMEM" => NodeSeen.nodetype \notin TreeTypes,
               Call(op, f, o, rc, NoItem), UNCHANGED <<size, info, data, block>>
        PROVE  Seen!Next
    BY <1>1, <1>2 DEF Call, Seen!Refused
  <1>3. ASSUME NEW op, NEW f, NEW o, Abort(op, f, o) PROVE Seen!Next
    BY <1>2, <1>3 DEF Abort
  <1>4. ASSUME info # NoNode
        PROVE  /\ NodeSeen = Arrays(info, data)
               /\ NodeSeen.nodetype = info.nodetype
               /\ \A f \in Fields : NodeSeen[f] = Entries(info, data, f)
    BY <1>4, ArraysFields DEF NodeSeen
  <1>5. ASSUME NEW op, NEW f, NEW o, Unresolved(op, f, o), info # NoNode,
               op = "SetKeyVal" => f = "key"
        PROVE  Seen!Next
    <2>1. CASE ~Resolves(info.nodetype, f)
      <3>1. f = "key" => info.nodetype \notin TreeTypes
        BY <2>1 DEF Resolves, TreeTypes
      <3> QED BY <1>2, <1>3, <1>4, <1>5, <2>1, <3>1 DEF Unresolved, Refused
    <2> QED BY <1>3, <1>5, <2>1 DEF Unresolved
  <1>6. ASSUME NEW type \in Types, New(type) PROVE Seen!Next
    <2>1. CASE ~TooMuch(type)
      <3>1. /\ info' = [nodetype |-> type, numkeys |-> 0]
            /\ answer'.op = "New" /\ answer'.rc = "NOERROR"
            /\ UNCHANGED <<size, block>>
        BY <1>6, <2>1 DEF New, Abort, Call
      <3>2. info' # NoNode
        BY <3>1, NoNodeAssumption, LayoutAssumption DEF Info
      <3>3. NodeSeen'.numkeys = 0 /\ UNCHANGED StoredSeen
        BY <3>1, <3>2, SeenNext, ArraysFields DEF StoredSeen
      <3> QED BY <3>1, <3>3 DEF Seen!New
    <2> QED BY <1>3, <1>6, <2>1 DEF New
  <1>7. ASSUME NEW n \in 0 .. MaxKeys, SetNumKeys(n) PROVE Seen!Next
    <2>1. CASE Stride(info.nodetype) # 0 /\ info # NoNode
      <3>1. /\ info' = [info EXCEPT !.numkeys = n]
            /\ answer'.op = "SetNumKeys" /\ answer'.rc = "NOERROR"
            /\ UNCHANGED <<size, data, block>>
        BY <1>7, <2>1 DEF SetNumKeys, Call
      <3>2. info \in Info
        BY <2>1 DEF IInv, TypeOK, NodeOK
      <3>3. info' \in Info /\ info' # NoNode /\ info'.nodetype = info.nodetype
        BY <3>1, <3>2, NoNodeAssumption DEF Info
      <3>4. /\ NodeSeen'.nodetype = info.nodetype
            /\ \A f \in Fields : NodeSeen'[f] = Entries(info', data, f)
            /\ UNCHANGED StoredSeen
        <4>1. NodeSeen' = Arrays(info', data) /\ UNCHANGED StoredSeen
          BY <3>1, <3>3, SeenNext DEF StoredSeen
        <4> QED BY <3>3, <4>1, ArraysFields
      <3>5. ASSUME NEW f \in Fields, NEW common,
                   common = DOMAIN NodeSeen[f] \cap DOMAIN NodeSeen'[f]
            PROVE  Seen!Restricted(NodeSeen'[f], common)
                     = Seen!Restricted(NodeSeen[f], common)
        BY <1>4, <2>1, <3>3, <3>4, <3>5 DEF Seen!Restricted, Entries
      <3> QED BY <1>4, <2>1, <3>1, <3>4, <3>5 DEF Seen!ChangeNumKeys, Seen!Fields
    <2> QED BY <1>3, <1>7, <2>1 DEF SetNumKeys, HasNode
  <1>8. ASSUME info # NoNode, NEW f \in Fields, NEW o \in 0 .. MaxKeys, Resolved(f, o),
               NEW x, GetItem(f, o, x)
        PROVE  o \in DOMAIN NodeSeen[f] /\ NodeSeen[f][o] = x
    <2>1. Item(data, info.nodetype, f, o) = x
      BY <1>8, Accessed, ItemGet DEF GetItem, IInv, TypeOK
    <2> QED BY <1>4, <1>8, <2>1, Accessed DEF Entries, Resolved
  <1>9. ASSUME NEW f \in Fields, NEW o \in 0 .. MaxKeys, Get(f, o) PROVE Seen!Next
    <2>1. CASE Unresolved("Get", f, o)
      BY <1>5, <1>9, <2>1 DEF Get, HasNode
    <2>2. CASE ~Unresolved("Get", f, o)
      <3>1. PICK x \in Items(f) : GetItem(f, o, x) /\ Read("Get", f, o, x, Inside(f, o))
        BY <1>9, <2>2 DEF Get
      <3>2. o \in DOMAIN NodeSeen[f] /\ NodeSeen[f][o] = x
        BY <1>8, <1>9, <2>2, <3>1 DEF Get, HasNode
      <3> QED BY <1>1, <3>1, <3>2 DEF Read, Call, Seen!Get
    <2> QED BY <2>1, <2>2
  <1>10. ASSUME NEW o \in 0 .. MaxKeys, GetKeyVal(o) PROVE Seen!Next
    <2>1. CASE Unresolved("GetKeyVal", "key", o) \/ Unresolved("GetKeyVal", "val", o)
      BY <1>5, <1>10, <2>1 DEF GetKeyVal, HasNode
    <2>2. CASE Resolved("key", o) /\ Resolved("val", o) /\ ~Unresolved("GetKeyVal", "key", o)
               /\ ~Unresolved("GetKeyVal", "val", o)
      <3>1. PICK k \in Items("key"), v \in Items("val") :
              /\ GetItem("key", o, k) /\ GetItem("val", o, v)
              /\ Read("GetKeyVal", "key", o, <<k, v>>, Inside("key", o) /\ Inside("val", o))
        BY <1>10, <2>2 DEF GetKeyVal
      <3>2. /\ o \in DOMAIN NodeSeen["key"] /\ NodeSeen["key"][o] = k
            /\ NodeSeen["val"][o] = v
        BY <1>8, <1>10, <2>2, <3>1 DEF GetKeyVal, HasNode
      <3> QED BY <1>1, <3>1, <3>2 DEF Read, Call, Seen!GetKeyVal
    <2> QED BY <1>10, <2>1, <2>2 DEF GetKeyVal
  <1>11. ASSUME info # NoNode, NEW d, data' = d, UNCHANGED <<size, info, block>>
         PROVE  NodeSeen' = Arrays(info, d) /\ UNCHANGED StoredSeen
    BY <1>11, SeenNext DEF StoredSeen
  <1>12. ASSUME NEW f \in Fields, NEW o \in 0 .. MaxKeys, NEW x \in Items(f), Set(f, o, x)
         PROVE  Seen!Next
    <2>1. CASE Unresolved("Set", f, o)
      BY <1>5, <1>12, <2>1 DEF Set, HasNode
    <2>2. CASE ~Unresolved("Set", f, o)
      <3>1. /\ info # NoNode /\ Resolved(f, o)
            /\ data' = Put(data, info.nodetype, f, o, x)
            /\ answer' = [op |-> "Set", field |-> f, offset |-> o, rc |-> "NOERROR",
                          value |-> x]
            /\ UNCHANGED <<size, info, block>>
        BY <1>12, <2>2 DEF Set, HasNode, Written, Call
      <3>2. NodeSeen' = [NodeSeen EXCEPT ![f][o] = x] /\ UNCHANGED StoredSeen
        <4>1. NodeSeen' = Arrays(info, data') /\ UNCHANGED StoredSeen
          BY <1>11, <3>1
        <4>2. Arrays(info, Put(data, info.nodetype, f, o, x))
                = [Arrays(info, data) EXCEPT ![f][o] = x]
          BY <3>1, ArraysSet
        <4> QED BY <1>4, <3>1, <4>1, <4>2
      <3>3. o \in DOMAIN NodeSeen[f]
        BY <1>4, <3>1, Accessed
      <3> QED BY <3>1, <3>2, <3>3 DEF Seen!Set
    <2> QED BY <2>1, <2>2
  <1>13. ASSUME NEW o \in 0 .. MaxKeys, NEW k \in Items("key"), NEW v \in Items("val"),
                SetKeyVal(o, k, v)
         PROVE  Seen!Next
    <2> DEFINE e == Put(data, info.nodetype, "key", o, k)
    <2>1. CASE Unresolved("SetKeyVal", "key", o)
      BY <1>5, <1>13, <2>1 DEF SetKeyVal, HasNode
    <2>2. CASE ~Unresolved("SetKeyVal", "key", o)
      <3>1. /\ info # NoNode /\ Resolved("key", o)
            /\ answer'.op = "SetKeyVal" /\ answer'.offset = o
            /\ answer'.value[1] = k /\ answer'.value[2] = v
            /\ UNCHANGED <<size, info, block>>
            /\ \/ /\ ~Resolves(info.nodetype, "val") /\ answer'.rc = "NOMEM"
                  /\ data' = e
               \/ /\ Resolved("val", o) /\ answer'.rc = "NOERROR"
                  /\ data' = Put(e, info.nodetype, "val", o, v)
        BY <1>13, <2>2 DEF SetKeyVal, HasNode, Written, Call
      <3>2. o \in DOMAIN NodeSeen["key"]
        BY <1>4, <3>1, Accessed
      <3>3. Arrays(info, e) = [NodeSeen EXCEPT !.key[o] = k]
        BY <1>4, <3>1, ArraysSet
      <3>4. CASE ~Resolves(info.nodetype, "val")
        <4>1. NodeSeen' = [NodeSeen EXCEPT !.key[o] = k] /\ UNCHANGED StoredSeen
          BY <1>11, <3>1, <3>3, <3>4 DEF Resolved
        <4>2. info.nodetype # "LEAF" /\ answer'.rc = "NOMEM"
          BY <3>1, <3>4 DEF Resolves, Resolved
        <4> QED BY <1>4, <3>1, <3>2, <4>1, <4>2 DEF Seen!SetKeyVal
      <3>5. CASE Resolves(info.nodetype, "val")
        <4>1. DOMAIN e = DOMAIN data
          BY DEF Put
        <4>2. Arrays(info, Put(e, info.nodetype, "val", o, v))
                = [Arrays(info, e) EXCEPT !.val[o] = v]
          BY <3>1, <3>5, <4>1, ArraysSet
        <4>3. NodeSeen' = [NodeSeen EXCEPT !.key[o] = k, !.val[o] = v]
              /\ UNCHANGED StoredSeen
          BY <1>11, <3>1, <3>3, <3>5, <4>2
        <4>4. info.nodetype = "LEAF" /\ answer'.rc = "NOERROR"
          BY <3>1, <3>5 DEF Resolves, Resolved
        <4> QED BY <1>4, <3>1, <3>2, <4>3, <4>4 DEF Seen!SetKeyVal
      <3> QED BY <3>4, <3>5
    <2> QED BY <2>1, <2>2
  <1>14. CASE Serialize
    <2>1. /\ info # NoNode /\ block' = [info |-> info, data |-> data]
          /\ answer'.op = "Serialize" /\ UNCHANGED <<size, info, data>>
      BY <1>14 DEF Serialize, HasNode, Call
    <2>2. block' # NoNode
      <3>1. PICK n \in 0 .. Memory : block' \in [info : Info, data : [0 .. n - 1 -> Byte] \cup {NoData}]
        BY <2>1, LayoutAssumption DEF IInv, TypeOK, NodeOK
      <3> QED BY <3>1, NoNodeAssumption
    <2>3. NodeSeen' = NodeSeen /\ StoredSeen' = NodeSeen
      BY <2>1, <2>2, SeenNext DEF NodeSeen
    <2> QED BY <2>1, <2>3 DEF Seen!Save
  <1>15. CASE Unserialize
    <2>1. CASE Refused("Unserialize", "key", 0, "NOSPACE")
      BY <1>2, <2>1 DEF Refused
    <2>2. CASE block # NoNode /\ ~Refused("Unserialize", "key", 0, "NOSPACE")
      <3>1. /\ info' = block.info /\ data' = block.data
            /\ answer'.op = "Unserialize" /\ UNCHANGED <<size, block>>
        BY <1>15, <2>2 DEF Unserialize, Call
      <3>2. block.info # NoNode
        BY <2>2 DEF IInv, TypeOK
      <3>3. NodeSeen' = StoredSeen /\ UNCHANGED StoredSeen
        BY <2>2, <3>1, <3>2, SeenNext DEF StoredSeen
      <3> QED BY <3>1, <3>3 DEF Seen!Load
    <2> QED BY <1>3, <1>15, <2>1, <2>2 DEF Unserialize
  <1>16. CASE UNCHANGED vars
    BY <1>1, <1>16 DEF vars, Seen!vars
  <1> QED BY <1>6, <1>7, <1>9, <1>10, <1>12, <1>13, <1>14, <1>15, <1>16 DEF Next

\* With room for the header and a pointer, and with keys and values whose
\* sizes add up without wrapping, a node behaves as three arrays: no field
\* overlaps another, and a node comes back from its block as it was.
THEOREM NodesAreArrays == Spec => ImplementsNodeArrays
  <1>1. Init => Seen!Init
    BY DEF Init, Seen!Init, NodeSeen, StoredSeen
  <1>2. IInv /\ [Next]_vars => [Roomy => [Seen!Next]_(Seen!vars)]_vars
    BY SeenStep
  <1> QED BY <1>1, <1>2, LayoutInvariant, PTL DEF Spec, ImplementsNodeArrays
=============================================================================
