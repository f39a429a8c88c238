-------------------------- MODULE BTreeSpaceProofs --------------------------
(***************************************************************************)
(* The free list of an index is sound on every disk of at least three      *)
(* blocks, after any sequence of calls and of processes, and the index is  *)
(* a pool of blocks; the last section is about disks of any size.          *)
(*                                                                         *)
(* Free is a least set, so the argument needs no induction over the list:  *)
(* a set closed under the links bounds Free from above, and cutting a      *)
(* closed set down to Free leaves it closed, which bounds it from below.   *)
(***************************************************************************)
EXTENDS BTreeSpace, WellFoundedInduction, TLAPS

\* Where the kinds of nodes are.
LayoutOK ==
    /\ node[0] # Blank => node[0].nodetype = "SUPERBLOCK"
    /\ node[1] # Blank => node[1].nodetype = "ROOT"
    /\ \A b \in Blocks \ Device : node[b] = Blank
    /\ \A b \in Device \ {0, 1} : node[b] # Blank =>
            node[b].nodetype \in {"UNALLOCATED", "INTERIOR", "LEAF"}
    /\ \A b \in pending : /\ b \in Device \ {0, 1}
                          /\ node[b] # Blank
                          /\ node[b].nodetype = "UNALLOCATED"

\* The inductive invariant: the properties lean on one another.
IInv ==
    /\ TypeOK
    /\ LayoutOK
    /\ FreeListSound
    /\ FreeNotInUse
    /\ SuperblockStored
    /\ UsedBlocksMarked

BigEnough == NumBlocks >= 3

-----------------------------------------------------------------------------
LEMMA LinkFields ==
    ASSUME NEW t, NEW f
    PROVE  Link(t, f).nodetype = t /\ Link(t, f).freelist = f
  BY DEF Link

LEMMA LinkIsNode ==
    ASSUME NEW t \in {"UNALLOCATED", "SUPERBLOCK"} \cup TreeTypes, NEW f \in Blocks
    PROVE  Link(t, f) \in Node /\ Link(t, f) # Blank
  BY NodeAssumption DEF Link, Node

\* A set closed under the links holds every free block, now and after a step.
LEMMA FreeLeast ==
    ASSUME NEW S \in SUBSET Blocks, ClosedUnderLinks(S)
    PROVE  Free \subseteq S
  BY DEF Free

LEMMA FreeLeastNext ==
    ASSUME NEW S \in SUBSET Blocks, Stored' \in S \cup {0},
           \A b \in S : node'[b] # Blank => node'[b].freelist \in S \cup {0}
    PROVE  Free' \subseteq S
  BY DEF Free, ClosedUnderLinks

LEMMA FreeSubset == Free \subseteq Blocks /\ Free' \subseteq Blocks
  BY DEF Free

LEMMA StoredType == TypeOK => Stored \in Blocks
  BY SpaceAssumption DEF TypeOK, Stored, Node

\* The free blocks are themselves closed under the links.
LEMMA FreeClosed == TypeOK => ClosedUnderLinks(Free)
  <1> SUFFICES ASSUME TypeOK PROVE ClosedUnderLinks(Free)
    OBVIOUS
  <1>1. Stored \in Free \cup {0}
    BY StoredType DEF Free, ClosedUnderLinks
  <1>2. ASSUME NEW b \in Free, node[b] # Blank
        PROVE  node[b].freelist \in Free \cup {0}
    <2>1. b \in Blocks /\ node[b].freelist \in Blocks
      BY <1>2, FreeSubset DEF TypeOK, Node
    <2>2. \A S \in SUBSET Blocks : ClosedUnderLinks(S) =>
              node[b].freelist \in S \cup {0}
      BY <1>2, <2>1 DEF Free, ClosedUnderLinks
    <2> QED BY <2>1, <2>2 DEF Free
  <1> QED BY <1>1, <1>2 DEF ClosedUnderLinks

\* A step that leaves the head and the free nodes alone leaves the list alone.
LEMMA FreeUnchanged ==
    ASSUME TypeOK, Stored' = Stored, \A b \in Free : node'[b] = node[b]
    PROVE  Free' = Free
  <1>1. /\ Stored' \in Free \cup {0}
        /\ \A b \in Free : node'[b] # Blank => node'[b].freelist \in Free \cup {0}
    BY FreeClosed DEF ClosedUnderLinks
  <1>2. Free' \subseteq Free
    BY <1>1, FreeLeastNext, FreeSubset
  <1>3. ASSUME NEW S \in SUBSET Blocks, ClosedUnderLinks(S)'
        PROVE  Free \subseteq S
    <2>1. ClosedUnderLinks(S \cap Free)
      BY <1>3, FreeClosed DEF ClosedUnderLinks
    <2> QED BY <2>1, FreeLeast, FreeSubset
  <1>4. Free \subseteq Free'
    BY <1>3, FreeSubset DEF Free
  <1> QED BY <1>2, <1>4

\* Taking the head off the list takes exactly that block off it: nothing on
\* the list links back to the head.
LEMMA FreeAfterHandOut ==
    ASSUME TypeOK, FreeListSound, Stored # 0,
           Stored' = node[Stored].freelist,
           \A b \in Free : node'[b] = node[b]
    PROVE  Free' = Free \ {Stored}
  <1>1. Stored \in Free /\ ClosedUnderLinks(Free)
    BY FreeClosed DEF ClosedUnderLinks
  <1>2. \A b \in Free : node[b] # Blank /\ node[b].freelist # Stored
    BY DEF FreeListSound
  <1>3. /\ Stored' \in (Free \ {Stored}) \cup {0}
        /\ \A b \in Free \ {Stored} :
                node'[b] # Blank => node'[b].freelist \in (Free \ {Stored}) \cup {0}
    BY <1>1, <1>2 DEF ClosedUnderLinks
  <1>4. Free' \subseteq Free \ {Stored}
    BY <1>3, FreeLeastNext, FreeSubset
  <1>5. ASSUME NEW S \in SUBSET Blocks, ClosedUnderLinks(S)'
        PROVE  Free \ {Stored} \subseteq S
    <2> DEFINE T == (S \cap Free) \cup {Stored}
    <2>1. T \in SUBSET Blocks
      BY <1>1, FreeSubset
    <2>2. \A b \in S : node'[b] # Blank => node'[b].freelist \in S \cup {0}
      BY <1>5 DEF ClosedUnderLinks
    <2>3. Stored' \in S \cup {0}
      BY <1>5 DEF ClosedUnderLinks
    <2>4. ASSUME NEW b \in T PROVE node[b].freelist \in T \cup {0}
      <3>1. node[b] # Blank /\ node[b].freelist \in Free \cup {0} /\ b \in Free
        BY <1>1, <1>2 DEF ClosedUnderLinks
      <3>2. CASE b = Stored
        BY <2>3, <3>1, <3>2
      <3>3. CASE b \in S
        BY <2>2, <3>1, <3>3
      <3> QED BY <3>2, <3>3
    <2>5. ClosedUnderLinks(T)
      BY <2>4 DEF ClosedUnderLinks
    <2>6. Free \subseteq T
      BY <2>1, <2>5, FreeLeast
    <2> QED BY <2>6
  <1>6. Free \ {Stored} \subseteq Free'
    BY <1>5, FreeSubset DEF Free
  <1> QED BY <1>4, <1>6

\* Putting a block in front of the list adds exactly that block to it.
LEMMA FreeAfterDeallocate ==
    ASSUME TypeOK, NEW n \in Blocks, n # 0, n \notin Free,
           Stored' = n, node'[n] # Blank, node'[n].freelist = Stored,
           \A b \in Free : node'[b] = node[b]
    PROVE  Free' = Free \cup {n}
  <1>1. ClosedUnderLinks(Free)
    BY FreeClosed
  <1>2. /\ Stored' \in (Free \cup {n}) \cup {0}
        /\ \A b \in Free \cup {n} :
                node'[b] # Blank => node'[b].freelist \in (Free \cup {n}) \cup {0}
    BY <1>1 DEF ClosedUnderLinks
  <1>3. Free' \subseteq Free \cup {n}
    BY <1>2, FreeLeastNext, FreeSubset
  <1>4. ASSUME NEW S \in SUBSET Blocks, ClosedUnderLinks(S)'
        PROVE  Free \cup {n} \subseteq S
    <2>1. n \in S
      BY <1>4 DEF ClosedUnderLinks
    <2>2. Stored \in S \cup {0}
      BY <1>4, <2>1 DEF ClosedUnderLinks
    <2>3. ClosedUnderLinks(S \cap Free)
      BY <1>1, <1>4, <2>2 DEF ClosedUnderLinks
    <2> QED BY <2>1, <2>3, FreeLeast, FreeSubset
  <1>5. Free \cup {n} \subseteq Free'
    BY <1>4, FreeSubset DEF Free
  <1> QED BY <1>3, <1>5
-----------------------------------------------------------------------------
\* What creation writes, block by block.
LEMMA FreshNodes ==
    ASSUME BigEnough
    PROVE  /\ FreshNode(0) = Link("SUPERBLOCK", 2)
           /\ FreshNode(1) = Link("ROOT", 2)
           /\ \A b \in Device \ {0, 1} :
                    FreshNode(b) = Link("UNALLOCATED", FreshLink(b))
           /\ \A b \in Blocks \ Device : FreshNode(b) = node[b]
  BY SpaceAssumption DEF FreshNode, Device, BigEnough

LEMMA FreshLinks ==
    ASSUME NEW b \in Device \ {0, 1}
    PROVE  /\ FreshLink(b) \in (Device \ {0, 1}) \cup {0}
           /\ FreshLink(b) \in Blocks
           /\ FreshLink(b) # 2
           /\ FreshLink(b) = IF b + 1 = NumBlocks THEN 0 ELSE b + 1
  BY SpaceAssumption DEF FreshLink, Device

\* After creation every block but the superblock and the root is free.
LEMMA FreeAfterCreate ==
    ASSUME BigEnough, AttachCreate
    PROVE  Free' = Device \ {0, 1}
  <1> DEFINE Rest == Device \ {0, 1}
  <1>1. 2 \in Rest /\ Rest \subseteq Blocks
    BY SpaceAssumption DEF BigEnough, Device
  <1>2. /\ node'[0] = Link("SUPERBLOCK", 2)
        /\ \A b \in Rest : node'[b] = Link("UNALLOCATED", FreshLink(b))
    BY FreshNodes, SpaceAssumption DEF AttachCreate, Device
  <1>3. Stored' = 2
    BY <1>2, LinkIsNode, LinkFields, SpaceAssumption DEF Stored, TreeTypes
  <1>4. \A b \in Rest : node'[b].freelist = FreshLink(b) /\ node'[b] # Blank
    BY <1>2, LinkIsNode, LinkFields, FreshLinks
  <1>5. Free' \subseteq Rest
    <2>1. Stored' \in Rest \cup {0}
      BY <1>1, <1>3
    <2>2. \A b \in Rest : node'[b].freelist \in Rest \cup {0}
      BY <1>4, FreshLinks
    <2> HIDE DEF Rest
    <2> QED BY <1>1, <2>1, <2>2, FreeLeastNext
  <1>6. ASSUME NEW S \in SUBSET Blocks, ClosedUnderLinks(S)'
        PROVE  Rest \subseteq S
    <2> DEFINE T == Rest \ S
    <2> SUFFICES ASSUME T # {} PROVE FALSE
      OBVIOUS
    <2>1. PICK x \in T : \A y \in T : ~ (<<y, x>> \in OpToRel(<, Nat))
      <3>1. T \subseteq Nat
        BY DEF Device
      <3> HIDE DEF T
      <3> QED BY <3>1, NatLessThanWellFounded, WFMin
    <2>2. x # 2
      BY <1>3, <1>6 DEF ClosedUnderLinks
    <2>3. x - 1 \in Rest /\ x - 1 < x /\ x \in Nat /\ x - 1 \in Nat
      BY <2>2, SpaceAssumption DEF Device
    <2>4. <<x - 1, x>> \in OpToRel(<, Nat)
      BY <2>3 DEF OpToRel
    <2>5. x - 1 \in S
      BY <2>1, <2>3, <2>4
    <2>6. FreshLink(x - 1) = x
      BY <2>3, FreshLinks, SpaceAssumption DEF Device
    <2>7. x \in S \cup {0}
      BY <1>4, <1>6, <2>3, <2>5, <2>6 DEF ClosedUnderLinks
    <2> QED BY <2>7
  <1>7. Rest \subseteq Free'
    BY <1>1, <1>6 DEF Free
  <1> QED BY <1>5, <1>7

LEMMA SpaceInit == BigEnough /\ Init => IInv
  <1> SUFFICES ASSUME BigEnough, Init PROVE IInv
    OBVIOUS
  <1>1. \A b \in Blocks : node[b] = Blank
    BY DEF Init
  <1>2. 0 \in Blocks /\ 1 \in Blocks
    BY SpaceAssumption
  <1>3. Stored = 0
    BY <1>1, <1>2 DEF Stored
  <1>4. Free = {}
    <2>1. ClosedUnderLinks({})
      BY <1>3 DEF ClosedUnderLinks
    <2> QED BY <2>1, FreeLeast
  <1>5. TypeOK
    BY DEF Init, TypeOK
  <1>6. LayoutOK
    BY <1>1, SpaceAssumption DEF LayoutOK, Init
  <1>7. FreeListSound /\ FreeNotInUse
    BY <1>4 DEF FreeListSound, FreeNotInUse
  <1>8. SuperblockStored /\ UsedBlocksMarked
    BY <1>1, SpaceAssumption DEF Init, SuperblockStored, Attached, 
       UsedBlocksMarked, InUse
  <1> QED BY <1>5, <1>6, <1>7, <1>8 DEF IInv
-----------------------------------------------------------------------------
\* While an index is attached, the superblock in memory is block 0.
LEMMA WhileAttached ==
    ASSUME IInv, Attached
    PROVE  /\ superblock = node[0] /\ superblock \in Node /\ node[0] # Blank
           /\ superblock.freelist \in Blocks /\ superblock.freelist = Stored
           /\ superblock.nodetype = "SUPERBLOCK"
           /\ ~aborted /\ Saved(superblock) = node
  <1>1. superblock \in Node /\ superblock = node[0] /\ ~aborted
    BY DEF IInv, TypeOK, SuperblockStored, Attached
  <1>2. node[0] # Blank
    BY <1>1, NodeAssumption
  <1>3. Saved(superblock) = node
    BY <1>1, SpaceAssumption DEF Saved, IInv, TypeOK
  <1>4. superblock.freelist \in Blocks
    BY <1>1 DEF Node
  <1> QED BY <1>1, <1>2, <1>3, <1>4 DEF Stored, IInv, LayoutOK

\* A step that writes no block keeps everything but what it says itself.
LEMMA NoBlockWritten ==
    ASSUME IInv, node' = node, bitmap' = bitmap, pending' \subseteq pending,
           TypeOK', SuperblockStored'
    PROVE  IInv' /\ Free' = Free
  <1>1. Stored' = Stored
    BY DEF Stored
  <1>2. Free' = Free
    BY <1>1, FreeUnchanged DEF IInv
  <1>3. InUse' = InUse
    BY DEF InUse
  <1>4. LayoutOK'
    BY DEF IInv, LayoutOK
  <1>5. FreeListSound'
    BY <1>1, <1>2 DEF IInv, FreeListSound
  <1>6. FreeNotInUse' /\ UsedBlocksMarked'
    BY <1>2, <1>3 DEF IInv, FreeNotInUse, UsedBlocksMarked
  <1> QED BY <1>2, <1>4, <1>5, <1>6 DEF IInv

LEMMA QuietType == Quiet => answer' \in [rc : {"NONE", "NOERROR", "NOSPACE"},
                                         block : Blocks \cup {None}]
  BY DEF Quiet

LEMMA StepStutter ==
    ASSUME IInv, UNCHANGED vars
    PROVE  IInv' /\ Free' = Free
  <1>1. TypeOK' /\ SuperblockStored'
    BY DEF IInv, vars, TypeOK, SuperblockStored, Attached
  <1> QED BY <1>1, NoBlockWritten DEF vars

LEMMA StepAbort ==
    ASSUME IInv, Abort
    PROVE  IInv' /\ Free' = Free /\ Quiet
  <1>1. TypeOK'
    BY QuietType DEF IInv, Abort, TypeOK
  <1>2. SuperblockStored'
    BY DEF Abort, SuperblockStored, Attached
  <1> QED BY <1>1, <1>2, NoBlockWritten DEF Abort

LEMMA StepAttach ==
    ASSUME IInv, Attach
    PROVE  IInv' /\ Free' = Free /\ Quiet
  <1>1. CASE Formatted(0)
    <2>1. node' = node /\ bitmap' = bitmap /\ pending' = pending
          /\ aborted' = aborted /\ superblock' = node[0] /\ Quiet
      BY <1>1 DEF Attach
    <2>2. superblock' \in Node
      BY <1>1, <2>1, SpaceAssumption DEF IInv, TypeOK, Formatted
    <2>3. TypeOK'
      BY <2>1, <2>2, QuietType DEF IInv, TypeOK
    <2>4. SuperblockStored'
      BY <2>1 DEF IInv, SuperblockStored
    <2> QED BY <2>1, <2>3, <2>4, NoBlockWritten
  <1>2. CASE ~Formatted(0)
    BY <1>2, StepAbort DEF Attach
  <1> QED BY <1>1, <1>2

LEMMA StepDetach ==
    ASSUME IInv, Detach
    PROVE  IInv' /\ Free' = Free /\ Quiet
  <1>1. node' = node /\ bitmap' = bitmap /\ pending' = pending
        /\ aborted' = aborted /\ superblock' = superblock /\ Quiet
    BY WhileAttached DEF Detach
  <1>2. TypeOK' /\ SuperblockStored'
    BY <1>1, QuietType DEF IInv, TypeOK, SuperblockStored, Attached
  <1> QED BY <1>1, <1>2, NoBlockWritten

LEMMA StepExit ==
    ASSUME IInv, Exit
    PROVE  IInv' /\ Free' = Free /\ Quiet
  <1>1. node' = node
    BY DEF Exit, IInv, LayoutOK, TypeOK
  <1>2. TypeOK' /\ SuperblockStored'
    BY <1>1, QuietType DEF Exit, IInv, TypeOK, SuperblockStored, Attached
  <1> QED BY <1>1, <1>2, NoBlockWritten DEF Exit

-----------------------------------------------------------------------------
LEMMA StepCreate ==
    ASSUME BigEnough, IInv, AttachCreate
    PROVE  IInv' /\ Free' = Device \ {0, 1} /\ Quiet
  <1> DEFINE Rest == Device \ {0, 1}
  <1>1. Free' = Rest
    BY FreeAfterCreate
  <1>2. 0 \in Device /\ 1 \in Device /\ 2 \in Rest /\ Device \subseteq Blocks
        /\ 0 \in Blocks /\ 1 \in Blocks /\ 2 \in Blocks
    BY SpaceAssumption DEF BigEnough, Device
  <1>3. /\ node'[0] = Link("SUPERBLOCK", 2) /\ superblock' = node'[0]
        /\ node'[1] = Link("ROOT", 2)
        /\ \A b \in Rest : node'[b] = Link("UNALLOCATED", FreshLink(b))
        /\ \A b \in Blocks \ Device : node'[b] = Blank
    BY <1>2, FreshNodes DEF AttachCreate, IInv, LayoutOK
  <1>4. /\ node'[0] \in Node /\ node'[0] # Blank
        /\ node'[0].nodetype = "SUPERBLOCK" /\ node'[0].freelist = 2
    BY <1>2, <1>3, LinkIsNode, LinkFields
  <1>5. /\ node'[1] \in Node /\ node'[1] # Blank /\ node'[1].nodetype = "ROOT"
    BY <1>2, <1>3, LinkIsNode, LinkFields DEF TreeTypes
  <1>6. \A b \in Rest : /\ node'[b] \in Node /\ node'[b] # Blank
                        /\ node'[b].nodetype = "UNALLOCATED"
                        /\ node'[b].freelist = FreshLink(b)
    BY <1>3, LinkIsNode, LinkFields, FreshLinks
  <1>7. Stored' = 2
    BY <1>4 DEF Stored
  <1>8. TypeOK'
    <2>1. node' \in [Blocks -> Node \cup {Blank}]
      <3>1. \A b \in Blocks : node'[b] \in Node \cup {Blank}
        BY <1>3, <1>4, <1>5, <1>6
      <3>2. node' = [b \in Blocks |-> FreshNode(b)]
        BY DEF AttachCreate
      <3> QED BY <3>1, <3>2
    <2>2. bitmap' \in [Device -> BOOLEAN]
      BY DEF AttachCreate, Marked, IInv, TypeOK
    <2> QED BY <2>1, <2>2, <1>3, <1>4, QuietType DEF AttachCreate, IInv, TypeOK
  <1>9. LayoutOK'
    BY <1>3, <1>4, <1>5, <1>6 DEF LayoutOK, AttachCreate
  <1>10. FreeListSound'
    <2>1. \A b \in Rest : FreshLink(b) # 2
      BY FreshLinks
    <2>2. \A b, c \in Rest : FreshLink(b) = FreshLink(c) /\ FreshLink(b) # 0 => b = c
      BY FreshLinks, SpaceAssumption DEF Device
    <2> HIDE DEF Rest
    <2>3. \A b \in Rest : b \in Device \ {0, 1}
      BY DEF Rest
    <2> QED BY <1>1, <1>6, <1>7, <2>1, <2>2, <2>3 DEF FreeListSound
  <1>11. FreeNotInUse'
    BY <1>1, <1>6 DEF FreeNotInUse, InUse, AttachCreate
  <1>12. SuperblockStored'
    BY <1>3 DEF SuperblockStored, AttachCreate
  <1>13. UsedBlocksMarked'
    BY <1>6 DEF UsedBlocksMarked, InUse, AttachCreate, Marked
  <1> QED BY <1>1, <1>8, <1>9, <1>10, <1>11, <1>12, <1>13 DEF IInv, AttachCreate
-----------------------------------------------------------------------------
\* The assert of AllocateNode holds: the head of the list is a free node.
LEMMA StepHandOut ==
    ASSUME IInv, Attached, Stored # 0, HandOut(Stored, node[Stored].freelist)
    PROVE  IInv' /\ Stored \in Free /\ Free' = Free \ {Stored}
  <1> DEFINE n == Stored
             m == node[Stored].freelist
  <1>1. n \in Free /\ n \in Device \ {0, 1} /\ n \in Blocks
        /\ node[n] \in Node /\ node[n] # Blank
        /\ node[n].nodetype = "UNALLOCATED" /\ m \in Blocks
    <2>1. n \in Free
      BY FreeClosed DEF ClosedUnderLinks, IInv
    <2>2. n \in Blocks /\ n \in Device \ {0, 1} /\ node[n] # Blank
          /\ node[n].nodetype = "UNALLOCATED"
      BY <2>1, FreeSubset DEF IInv, FreeListSound
    <2>3. node[n] \in Node
      BY <2>2 DEF IInv, TypeOK
    <2> QED BY <2>1, <2>2, <2>3 DEF Node
  <1>2. superblock' = [superblock EXCEPT !.freelist = m]
        /\ superblock' \in Node /\ superblock' # Blank
        /\ superblock'.freelist = m /\ superblock'.nodetype = "SUPERBLOCK"
    BY <1>1, WhileAttached, NodeAssumption DEF HandOut, Node
  <1>3. node' = [node EXCEPT ![0] = superblock'] /\ 0 \in Blocks /\ 1 \in Blocks
    BY SpaceAssumption DEF HandOut, Saved
  <1>4. node'[0] = superblock' /\ \A b \in Blocks \ {0} : node'[b] = node[b]
    BY <1>3 DEF IInv, TypeOK
  <1>5. Stored' = m
    BY <1>2, <1>4 DEF Stored
  <1>6. \A b \in Free : node'[b] = node[b]
    BY <1>4, FreeSubset DEF IInv, FreeListSound
  <1>7. Free' = Free \ {n}
    BY <1>5, <1>6, FreeAfterHandOut DEF IInv
  <1>8. bitmap' = [b \in Device |-> b \in {n} \/ bitmap[b]]
        /\ pending' = pending \cup {n} /\ aborted' = aborted
        /\ answer' = [rc |-> "NOERROR", block |-> n]
    BY DEF HandOut, Marked
  <1> HIDE DEF n, m
  <1>9. TypeOK'
    BY <1>1, <1>2, <1>3, <1>8 DEF IInv, TypeOK
  <1>10. LayoutOK'
    <2>1. \A b \in pending' : /\ b \in Device \ {0, 1} /\ node[b] # Blank
                              /\ node[b].nodetype = "UNALLOCATED"
      BY <1>1, <1>8 DEF IInv, LayoutOK
    <2>2. 0 \in Device /\ Device \subseteq Blocks
      BY SpaceAssumption DEF Device
    <2> QED BY <1>2, <1>3, <1>4, <2>1, <2>2 DEF IInv, LayoutOK
  <1>11. FreeListSound'
    <2>1. ASSUME NEW b \in Free'
          PROVE  /\ b \in Device \ {0, 1} /\ node'[b] # Blank
                 /\ node'[b].nodetype = "UNALLOCATED"
                 /\ node'[b].freelist # Stored'
      <3>1. b \in Free /\ b # n /\ node'[b] = node[b]
        BY <1>6, <1>7
      <3>2. m # 0
        <4> SUFFICES ASSUME m = 0 PROVE FALSE
          OBVIOUS
        <4>1. /\ Stored' \in {} \cup {0} /\ {} \in SUBSET Blocks
              /\ \A c \in {} : node'[c] # Blank => node'[c].freelist \in {} \cup {0}
          BY <1>5
        <4>2. Free' \subseteq {}
          BY <4>1, FreeLeastNext
        <4> QED BY <4>2
      <3>3. node[b].freelist # m
        BY <1>1, <3>1, <3>2 DEF IInv, FreeListSound, n, m
      <3> QED BY <1>5, <3>1, <3>3 DEF IInv, FreeListSound
    <2>2. \A b, c \in Free' : node'[b].freelist = node'[c].freelist
                              /\ node'[b].freelist # 0 => b = c
      BY <1>6, <1>7 DEF IInv, FreeListSound
    <2> QED BY <2>1, <2>2 DEF FreeListSound
  <1>12. InUse' = InUse
    <2>1. node[0] # Blank /\ node[0].nodetype = "SUPERBLOCK"
      BY WhileAttached DEF IInv, LayoutOK
    <2> QED BY <1>2, <1>4, <2>1 DEF InUse
  <1>13. FreeNotInUse'
    BY <1>7, <1>8, <1>12 DEF IInv, FreeNotInUse
  <1>14. SuperblockStored'
    BY <1>4, <1>8, WhileAttached DEF SuperblockStored
  <1>15. UsedBlocksMarked'
    BY <1>8, <1>12 DEF IInv, UsedBlocksMarked
  <1> QED BY <1>1, <1>7, <1>9, <1>10, <1>11, <1>13, <1>14, <1>15 DEF IInv, n

LEMMA StepAllocate ==
    ASSUME IInv, AllocateNode
    PROVE  /\ IInv'
           /\ \/ /\ Free = {} /\ Free' = Free
                 /\ answer' = [rc |-> "NOSPACE", block |-> None]
              \/ /\ Stored \in Free /\ Free' = Free \ {Stored}
                 /\ answer' = [rc |-> "NOERROR", block |-> Stored]
  <1>1. Attached /\ superblock.freelist = Stored
    BY WhileAttached DEF AllocateNode
  <1>2. CASE Stored = 0
    <2>1. answer' = [rc |-> "NOSPACE", block |-> None]
          /\ UNCHANGED <<node, bitmap, superblock, pending, aborted>>
      BY <1>1, <1>2 DEF AllocateNode
    <2>2. ClosedUnderLinks({})
      BY <1>2 DEF ClosedUnderLinks
    <2>3. Free = {}
      BY <2>2, FreeLeast
    <2>4. TypeOK' /\ SuperblockStored'
      BY <2>1 DEF IInv, TypeOK, SuperblockStored, Attached
    <2> QED BY <2>1, <2>3, <2>4, NoBlockWritten
  <1>3. CASE Stored # 0
    <2>1. Stored \in Free /\ Readable(Stored) /\ Formatted(Stored) /\ FreeNode(Stored)
      <3>1. Stored \in Free
        BY <1>3, FreeClosed DEF ClosedUnderLinks, IInv
      <3> QED BY <3>1 DEF IInv, FreeListSound, Readable, Formatted, FreeNode
    <2>2. HandOut(Stored, node[Stored].freelist)
      BY <1>1, <1>3, <2>1 DEF AllocateNode
    <2> QED BY <1>1, <1>3, <2>2, StepHandOut DEF HandOut
  <1> QED BY <1>2, <1>3
-----------------------------------------------------------------------------
LEMMA StepWriteNode ==
    ASSUME IInv, NEW n \in pending, NEW type \in {"INTERIOR", "LEAF"},
           WriteNode(n, type)
    PROVE  IInv' /\ Free' = Free /\ Quiet
  <1>1. Attached /\ n \in Device \ {0, 1} /\ n \in Blocks /\ n \notin Free
        /\ node[n] # Blank
    BY SpaceAssumption DEF WriteNode, IInv, LayoutOK, FreeNotInUse
  <1>2. /\ Link(type, 0) \in Node /\ Link(type, 0) # Blank
        /\ Link(type, 0).nodetype = type
    BY LinkIsNode, LinkFields, SpaceAssumption DEF TreeTypes
  <1>3. /\ node' = [node EXCEPT ![n] = Link(type, 0)] /\ pending' = pending \ {n}
        /\ UNCHANGED <<bitmap, superblock, aborted>> /\ Quiet
    BY DEF WriteNode
  <1>4. node'[n] = Link(type, 0) /\ \A b \in Blocks \ {n} : node'[b] = node[b]
    BY <1>1, <1>3 DEF IInv, TypeOK
  <1>5. node'[0] = node[0] /\ node'[1] = node[1] /\ Device \subseteq Blocks
    BY <1>1, <1>4, SpaceAssumption
  <1>6. Stored' = Stored
    BY <1>5 DEF Stored
  <1>7. \A b \in Free : node'[b] = node[b]
    BY <1>1, <1>4, FreeSubset
  <1>8. Free' = Free
    BY <1>6, <1>7, FreeUnchanged DEF IInv
  <1>9. TypeOK'
    BY <1>1, <1>2, <1>3, QuietType DEF IInv, TypeOK
  <1>10. LayoutOK'
    <2>1. \A b \in Blocks \ Device : node'[b] = Blank
      BY <1>1, <1>4 DEF IInv, LayoutOK
    <2>2. \A b \in Device \ {0, 1} : node'[b] # Blank =>
              node'[b].nodetype \in {"UNALLOCATED", "INTERIOR", "LEAF"}
      BY <1>2, <1>4, <1>5 DEF IInv, LayoutOK
    <2>3. \A b \in pending' : /\ b \in Device \ {0, 1} /\ node'[b] # Blank
                              /\ node'[b].nodetype = "UNALLOCATED"
      BY <1>3, <1>4, <1>5 DEF IInv, LayoutOK
    <2> QED BY <1>5, <2>1, <2>2, <2>3 DEF IInv, LayoutOK
  <1>11. FreeListSound'
    BY <1>6, <1>7, <1>8 DEF IInv, FreeListSound
  <1>12. InUse' \subseteq InUse \cup {n}
    BY <1>4 DEF InUse
  <1>13. FreeNotInUse'
    BY <1>1, <1>3, <1>8, <1>12 DEF IInv, FreeNotInUse
  <1>14. SuperblockStored'
    BY <1>3, <1>5 DEF IInv, SuperblockStored, Attached
  <1>15. UsedBlocksMarked'
    BY <1>3, <1>12 DEF IInv, UsedBlocksMarked
  <1> QED BY <1>3, <1>8, <1>9, <1>10, <1>11, <1>13, <1>14, <1>15 DEF IInv

LEMMA StepDeallocate ==
    ASSUME IInv, NEW n \in Blocks, DeallocateNode(n), InTree(n)
    PROVE  IInv' /\ n \in InUse /\ n \in Device \ {0, 1} /\ n \notin Free
           /\ Free' = Free \cup {n} /\ Quiet
  <1>1. /\ Attached /\ n \notin {0, 1} /\ node[n] # Blank
        /\ node[n].nodetype # "UNALLOCATED"
        /\ superblock' = [superblock EXCEPT !.freelist = n]
        /\ node' = [Saved(superblock') EXCEPT ![n] = Freed(n)]
        /\ bitmap' = [c \in Device |-> c # n /\ bitmap[c]]
        /\ UNCHANGED <<pending, aborted>> /\ Quiet
    BY DEF DeallocateNode, InTree, Unmarked
  <1>2. n \in Device \ {0, 1} /\ n \in InUse /\ n \notin Free /\ n \notin pending
    BY <1>1 DEF IInv, LayoutOK, FreeNotInUse, InUse
  <1>3. /\ superblock' \in Node /\ superblock' # Blank
        /\ superblock'.freelist = n /\ superblock'.nodetype = "SUPERBLOCK"
    BY <1>1, WhileAttached, NodeAssumption DEF Node
  <1>4. Freed(n) \in Node /\ Freed(n) # Blank
        /\ Freed(n).nodetype = "UNALLOCATED" /\ Freed(n).freelist = Stored
    BY <1>1, WhileAttached, LinkIsNode, LinkFields DEF Freed
  <1>5. 0 \in Blocks /\ 1 \in Blocks /\ Device \subseteq Blocks
        /\ 0 \in Device
    BY SpaceAssumption DEF Device
  <1>6. node' = [[node EXCEPT ![0] = superblock'] EXCEPT ![n] = Freed(n)]
    BY <1>1 DEF Saved
  <1>7. /\ node'[0] = superblock' /\ node'[n] = Freed(n)
        /\ \A b \in Blocks \ {0, n} : node'[b] = node[b]
        /\ node' \in [Blocks -> Node \cup {Blank}]
    BY <1>2, <1>3, <1>4, <1>5, <1>6 DEF IInv, TypeOK
  <1>8. Stored' = n
    BY <1>3, <1>7 DEF Stored
  <1>9. \A b \in Free : node'[b] = node[b]
    BY <1>2, <1>7, FreeSubset DEF IInv, FreeListSound
  <1>10. Free' = Free \cup {n}
    BY <1>2, <1>4, <1>7, <1>8, <1>9, FreeAfterDeallocate DEF IInv
  <1>11. TypeOK'
    BY <1>1, <1>3, <1>7, QuietType DEF IInv, TypeOK
  <1>12. LayoutOK'
    <2>1. node'[1] # Blank => node'[1].nodetype = "ROOT"
      BY <1>2, <1>5, <1>7 DEF IInv, LayoutOK
    <2>2. \A b \in Blocks \ Device : node'[b] = Blank
      BY <1>2, <1>5, <1>7 DEF IInv, LayoutOK
    <2>3. \A b \in Device \ {0, 1} : node'[b] # Blank =>
              node'[b].nodetype \in {"UNALLOCATED", "INTERIOR", "LEAF"}
      BY <1>4, <1>5, <1>7 DEF IInv, LayoutOK
    <2>4. \A b \in pending' : /\ b \in Device \ {0, 1} /\ node'[b] # Blank
                              /\ node'[b].nodetype = "UNALLOCATED"
      BY <1>1, <1>2, <1>5, <1>7 DEF IInv, LayoutOK
    <2> QED BY <1>3, <1>7, <2>1, <2>2, <2>3, <2>4 DEF LayoutOK
  <1>13. FreeListSound'
    <2>1. Stored # n /\ Stored \in Free \cup {0}
      BY <1>2, FreeClosed DEF ClosedUnderLinks, IInv
    <2>2. ASSUME NEW b \in Free
          PROVE  node[b].freelist \in Free \cup {0} /\ node[b].freelist # Stored
                 /\ b \in Device \ {0, 1} /\ node[b] # Blank
                 /\ node[b].nodetype = "UNALLOCATED"
      BY FreeClosed DEF ClosedUnderLinks, IInv, FreeListSound
    <2>3. \A b \in Free' : /\ b \in Device \ {0, 1} /\ node'[b] # Blank
                           /\ node'[b].nodetype = "UNALLOCATED"
                           /\ node'[b].freelist # n
      BY <1>2, <1>4, <1>7, <1>9, <1>10, <2>1, <2>2
    <2>4. \A b, c \in Free' : node'[b].freelist = node'[c].freelist
                              /\ node'[b].freelist # 0 => b = c
      <3>1. \A b, c \in Free : node[b].freelist = node[c].freelist
                               /\ node[b].freelist # 0 => b = c
        BY DEF IInv, FreeListSound
      <3> QED BY <1>4, <1>7, <1>9, <1>10, <2>2, <3>1
    <2> QED BY <1>8, <2>3, <2>4 DEF FreeListSound
  <1>14. InUse' \subseteq InUse \ {n}
    <2>1. node[0] # Blank /\ node[0].nodetype = "SUPERBLOCK"
      BY <1>1, WhileAttached DEF IInv, LayoutOK
    <2> QED BY <1>2, <1>4, <1>5, <1>7, <2>1 DEF InUse
  <1>15. FreeNotInUse'
    BY <1>1, <1>2, <1>10, <1>14 DEF IInv, FreeNotInUse
  <1>16. SuperblockStored'
    BY <1>1, <1>7, WhileAttached DEF SuperblockStored
  <1>17. UsedBlocksMarked'
    BY <1>1, <1>2, <1>14 DEF IInv, UsedBlocksMarked
  <1> QED BY <1>1, <1>2, <1>10, <1>11, <1>12, <1>13, <1>15, <1>16, <1>17 DEF IInv
-----------------------------------------------------------------------------
\* Every step keeps the invariant and is a step of the pool, or stutters.
LEMMA SpaceStep ==
    BigEnough /\ IInv /\ [Next]_vars =>
        /\ IInv'
        /\ BlockPoolSpec!Next \/ UNCHANGED <<Free, answer>>
        /\ AttachCreate \/ Free' \ Free \subseteq InUse
  <1> DEFINE Back == AttachCreate \/ Free' \ Free \subseteq InUse
  <1> SUFFICES ASSUME BigEnough, IInv, [Next]_vars
               PROVE  /\ IInv'
                      /\ BlockPoolSpec!Next \/ UNCHANGED <<Free, answer>>
                      /\ Back
    OBVIOUS
  <1> USE DEF BlockPoolSpec!Next
  <1>1. ASSUME Quiet, Free' = Free PROVE BlockPoolSpec!Next /\ Back
    BY <1>1 DEF Quiet, BlockPoolSpec!Other, BlockPoolSpec!Quiet
  <1>2. CASE AttachCreate
    BY <1>2, StepCreate DEF PoolBlocks, Quiet, BlockPoolSpec!Create, BlockPoolSpec!Quiet
  <1>3. CASE Attach
    BY <1>1, <1>3, StepAttach
  <1>4. CASE AllocateNode
    BY <1>4, StepAllocate DEF BlockPoolSpec!Allocate
  <1>5. CASE Detach
    BY <1>1, <1>5, StepDetach
  <1>6. CASE Exit
    BY <1>1, <1>6, StepExit
  <1>7. ASSUME NEW n \in pending, NEW type \in {"INTERIOR", "LEAF"}, WriteNode(n, type)
        PROVE  IInv' /\ BlockPoolSpec!Next /\ Back
    BY <1>1, <1>7, StepWriteNode
  <1>8. ASSUME NEW n \in Blocks, DeallocateNode(n)
        PROVE  IInv' /\ BlockPoolSpec!Next /\ Back
    <2>1. CASE InTree(n)
      BY <1>8, <2>1, StepDeallocate
         DEF PoolBlocks, Quiet, BlockPoolSpec!Give, BlockPoolSpec!Quiet
    <2>2. CASE ~InTree(n)
      BY <1>1, <1>8, <2>2, StepAbort DEF DeallocateNode
    <2> QED BY <2>1, <2>2
  <1>9. CASE UNCHANGED vars
    BY <1>9, StepStutter DEF vars
  <1> QED BY <1>2, <1>3, <1>4, <1>5, <1>6, <1>7, <1>8, <1>9 DEF Next

LEMMA SpaceInvariant == ASSUME BigEnough PROVE Spec => []IInv
  BY SpaceInit, SpaceStep, PTL DEF Spec

\* On a disk of at least three blocks, whatever was created, mounted,
\* allocated, written, given back or left undetached: AllocateNode can walk
\* the list to its end.
THEOREM FreeListIsSound == ASSUME BigEnough PROVE Spec => []FreeListSound
  <1>1. IInv => FreeListSound
    BY DEF IInv
  <1> QED BY <1>1, SpaceInvariant, PTL

\* No block of the tree, and none that AllocateNode has handed out, is on the
\* free list, so it is not handed out again.
THEOREM UsedIsNotFree == ASSUME BigEnough PROVE Spec => []FreeNotInUse
  <1>1. IInv => FreeNotInUse
    BY DEF IInv
  <1> QED BY <1>1, SpaceInvariant, PTL

\* What comes back to the free list comes from the tree: no block is put on
\* it twice, and none that was handed out and never written, whichever process
\* left it so.
THEOREM BlocksComeBackFromTheTree == ASSUME BigEnough PROVE Spec => OnlyTreeBlocksComeBack
  <1>1. IInv /\ [Next]_vars => [AttachCreate \/ Free' \ Free \subseteq InUse]_vars
    BY SpaceStep
  <1> QED BY <1>1, SpaceInvariant, PTL DEF Spec, OnlyTreeBlocksComeBack

\* AllocateNode hands out a block nobody has and answers NOSPACE only when
\* none is left, for every disk of at least three blocks.
THEOREM IndexImplementsPool == ASSUME BigEnough PROVE Spec => ImplementsBlockPool
  <1>1. Init => BlockPoolSpec!Init
    <2> SUFFICES ASSUME Init PROVE BlockPoolSpec!Init
      OBVIOUS
    <2>1. Stored = 0
      BY SpaceAssumption DEF Init, Stored
    <2>2. ClosedUnderLinks({})
      BY <2>1 DEF ClosedUnderLinks
    <2>3. Free = {}
      BY <2>2, FreeLeast
    <2> QED BY <2>3 DEF Init, BlockPoolSpec!Init
  <1>2. IInv /\ [Next]_vars => [BlockPoolSpec!Next]_<<Free, answer>>
    BY SpaceStep
  <1> QED BY <1>1, <1>2, SpaceInvariant, PTL
          DEF Spec, ImplementsBlockPool, BlockPoolSpec!Spec, BlockPoolSpec!vars
-----------------------------------------------------------------------------
(* Disks of any size.  On fewer than three blocks creation leaves a        *)
(* superblock whose link leads off the device, and AllocateNode takes the  *)
(* next link from the stack; this much survives even there.                *)

AnyDisk ==
    /\ TypeOK
    /\ node[0] # Blank => node[0].nodetype = "SUPERBLOCK"
    /\ \A b \in pending :
          b # 0 /\ (node[b] # Blank => node[b].nodetype = "UNALLOCATED")
    /\ SuperblockStored
    /\ UsedBlocksMarked

LEMMA AnyDiskInit == Init => AnyDisk
  <1> SUFFICES ASSUME Init PROVE AnyDisk
    OBVIOUS
  <1>1. /\ node = [b \in Blocks |-> Blank] /\ node[0] = Blank
        /\ Device \subseteq Blocks
    BY SpaceAssumption DEF Init
  <1>2. TypeOK /\ SuperblockStored
    BY <1>1 DEF Init, TypeOK, SuperblockStored, Attached
  <1>3. InUse = {}
    BY <1>1 DEF InUse
  <1> QED BY <1>1, <1>2, <1>3 DEF Init, AnyDisk, UsedBlocksMarked

\* While an index is attached, the superblock in memory is block 0.
LEMMA AnyDiskAttached ==
    ASSUME AnyDisk, Attached
    PROVE  /\ superblock = node[0] /\ superblock \in Node /\ node[0] # Blank
           /\ superblock.nodetype = "SUPERBLOCK" /\ superblock.freelist \in Blocks
           /\ Saved(superblock) = node /\ 0 \in Blocks /\ ~aborted
  <1>1. superblock \in Node /\ superblock = node[0] /\ 0 \in Blocks /\ ~aborted
    BY SpaceAssumption DEF AnyDisk, TypeOK, SuperblockStored, Attached
  <1>2. node[0] # Blank /\ superblock.freelist \in Blocks
    BY <1>1, NodeAssumption DEF Node
  <1> QED BY <1>1, <1>2 DEF Saved, AnyDisk, TypeOK

LEMMA AnyDiskAbort ==
    ASSUME AnyDisk, Abort
    PROVE  AnyDisk'
  BY QuietType DEF Abort, AnyDisk, TypeOK, SuperblockStored, Attached, UsedBlocksMarked, InUse

\* What creation writes is a node, wherever it is written.
LEMMA AnyDiskFresh ==
    ASSUME AnyDisk, NEW b \in Blocks
    PROVE  /\ FreshNode(b) \in Node \cup {Blank}
           /\ FreshNode(0) = Link("SUPERBLOCK", 2) /\ FreshNode(0) \in Node
  <1>1. 0 \in Blocks /\ 2 \in Blocks /\ 0 \in Device
    BY SpaceAssumption DEF Device
  <1>2. b \in Device => FreshLink(b) \in Blocks
    BY SpaceAssumption DEF FreshLink, Device
  <1>3. \A f \in Blocks : Link("SUPERBLOCK", f) \in Node /\ Link("ROOT", f) \in Node
                          /\ Link("UNALLOCATED", f) \in Node
    BY LinkIsNode DEF TreeTypes
  <1>4. FreshNode(0) = Link("SUPERBLOCK", 2)
    BY DEF FreshNode
  <1>5. FreshNode(b) \in Node \cup {Blank}
    <2>1. CASE b = 0
      BY <1>1, <1>3, <1>4, <2>1
    <2>2. CASE b = 1
      BY <1>1, <1>3, <2>2 DEF FreshNode
    <2>3. CASE b \in Device \ {0, 1}
      BY <1>2, <1>3, <2>3 DEF FreshNode
    <2>4. CASE b \notin Device \cup {0, 1}
      BY <2>4 DEF FreshNode, AnyDisk, TypeOK
    <2> QED BY <2>1, <2>2, <2>3, <2>4
  <1> QED BY <1>1, <1>3, <1>4, <1>5

LEMMA AnyDiskCreate ==
    ASSUME AnyDisk, AttachCreate
    PROVE  AnyDisk'
  <1>1. /\ node' = [b \in Blocks |-> FreshNode(b)] /\ superblock' = FreshNode(0)
        /\ bitmap' = Marked({0, 1}) /\ pending' = {} /\ Quiet /\ aborted' = aborted
    BY DEF AttachCreate
  <1>2. 0 \in Blocks /\ node'[0] = superblock' /\ superblock' \in Node
        /\ superblock' = Link("SUPERBLOCK", 2)
    BY <1>1, AnyDiskFresh, SpaceAssumption
  <1>3. TypeOK'
    BY <1>1, <1>2, AnyDiskFresh, QuietType DEF AnyDisk, TypeOK, Marked
  <1>4. node'[0].nodetype = "SUPERBLOCK"
    BY <1>2, LinkFields
  <1>5. UsedBlocksMarked'
    <2> SUFFICES ASSUME NEW b \in Device, b \in InUse', b \notin {0, 1} PROVE FALSE
      BY <1>1 DEF UsedBlocksMarked, Marked
    <2>1. node'[b] = Link("UNALLOCATED", FreshLink(b))
      BY <1>1, SpaceAssumption DEF FreshNode
    <2> QED BY <2>1, LinkFields DEF InUse
  <1> QED BY <1>1, <1>2, <1>3, <1>4, <1>5 DEF AnyDisk, SuperblockStored

\* Handing out a block that is free, or was never written.
LEMMA AnyDiskHandOut ==
    ASSUME AnyDisk, Attached, NEW n \in Blocks, n # 0, NEW next \in Blocks,
           node[n] # Blank => node[n].nodetype = "UNALLOCATED", HandOut(n, next)
    PROVE  AnyDisk'
  <1>1. /\ superblock' = [superblock EXCEPT !.freelist = next]
        /\ node' = [node EXCEPT ![0] = superblock'] /\ bitmap' = Marked({n})
        /\ pending' = pending \cup {n} /\ aborted' = aborted
        /\ answer' = [rc |-> "NOERROR", block |-> n]
    BY DEF HandOut, Saved
  <1>2. superblock' \in Node /\ superblock'.nodetype = "SUPERBLOCK"
    BY <1>1, AnyDiskAttached DEF Node
  <1>3. node'[0] = superblock' /\ \A b \in Blocks \ {0} : node'[b] = node[b]
    BY <1>1, AnyDiskAttached DEF AnyDisk, TypeOK
  <1>4. TypeOK'
    BY <1>1, <1>2 DEF AnyDisk, TypeOK, Marked
  <1>5. \A b \in pending' :
            b # 0 /\ (node'[b] # Blank => node'[b].nodetype = "UNALLOCATED")
    BY <1>1, <1>3 DEF AnyDisk, TypeOK
  <1>6. InUse' \subseteq InUse
    BY <1>3, AnyDiskAttached DEF InUse
  <1>7. UsedBlocksMarked'
    BY <1>1, <1>6 DEF AnyDisk, UsedBlocksMarked, Marked
  <1> QED BY <1>2, <1>3, <1>4, <1>5, <1>7 DEF AnyDisk, SuperblockStored

LEMMA AnyDiskAllocate ==
    ASSUME AnyDisk, AllocateNode
    PROVE  AnyDisk'
  <1> DEFINE n == superblock.freelist
  <1>1. Attached /\ n \in Blocks
    BY AnyDiskAttached DEF AllocateNode
  <1>2. CASE n = 0 /\ answer' = [rc |-> "NOSPACE", block |-> None]
             /\ UNCHANGED <<node, bitmap, superblock, pending, aborted>>
    BY <1>2 DEF AnyDisk, TypeOK, SuperblockStored, Attached, UsedBlocksMarked, InUse
  <1>3. CASE n # 0 /\ ~Readable(n) /\ \E garbage \in Blocks : HandOut(n, garbage)
    BY <1>1, <1>3, AnyDiskHandOut DEF Readable
  <1>4. CASE n # 0 /\ Formatted(n) /\ FreeNode(n) /\ HandOut(n, node[n].freelist)
    <2>1. node[n].freelist \in Blocks /\ node[n].nodetype = "UNALLOCATED"
      BY <1>1, <1>4 DEF AnyDisk, TypeOK, Node, Formatted, FreeNode
    <2> QED BY <1>1, <1>4, <2>1, AnyDiskHandOut
  <1> QED BY <1>2, <1>3, <1>4, AnyDiskAbort DEF AllocateNode

LEMMA AnyDiskWriteNode ==
    ASSUME AnyDisk, NEW n \in pending, NEW type \in {"INTERIOR", "LEAF"}, WriteNode(n, type)
    PROVE  AnyDisk'
  <1>1. /\ Attached /\ node' = [node EXCEPT ![n] = Link(type, 0)] /\ n \in Blocks
        /\ pending' = pending \ {n} /\ Quiet /\ n # 0
        /\ UNCHANGED <<bitmap, superblock, aborted>>
    BY DEF WriteNode, AnyDisk, TypeOK
  <1>2. Link(type, 0) \in Node
    BY LinkIsNode, SpaceAssumption DEF TreeTypes
  <1>3. TypeOK'
    BY <1>1, <1>2, QuietType DEF AnyDisk, TypeOK
  <1>4. \A b \in Blocks \ {n} : node'[b] = node[b]
    BY <1>1 DEF AnyDisk, TypeOK
  <1>5. InUse' \subseteq InUse \cup pending
    BY <1>4 DEF InUse
  <1> QED BY <1>1, <1>3, <1>4, <1>5, SpaceAssumption
          DEF AnyDisk, TypeOK, SuperblockStored, Attached, UsedBlocksMarked

LEMMA AnyDiskDeallocate ==
    ASSUME AnyDisk, NEW n \in Blocks, DeallocateNode(n), InTree(n)
    PROVE  AnyDisk'
  <1>1. /\ Attached /\ n \notin {0, 1} /\ node[n] # Blank
        /\ node[n].nodetype # "UNALLOCATED"
        /\ superblock' = [superblock EXCEPT !.freelist = n]
        /\ node' = [[node EXCEPT ![0] = superblock'] EXCEPT ![n] = Freed(n)]
        /\ bitmap' = Unmarked(n) /\ Quiet /\ UNCHANGED <<pending, aborted>>
    BY DEF DeallocateNode, InTree, Saved
  <1>2. n # 0 /\ n \notin pending
    BY <1>1 DEF AnyDisk
  <1>3. superblock' \in Node /\ superblock'.nodetype = "SUPERBLOCK"
    BY <1>1, AnyDiskAttached DEF Node
  <1>4. Freed(n) \in Node /\ Freed(n).nodetype = "UNALLOCATED"
    BY <1>1, AnyDiskAttached, LinkIsNode, LinkFields DEF Freed
  <1>5. /\ node'[0] = superblock' /\ node'[n] = Freed(n)
        /\ \A b \in Blocks \ {0, n} : node'[b] = node[b]
    BY <1>1, <1>2, AnyDiskAttached DEF AnyDisk, TypeOK
  <1>6. TypeOK'
    BY <1>1, <1>3, <1>4, QuietType DEF AnyDisk, TypeOK, Unmarked
  <1>7. InUse' \subseteq InUse \ {n}
    <2>1. 0 \in InUse \ {n}
      BY <1>1, <1>2, AnyDiskAttached DEF InUse
    <2> QED BY <1>4, <1>5, <2>1 DEF InUse
  <1>8. UsedBlocksMarked'
    BY <1>1, <1>2, <1>7 DEF AnyDisk, UsedBlocksMarked, Unmarked
  <1>9. \A b \in pending' :
            b # 0 /\ (node'[b] # Blank => node'[b].nodetype = "UNALLOCATED")
    BY <1>1, <1>2, <1>5 DEF AnyDisk, TypeOK
  <1> QED BY <1>3, <1>5, <1>6, <1>8, <1>9 DEF AnyDisk, SuperblockStored

LEMMA AnyDiskStep == AnyDisk /\ [Next]_vars => AnyDisk'
  <1> SUFFICES ASSUME AnyDisk, [Next]_vars PROVE AnyDisk'
    OBVIOUS
  <1>1. CASE Attach
    <2>1. CASE ~Formatted(0)
      BY <1>1, <2>1, AnyDiskAbort DEF Attach
    <2>2. CASE Formatted(0)
      BY <1>1, <2>2, QuietType, SpaceAssumption
         DEF Attach, Formatted, AnyDisk, TypeOK, SuperblockStored, UsedBlocksMarked, InUse
    <2> QED BY <2>1, <2>2
  <1>2. CASE Detach
    BY <1>2, AnyDiskAttached, QuietType
       DEF Detach, AnyDisk, TypeOK, SuperblockStored, Attached, UsedBlocksMarked, InUse
  <1>3. CASE Exit
    <2>1. InUse' \subseteq InUse /\ node' \in [Blocks -> Node \cup {Blank}]
      BY <1>3 DEF Exit, InUse, AnyDisk, TypeOK
    <2>2. TypeOK' /\ SuperblockStored'
      BY <1>3, <2>1, QuietType DEF Exit, AnyDisk, TypeOK, SuperblockStored, Attached
    <2>3. node'[0] = node[0]
      BY <1>3, SpaceAssumption DEF Exit, Device
    <2> QED BY <1>3, <2>1, <2>2, <2>3 DEF Exit, AnyDisk, UsedBlocksMarked
  <1>4. CASE UNCHANGED vars
    BY <1>4 DEF vars, AnyDisk, TypeOK, SuperblockStored, Attached, UsedBlocksMarked, InUse
  <1>5. ASSUME NEW n \in Blocks, DeallocateNode(n) PROVE AnyDisk'
    BY <1>5, AnyDiskDeallocate, AnyDiskAbort DEF DeallocateNode
  <1> QED BY <1>1, <1>2, <1>3, <1>4, <1>5, AnyDiskCreate, AnyDiskAllocate,
             AnyDiskWriteNode DEF Next

LEMMA AnyDiskInvariant == Spec => []AnyDisk
  BY AnyDiskInit, AnyDiskStep, PTL DEF Spec

\* Every variable keeps its type, whatever blocks the disk has.
THEOREM SpaceTypeCorrect == Spec => []TypeOK
  <1>1. AnyDisk => TypeOK
    BY DEF AnyDisk
  <1> QED BY <1>1, AnyDiskInvariant, PTL

\* A process may end without Detach: block 0 is always up to date, on a disk
\* of any size.
THEOREM DetachIsOptional == Spec => []SuperblockStored
  <1>1. AnyDisk => SuperblockStored
    BY DEF AnyDisk
  <1> QED BY <1>1, AnyDiskInvariant, PTL

\* What the index uses is marked in the bitmap of the disk, even where the
\* links have run off the device.
THEOREM UsedIsMarked == Spec => []UsedBlocksMarked
  <1>1. AnyDisk => UsedBlocksMarked
    BY DEF AnyDisk
  <1> QED BY <1>1, AnyDiskInvariant, PTL

\* AllocateNode never returns a block that holds a node of the tree, on a
\* disk of any size: where the block can be read its type is asserted, and
\* where it cannot be read nothing was ever written to it.
THEOREM TreeIsNeverHandedOut == Spec => TreeBlocksNeverHandedOut
  <1>1. [Next]_vars => [answer'.rc = "NOERROR" => answer'.block \notin InUse]_vars
    <2> SUFFICES ASSUME Next, answer'.rc = "NOERROR"
                 PROVE  answer'.block \notin InUse
      OBVIOUS
    <2>1. ~Quiet
      BY DEF Quiet
    <2>2. AllocateNode
      BY <2>1 DEF Next, AttachCreate, Attach, Abort, Detach, Exit, WriteNode, DeallocateNode
    <2> DEFINE n == superblock.freelist
    <2>3. answer'.block = n /\ (Readable(n) => FreeNode(n))
      BY <2>1, <2>2 DEF AllocateNode, HandOut, Abort
    <2> QED BY <2>3 DEF InUse, Readable, FreeNode
  <1> QED BY <1>1, PTL DEF Spec, TreeBlocksNeverHandedOut
=============================================================================
