-------------------------- MODULE BTreeToolsProofs --------------------------
(***************************************************************************)
(* Searching and listing are right in every tree, for every set of keys    *)
(* and every order of calls, processes and deaths.                         *)
(*                                                                         *)
(* Nothing is said of the height of a tree, and no induction over it is    *)
(* needed: `below' says at each node what a search there would find, and   *)
(* the invariants speak of the nodes that are still to be visited.         *)
(***************************************************************************)
EXTENDS BTreeTools, SequenceTheorems, TLAPS

Proper == TreeTypes \cup {"LEAF"}

\* As many values as keys, and one pointer more.
WellFormed(n) ==
    n # Blank =>
        /\ n.nodetype = "LEAF" => Len(n.val) = Len(n.key)
        /\ n.nodetype \in TreeTypes => Len(n.ptr) = Len(n.key) + 1

Nodes ==
    /\ \A b \in Device : WellFormed(mem[b]) /\ WellFormed(disk[b])
    /\ Pairs(mem) \subseteq stored /\ Pairs(disk) \subseteq stored

\* The index that is used is the one in memory, and it is a tree.
Whole ==
    intact =>
        /\ \A b \in Device : mem[b] # Blank
        /\ SearchTree(mem, below)
        /\ mem[mem[0].rootnode].nodetype \in Proper
        /\ index # "none" => rootnode = mem[0].rootnode

\* What is still to be visited.
Visits ==
    /\ call # "none" => index # "none" /\ tool # "none"
    /\ tool # "none" /\ index = "none" => answer = NoAnswer
    /\ call = "LOOKUP" => Len(todo) = 1
    /\ call # "DISPLAY" => shown = <<>>
    /\ call # "none" /\ intact =>
          \A i \in 1 .. Len(todo) : mem[todo[i]].nodetype \in Proper

Increasing(s) == \A i, j \in 1 .. Len(s) : i < j => s[i] < s[j]
Elements(s)   == {s[i] : i \in 1 .. Len(s)}

Under(s, d)   == UNION {d[s[j]] : j \in 1 .. Len(s)}
Ordered(s, d) == \A i, j \in 1 .. Len(s) : i < j =>
                    \A k \in d[s[i]], l \in d[s[j]] : k < l
Before(S, T)  == \A k \in S, l \in T : k < l

\* A listing shows what is under the nodes it has left behind, and all of that
\* comes before what is under those to come, which are in order as well.
Listing ==
    call = "DISPLAY" /\ intact =>
        /\ Increasing(shown)
        /\ Before(Elements(shown), Under(todo, below))
        /\ Ordered(todo, below)
        /\ below[rootnode] = Elements(shown) \cup Under(todo, below)

\* What an abort has left is not one whole index.
AbortedWithoutIndex == answer.rc = "ABORT" => ~intact

Answers ==
    /\ LookupIsRight
    /\ FoundWasStored
    /\ ListingIsComplete
    /\ AbortedWithoutIndex

IInv == TypeOK /\ Nodes /\ Whole /\ Visits /\ NothingSkipped /\ Listing /\ Answers
-----------------------------------------------------------------------------
LEMMA NodeType ==
    ASSUME NEW n \in Node
    PROVE  /\ n.nodetype \in {"UNALLOCATED", "SUPERBLOCK", "LEAF", "ROOT", "INTERIOR"}
           /\ n.rootnode \in Device /\ n.key \in Seq(Keys)
           /\ n.ptr \in Seq(Device) /\ n.val \in Seq(Values)
           /\ n # Blank
  BY ToolsAssumption DEF Node, TreeTypes

LEMMA SmallFacts ==
    /\ 0 \in Device /\ 1 \in Device
    /\ SomeArg \in Args
    /\ \A a \in Args : /\ a.lo \in Int /\ a.hi \in Int /\ a.exact \in BOOLEAN
                       /\ a.exact => a.lo = a.hi
    /\ \A k \in Keys : k \in Int
  <1>1. 0 \in Device /\ 1 \in Device
    BY ToolsAssumption DEF Device
  <1>2. SomeArg \in Args
    BY ToolsAssumption DEF SomeArg
  <1> QED BY <1>1, <1>2, ToolsAssumption DEF ArgType

LEMMA EmptyType ==
    ASSUME NEW type \in {"UNALLOCATED", "SUPERBLOCK", "LEAF"} \cup TreeTypes
    PROVE  /\ EmptyNode(type) \in Node
           /\ EmptyNode(type).nodetype = type /\ EmptyNode(type).rootnode = 1
           /\ EmptyNode(type).key = <<>> /\ EmptyNode(type).val = <<>>
           /\ type = "ROOT" => EmptyNode(type).ptr = << 0 >>
  BY SmallFacts DEF EmptyNode, Node

\* A search tree is well formed.
LEMMA TreeWellFormed ==
    ASSUME NEW t, NEW d, SearchTree(t, d)
    PROVE  \A b \in Device : WellFormed(t[b])
  BY DEF SearchTree, WellFormed

\* Nodes without keys are a tree.
LEMMA KeylessTree ==
    ASSUME NEW t \in [Device -> Node], NEW d \in [Device -> {{}}],
           \A b \in Device : t[b].nodetype # "LEAF",
           \A b \in Device : t[b].nodetype \in TreeTypes => t[b].key = <<>> /\ t[b].ptr = << 0 >>
    PROVE  SearchTree(t, d) /\ Pairs(t) = {}
  <1>1. ASSUME NEW b \in Device, t[b].nodetype \in TreeTypes
        PROVE  /\ t[b].key = <<>> /\ Len(t[b].key) = 0 /\ 1 .. Len(t[b].key) = {}
               /\ Len(t[b].ptr) = 1
               /\ d[b] = {}
    <2>1. t[b].key = <<>> /\ t[b].ptr = << 0 >>
      BY <1>1
    <2>2. Len(<<>>) = 0 /\ Len(<< 0 >>) = 1
      OBVIOUS
    <2> QED BY <2>1, <2>2
  <1>2. ASSUME NEW b \in Device, t[b].nodetype \in TreeTypes
        PROVE  Len(t[b].ptr) = Len(t[b].key) + 1
    <2>1. \A x, y : x = 0 /\ y = 1 => y = x + 1
      OBVIOUS
    <2>2. Len(t[b].key) = 0 /\ Len(t[b].ptr) = 1
      BY <1>1, <1>2
    <2> QED BY <2>1, <2>2
  <1>3. SearchTree(t, d)
    BY <1>1, <1>2 DEF SearchTree
  <1> QED BY <1>3 DEF Pairs

\* A fresh index is a tree without keys.
LEMMA FreshTree ==
    ASSUME NEW t, t = [b \in Device |-> Fresh(b)]
    PROVE  /\ t \in [Device -> Node]
           /\ \A b \in Device : WellFormed(t[b])
           /\ Pairs(t) = {}
           /\ SearchTree(t, [b \in Device |-> {}])
           /\ t[0].rootnode = 1 /\ t[1].nodetype \in Proper
  <1>1. \A b \in Device : /\ t[b] \in Node /\ t[b].nodetype # "LEAF"
                          /\ t[b].nodetype \in TreeTypes => t[b].key = <<>> /\ t[b].ptr = << 0 >>
    BY EmptyType DEF Fresh, TreeTypes
  <1>2. t \in [Device -> Node]
    BY <1>1
  <1>3. t[0].rootnode = 1 /\ t[1].nodetype \in Proper
    BY SmallFacts, EmptyType DEF Fresh, TreeTypes, Proper
  <1>4. [b \in Device |-> {}] \in [Device -> {{}}]
    OBVIOUS
  <1>5. SearchTree(t, [b \in Device |-> {}]) /\ Pairs(t) = {}
    BY <1>1, <1>2, <1>4, KeylessTree
  <1> QED BY <1>2, <1>3, <1>5, TreeWellFormed

LEMMA InitOK == Init => IInv
  <1> SUFFICES ASSUME Init PROVE IInv
    OBVIOUS
  <1>0. NoAnswer.op = "none" /\ NoAnswer.rc = "NOERROR" /\ NoAnswer.arg = SomeArg
        /\ NoAnswer.value = NoValue /\ NoAnswer.shown = <<>> /\ answer = NoAnswer
    BY DEF Init, NoAnswer
  <1>1. /\ disk \in Contents /\ below \in [Device -> SUBSET Keys] /\ mem = disk
        /\ \A b \in Device : WellFormed(mem[b])
        /\ disk[0] # Blank => \E t \in Trees : disk = t.node /\ below = t.below
    <2>1. CASE disk = [b \in Device |-> Blank] /\ below = [b \in Device |-> {}]
      BY <2>1, SmallFacts DEF Init, Contents, WellFormed
    <2>2. ASSUME NEW t \in Trees, disk = t.node, below = t.below
          PROVE  /\ disk \in Contents /\ below \in [Device -> SUBSET Keys]
                 /\ \A b \in Device : WellFormed(disk[b])
      BY <2>2, TreesAssumption, TreeWellFormed DEF Contents
    <2> QED BY <2>1, <2>2 DEF Init
  <1>2. TypeOK
    <2>1. Pairs(disk) \subseteq Keys \X Values
      <3> SUFFICES ASSUME NEW b \in Device, disk[b] # Blank, disk[b].nodetype = "LEAF",
                          NEW i \in 1 .. Len(disk[b].key)
                   PROVE  disk[b].key[i] \in Keys /\ disk[b].val[i] \in Values
        BY DEF Pairs
      <3>1. disk[b] \in Node
        BY <1>1 DEF Contents
      <3> QED BY <1>1, <3>1, NodeType DEF WellFormed
    <2> QED BY <1>0, <1>1, <2>1, SmallFacts DEF Init, TypeOK
  <1>3. Nodes
    BY <1>1 DEF Init, Nodes
  <1>4. Whole
    BY <1>1, TreesAssumption, NodeType DEF Init, Whole, Proper
  <1> QED BY <1>0, <1>2, <1>3, <1>4
          DEF Init, IInv, Visits, NothingSkipped, Listing, Answers, LookupIsRight, FoundWasStored,
              ListingIsComplete, AbortedWithoutIndex
-----------------------------------------------------------------------------
USE DEF process, search, history

\* The actions that only move the control.
LEMMA NoAnswerFacts ==
    /\ NoAnswer.op = "none" /\ NoAnswer.rc = "NOERROR" /\ NoAnswer.arg = SomeArg
    /\ NoAnswer.value = NoValue /\ NoAnswer.shown = <<>>
  BY DEF NoAnswer

\* An answer that is neither of a search nor of a listing nor an abort.
LEMMA OtherAnswer ==
    ASSUME answer'.op \notin {"LOOKUP", "DISPLAY"}, answer'.rc # "ABORT"
    PROVE  Answers'
  BY DEF Answers, LookupIsRight, FoundWasStored, ListingIsComplete, AbortedWithoutIndex

\* Between two calls nothing is under way.
LEMMA NoCall ==
    ASSUME call' = "none"
    PROVE  /\ NothingSkipped' /\ Listing'
           /\ /\ shown' = <<>>
              /\ (tool # "none" /\ index = "none" => answer = NoAnswer)'
              => Visits'
  BY DEF NothingSkipped, Listing, Visits

\* The types of an answer without a value or a listing.
LEMMA EmptyAnswer ==
    ASSUME answer'.op \in {"none", "INIT", "ATTACH", "LOOKUP", "DISPLAY", "STUB", "DEINIT"},
           answer'.rc \in {"NOERROR", "NONEXISTENT", "INSANE", "UNIMPL", "ABORT"},
           answer'.arg = SomeArg, answer'.value = NoValue, answer'.shown = <<>>,
           (/\ disk \in Contents /\ mem \in Contents
            /\ tool \in Tools \cup {"none"}
            /\ index \in {"none", "attached", "deleted", "done"}
            /\ rootnode \in Device
            /\ call \in {"none", "LOOKUP", "DISPLAY"}
            /\ arg \in Args
            /\ todo \in Seq(Device) /\ shown \in Seq(Keys)
            /\ below \in [Device -> SUBSET Keys]
            /\ intact \in BOOLEAN
            /\ stored \in SUBSET (Keys \X Values))'
    PROVE  TypeOK'
  <1>1. answer'.shown \in Seq(Keys)
    OBVIOUS
  <1> QED BY <1>1, SmallFacts DEF TypeOK

LEMMA StartOK ==
    ASSUME IInv, NEW t \in Tools, Start(t)
    PROVE  IInv'
  <1>1. TypeOK'
    BY NoAnswerFacts, EmptyAnswer DEF IInv, TypeOK, Start
  <1>2. Nodes' /\ Whole'
    BY DEF IInv, Nodes, Whole, Start
  <1>3. call' = "none" /\ shown' = <<>> /\ answer' = NoAnswer
    BY DEF IInv, TypeOK, Visits, Start
  <1> QED BY <1>1, <1>2, <1>3, NoCall, OtherAnswer, NoAnswerFacts DEF IInv

LEMMA DiesOK ==
    ASSUME IInv, Dies,
           answer' = NoAnswer
           \/ \E op \in {"ATTACH", "LOOKUP", "DISPLAY"} : ~intact
                 /\ answer' = [NoAnswer EXCEPT !.op = op, !.rc = "ABORT"]
    PROVE  IInv'
  <1>0. PICK B \in SUBSET Unwritten :
           disk' = [b \in Device |-> IF b \in B THEN mem[b] ELSE disk[b]]
    BY DEF Dies
  <1>1. disk' \in Contents
    BY <1>0 DEF IInv, TypeOK, Contents
  <1>2. TypeOK'
    <2>1. answer'.op \in {"none", "ATTACH", "LOOKUP", "DISPLAY"} /\ answer'.arg = SomeArg
          /\ answer'.rc \in {"NOERROR", "ABORT"} /\ answer'.value = NoValue
          /\ answer'.shown = <<>>
      BY NoAnswerFacts DEF NoAnswer
    <2> QED BY <1>1, <2>1, SmallFacts DEF IInv, TypeOK, Dies, NoProcess, NoSearch
  <1>3. Nodes'
    <2>1. \A b \in Device : disk'[b] = mem[b] \/ disk'[b] = disk[b]
      BY <1>0
    <2>2. \A b \in Device : WellFormed(disk'[b])
      BY <2>1 DEF IInv, Nodes
    <2>3. Pairs(disk') \subseteq Pairs(mem) \cup Pairs(disk)
      BY <2>1 DEF Pairs
    <2> QED BY <2>2, <2>3 DEF IInv, Nodes, Dies
  <1>4. Whole'
    BY DEF IInv, Whole, Dies, NoProcess
  <1>5. NothingSkipped' /\ Listing' /\ Visits'
    BY NoCall DEF Dies, NoProcess, NoSearch
  <1>6. Answers'
    <2>1. CASE answer' = NoAnswer
      BY <2>1, OtherAnswer, NoAnswerFacts
    <2>2. CASE ~intact /\ \E op \in {"ATTACH", "LOOKUP", "DISPLAY"} :
                 answer' = [NoAnswer EXCEPT !.op = op, !.rc = "ABORT"]
      BY <2>2, NoAnswerFacts
         DEF Dies, NoAnswer, Answers, LookupIsRight, FoundWasStored, ListingIsComplete,
             AbortedWithoutIndex
    <2> QED BY <2>1, <2>2
  <1> QED BY <1>2, <1>3, <1>4, <1>5, <1>6 DEF IInv

LEMMA KillOK ==
    ASSUME IInv, Kill
    PROVE  IInv'
  BY DiesOK DEF Kill

LEMMA AttachOK ==
    ASSUME IInv, Attach
    PROVE  IInv'
  <1>1. CASE mem[0] = Blank
    <2>1. ~intact
      BY <1>1, SmallFacts DEF IInv, Whole
    <2> QED BY <1>1, <2>1, DiesOK DEF Attach, Abort
  <1>2. CASE mem[0] # Blank
    <2>1. mem[0].rootnode \in Device
      BY <1>2, SmallFacts, NodeType DEF IInv, TypeOK, Contents
    <2>2. TypeOK'
      BY <1>2, <2>1 DEF IInv, TypeOK, Attach
    <2>3. Nodes' /\ Whole'
      BY <1>2 DEF IInv, Nodes, Whole, Attach
    <2>4. answer' = NoAnswer /\ call' = "none" /\ shown' = <<>>
      BY <1>2 DEF IInv, TypeOK, Visits, Attach
    <2> QED BY <2>2, <2>3, <2>4, NoCall, OtherAnswer, NoAnswerFacts DEF IInv
  <1> QED BY <1>1, <1>2

LEMMA AttachCreateOK ==
    ASSUME IInv, AttachCreate
    PROVE  IInv'
  <1>1. /\ mem' \in [Device -> Node] /\ \A b \in Device : WellFormed(mem'[b])
        /\ Pairs(mem') = {} /\ SearchTree(mem', below')
        /\ mem'[0].rootnode = 1 /\ mem'[1].nodetype \in Proper
    BY FreshTree DEF AttachCreate
  <1>2. answer'.op = "INIT" /\ answer'.rc = "NOERROR" /\ answer'.arg = SomeArg
        /\ answer'.value = NoValue /\ answer'.shown = <<>>
    BY DEF AttachCreate, NoAnswer
  <1>3. TypeOK'
    <2>1. mem' \in Contents /\ below' \in [Device -> SUBSET Keys]
      BY <1>1 DEF AttachCreate, Contents
    <2> QED BY <1>2, <2>1, SmallFacts, EmptyAnswer DEF AttachCreate, IInv, TypeOK
  <1>4. Nodes'
    BY <1>1 DEF AttachCreate, IInv, Nodes
  <1>5. Whole'
    <2>1. \A b \in Device : mem'[b] # Blank
      BY <1>1, NodeType
    <2> QED BY <1>1, <2>1 DEF AttachCreate, Whole
  <1>6. call' = "none" /\ shown' = <<>> /\ index' # "none"
    BY DEF AttachCreate, Idle, IInv, TypeOK, Visits
  <1> QED BY <1>2, <1>3, <1>4, <1>5, <1>6, NoCall, OtherAnswer DEF IInv

LEMMA UnimplementedOK ==
    ASSUME IInv, Unimplemented
    PROVE  IInv'
  <1>1. answer'.op = "STUB" /\ answer'.rc = "UNIMPL" /\ answer'.arg = SomeArg
        /\ answer'.value = NoValue /\ answer'.shown = <<>>
    BY DEF Unimplemented, NoAnswer
  <1>2. index # "none" /\ index' # "none" /\ index' \in {"none", "attached", "deleted", "done"}
    BY DEF Unimplemented, MayCall
  <1>3. TypeOK'
    BY <1>1, <1>2, EmptyAnswer DEF Unimplemented, IInv, TypeOK
  <1>4. Nodes' /\ Whole'
    BY <1>2 DEF Unimplemented, IInv, Nodes, Whole
  <1>5. call' = "none" /\ shown' = <<>>
    BY DEF Unimplemented, MayCall, Idle, IInv, Visits
  <1> QED BY <1>1, <1>2, <1>3, <1>4, <1>5, NoCall, OtherAnswer DEF IInv

LEMMA DeinitOK ==
    ASSUME IInv, Deinit
    PROVE  IInv'
  <1>1. answer'.op = "DEINIT" /\ answer'.rc = "NOERROR" /\ answer'.arg = SomeArg
        /\ answer'.value = NoValue /\ answer'.shown = <<>>
    BY DEF Deinit, NoAnswer
  <1>0. /\ disk' \in Contents
        /\ \A b \in Device : disk'[b] = mem[b] \/ disk'[b] = disk[b]
    BY DEF Deinit, IInv, TypeOK, Contents
  <1>2. TypeOK'
    BY <1>0, <1>1, EmptyAnswer DEF Deinit, IInv, TypeOK
  <1>3. Nodes' /\ Whole'
    <2>1. \A b \in Device : WellFormed(disk'[b])
      BY <1>0 DEF IInv, Nodes
    <2>2. Pairs(disk') \subseteq Pairs(mem) \cup Pairs(disk)
      BY <1>0 DEF Pairs
    <2> QED BY <2>1, <2>2 DEF Deinit, IInv, Nodes, Whole
  <1>4. call' = "none" /\ shown' = <<>> /\ index' # "none"
    BY DEF Deinit, Idle, IInv, Visits
  <1> QED BY <1>1, <1>2, <1>3, <1>4, NoCall, OtherAnswer DEF IInv

LEMMA ExitOK ==
    ASSUME IInv, Exit
    PROVE  IInv'
  <1>1. TypeOK'
    BY NoAnswerFacts, SmallFacts, EmptyAnswer DEF Exit, NoProcess, IInv, TypeOK
  <1>2. Nodes' /\ Whole'
    BY DEF Exit, NoProcess, IInv, Nodes, Whole
  <1>3. call' = "none" /\ shown' = <<>> /\ answer' = NoAnswer
    BY DEF Exit, Idle, IInv, Visits
  <1> QED BY <1>1, <1>2, <1>3, NoCall, OtherAnswer, NoAnswerFacts DEF IInv

LEMMA LookupOK ==
    ASSUME IInv, NEW a \in Args, Lookup(a)
    PROVE  IInv'
  <1>1. index # "none" /\ index' # "none" /\ index' \in {"none", "attached", "deleted", "done"}
        /\ tool # "none"
    BY DEF Lookup, MayCall
  <1>2. todo' = <<rootnode>> /\ Len(todo') = 1 /\ todo'[1] = rootnode /\ Head(todo') = rootnode
    BY DEF Lookup
  <1>3. TypeOK'
    BY <1>1, <1>2, NoAnswerFacts, EmptyAnswer DEF Lookup, IInv, TypeOK
  <1>4. Nodes' /\ Whole'
    BY <1>1 DEF Lookup, IInv, Nodes, Whole
  <1>5. Visits'
    BY <1>1, <1>2 DEF Lookup, MayCall, Idle, IInv, Whole, Visits
  <1>6. NothingSkipped' /\ Listing'
    BY <1>2 DEF Lookup, NothingSkipped, Listing
  <1>7. Answers'
    BY OtherAnswer, NoAnswerFacts DEF Lookup
  <1> QED BY <1>3, <1>4, <1>5, <1>6, <1>7 DEF IInv

LEMMA DisplayOK ==
    ASSUME IInv, Display
    PROVE  IInv'
  <1>1. index # "none" /\ index' # "none" /\ index' \in {"none", "attached", "deleted", "done"}
        /\ tool # "none"
    BY DEF Display, MayCall
  <1>2. todo' = <<rootnode>> /\ Len(todo') = 1 /\ todo'[1] = rootnode
    BY DEF Display
  <1>3. TypeOK'
    BY <1>1, <1>2, NoAnswerFacts, EmptyAnswer DEF Display, IInv, TypeOK
  <1>4. Nodes' /\ Whole'
    BY <1>1 DEF Display, IInv, Nodes, Whole
  <1>5. Visits'
    BY <1>1, <1>2 DEF Display, IInv, Whole, Visits
  <1>6. Listing'
    <2>1. shown' = <<>> /\ Len(shown') = 0
      BY DEF Display, MayCall, Idle, IInv, Visits
    <2>2. Elements(shown') = {} /\ Increasing(shown')
      BY <2>1 DEF Elements, Increasing
    <2>3. Under(todo', below') = below'[rootnode'] /\ Ordered(todo', below')
      BY <1>2 DEF Under, Ordered, Display
    <2> QED BY <2>2, <2>3 DEF Listing, Before
  <1>7. Answers' /\ NothingSkipped'
    BY OtherAnswer, NoAnswerFacts DEF Display, NothingSkipped
  <1> QED BY <1>3, <1>4, <1>5, <1>6, <1>7 DEF IInv
-----------------------------------------------------------------------------
\* Searching.

\* Where the comparisons let a search go on there is the key, if anywhere.
LEMMA StepIsRight ==
    ASSUME NEW t, NEW d, SearchTree(t, d), NEW b \in Device,
           t[b] \in Node, t[b].nodetype \in TreeTypes, t[b].key # <<>>,
           arg.exact, arg.lo \in Int, arg.lo = arg.hi, arg.exact \in BOOLEAN,
           NEW i \in 1 .. Len(t[b].key) + 1, StopsAt(t[b], i)
    PROVE  /\ t[b].ptr[i] \in Device
           /\ t[t[b].ptr[i]].nodetype \in Proper
           /\ arg.lo \in d[b] <=> arg.lo \in d[t[b].ptr[i]]
  <1> DEFINE n == t[b]
  <1>1. /\ Len(n.key) \in Nat /\ DOMAIN n.key = 1 .. Len(n.key)
        /\ \A j \in 1 .. Len(n.key) : n.key[j] \in Int
        /\ \A j \in 1 .. Len(n.ptr) : n.ptr[j] \in Device
    BY NodeType, SmallFacts
  <1>2. /\ Len(n.ptr) = Len(n.key) + 1
        /\ d[b] = UNION {d[n.ptr[j]] : j \in 1 .. Len(n.ptr)}
        /\ \A j \in 1 .. Len(n.ptr) : t[n.ptr[j]].nodetype \in Proper
        /\ \A h \in 1 .. Len(n.key), j \in 1 .. Len(n.ptr) : \A k \in d[n.ptr[j]] :
              IF j <= h THEN k <= n.key[h] ELSE n.key[h] < k
    BY NodeType DEF SearchTree, Proper
  <1>3. /\ i \in 1 .. Len(n.key) => arg.lo <= n.key[i]
        /\ \A j \in 1 .. i - 1 : ~(arg.lo <= n.key[j])
    BY <1>1 DEF StopsAt, MayBeUpTo, MayBeAbove, Undecided
  <1>4. ASSUME NEW j \in 1 .. Len(n.ptr), arg.lo \in d[n.ptr[j]]
        PROVE  j = i
    <2>1. CASE j < i
      <3>1. j \in 1 .. Len(n.key) /\ j \in 1 .. i - 1
        BY <1>1, <2>1
      <3>2. arg.lo <= n.key[j]
        BY <1>2, <1>4, <3>1
      <3> QED BY <1>3, <3>1, <3>2
    <2>2. CASE i < j
      <3>1. i \in 1 .. Len(n.key)
        BY <1>1, <1>2, <2>2
      <3>2. n.key[i] < arg.lo
        BY <1>1, <1>2, <1>4, <2>2, <3>1
      <3> QED BY <1>1, <1>3, <3>1, <3>2
    <2> QED BY <1>1, <1>2, <2>1, <2>2
  <1> QED BY <1>1, <1>2, <1>4

LEMMA VisitFacts ==
    ASSUME IInv, call # "none", todo # <<>>
    PROVE  /\ Head(todo) \in Device /\ Tail(todo) \in Seq(Device)
           /\ Head(todo) = todo[1] /\ 1 \in 1 .. Len(todo)
           /\ todo = <<Head(todo)>> \o Tail(todo)
           /\ mem[Head(todo)] # Blank => mem[Head(todo)] \in Node
           /\ WellFormed(mem[Head(todo)])
           /\ intact => mem[Head(todo)] # Blank /\ mem[Head(todo)].nodetype \in Proper
           /\ index # "none" /\ tool # "none"
           /\ arg.lo \in Int /\ arg.hi \in Int /\ arg.exact \in BOOLEAN
           /\ arg.exact => arg.lo = arg.hi
  <1>1. todo \in Seq(Device)
    BY DEF IInv, TypeOK
  <1>2. /\ Head(todo) \in Device /\ Tail(todo) \in Seq(Device)
        /\ Head(todo) = todo[1] /\ 1 \in 1 .. Len(todo)
        /\ todo = <<Head(todo)>> \o Tail(todo)
    BY <1>1
  <1>3. /\ mem[Head(todo)] # Blank => mem[Head(todo)] \in Node
        /\ WellFormed(mem[Head(todo)])
        /\ intact => mem[Head(todo)] # Blank /\ mem[Head(todo)].nodetype \in Proper
    BY <1>2 DEF IInv, TypeOK, Contents, Nodes, Whole, Visits
  <1> QED BY <1>2, <1>3, SmallFacts DEF IInv, TypeOK, Visits

\* What a search answers is right if it is right for the node it has come to.
LEMMA ReturnsOK ==
    ASSUME IInv, call = "LOOKUP", todo # <<>>,
           NEW rc \in {"NOERROR", "NONEXISTENT", "INSANE"}, NEW w \in Values \cup {NoValue},
           Returns(rc, w),
           intact /\ arg.exact =>
              /\ rc # "INSANE"
              /\ rc = "NOERROR" <=> arg.lo \in below[Head(todo)]
              /\ rc = "NOERROR" => <<arg.lo, w>> \in Pairs(mem),
           rc = "NOERROR" => \E k \in arg.lo .. arg.hi : <<k, w>> \in stored
    PROVE  IInv'
  <1>1. /\ answer'.op = "LOOKUP" /\ answer'.arg = arg /\ answer'.rc = rc
        /\ answer'.value = w /\ answer'.shown = <<>>
    BY DEF Returns, NoAnswer
  <1>2. TypeOK'
    <2>1. answer'.shown \in Seq(Keys)
      BY <1>1
    <2>2. todo' \in Seq(Device) /\ shown' \in Seq(Keys)
      BY DEF Returns, NoSearch
    <2> QED BY <1>1, <2>1, <2>2, SmallFacts DEF IInv, TypeOK, Returns, NoSearch
  <1>3. Nodes' /\ Whole'
    BY DEF IInv, Nodes, Whole, Returns
  <1>4. call' = "none" /\ shown' = <<>> /\ index' # "none"
    BY VisitFacts DEF Returns, NoSearch
  <1>5. Answers'
    <2>1. LookupIsRight'
      <3>1. intact' = intact /\ below' = below /\ rootnode' = rootnode /\ mem' = mem
        BY DEF Returns
      <3>2. intact /\ arg.exact => (arg.lo \in below[rootnode] <=> arg.lo \in below[Head(todo)])
        BY DEF IInv, NothingSkipped
      <3>3. intact /\ arg.exact =>
               /\ rc \in {"NOERROR", "NONEXISTENT"}
               /\ rc = "NOERROR" <=> arg.lo \in below[rootnode]
               /\ rc = "NOERROR" => <<arg.lo, w>> \in Pairs(mem)
        BY <3>2
      <3> QED BY <1>1, <3>1, <3>3 DEF LookupIsRight
    <2>2. FoundWasStored'
      <3>1. stored' = stored
        BY DEF Returns
      <3> SUFFICES ASSUME answer'.rc = "NOERROR"
                   PROVE  \E k \in answer'.arg.lo .. answer'.arg.hi : <<k, answer'.value>> \in stored'
        BY DEF FoundWasStored
      <3> QED BY <1>1, <3>1
    <2>3. ListingIsComplete' /\ AbortedWithoutIndex'
      BY <1>1 DEF ListingIsComplete, AbortedWithoutIndex
    <2> QED BY <2>1, <2>2, <2>3 DEF Answers
  <1> QED BY <1>2, <1>3, <1>4, <1>5, NoCall DEF IInv

LEMMA LookupVisitOK ==
    ASSUME IInv, LookupVisit
    PROVE  IInv'
  <1> DEFINE b == Head(todo)
             n == mem[b]
  <1>1. call = "LOOKUP" /\ todo # <<>>
    <2>1. Len(todo) = 1
      BY DEF LookupVisit, IInv, Visits
    <2> QED BY <2>1 DEF LookupVisit
  <1>2. /\ b \in Device /\ WellFormed(n)
        /\ n # Blank => n \in Node
        /\ intact => n # Blank /\ n.nodetype \in Proper
        /\ index # "none" /\ tool # "none"
        /\ arg.lo \in Int /\ arg.hi \in Int /\ arg.exact \in BOOLEAN
        /\ arg.exact => arg.lo = arg.hi
    BY <1>1, VisitFacts
  <1>3. n # Blank =>
           /\ Len(n.key) \in Nat /\ DOMAIN n.key = 1 .. Len(n.key)
           /\ \A i \in 1 .. Len(n.key) : n.key[i] \in Keys /\ n.key[i] \in Int
           /\ \A i \in 1 .. Len(n.ptr) : n.ptr[i] \in Device
           /\ \A i \in 1 .. Len(n.val) : n.val[i] \in Values
    BY <1>2, NodeType, SmallFacts
  <1>4. intact => SearchTree(mem, below)
    BY DEF IInv, Whole
  <1>5. CASE n = Blank /\ Abort("LOOKUP")
    BY <1>2, <1>5, DiesOK DEF Abort
  <1>6. ASSUME n # Blank, n.nodetype \in TreeTypes, n.key # <<>>,
               NEW i \in 1 .. Len(n.key) + 1, StopsAt(n, i), todo' = <<Child(n, i)>>,
               UNCHANGED <<disk, mem, process, call, arg, shown, answer, history>>
        PROVE  IInv'
    <2>1. Child(n, i) \in Device
      BY <1>2, <1>3, <1>6 DEF WellFormed, Child
    <2>2. todo' \in Seq(Device) /\ Len(todo') = 1 /\ todo'[1] = Child(n, i)
          /\ Head(todo') = Child(n, i)
      BY <1>6, <2>1
    <2>3. TypeOK'
      BY <1>6, <2>2 DEF IInv, TypeOK
    <2>4. Nodes' /\ Whole'
      BY <1>6 DEF IInv, Nodes, Whole
    <2>5. intact => mem[Child(n, i)].nodetype \in Proper
      BY <1>2, <1>3, <1>4, <1>6 DEF SearchTree, Proper, Child
    <2>6. Visits'
      BY <1>6, <2>2, <2>5 DEF IInv, Visits
    <2>7. intact /\ arg.exact => (arg.lo \in below[b] <=> arg.lo \in below[Child(n, i)])
      BY <1>2, <1>4, <1>6, StepIsRight DEF Child
    <2>8. NothingSkipped'
      BY <1>1, <1>6, <2>2, <2>7 DEF IInv, NothingSkipped
    <2>9. Listing'
      BY <1>1, <1>6 DEF Listing
    <2>10. Answers'
      BY <1>6 DEF IInv, Answers, LookupIsRight, FoundWasStored, ListingIsComplete,
                  AbortedWithoutIndex
    <2> QED BY <2>3, <2>4, <2>6, <2>8, <2>9, <2>10 DEF IInv
  <1>7. CASE n # Blank /\ n.nodetype \in TreeTypes /\ n.key = <<>>
             /\ Returns("NONEXISTENT", NoValue)
    <2>1. intact => below[b] = {}
      BY <1>2, <1>4, <1>7 DEF SearchTree
    <2> QED BY <1>1, <1>7, <2>1, ReturnsOK
  <1>8. ASSUME n # Blank, n.nodetype = "LEAF", NEW i \in Scanned(n), Matches(n, i),
               Returns("NOERROR", Found(n, i))
        PROVE  IInv'
    <2>1. i \in 1 .. Len(n.key) /\ i \in 1 .. Len(n.val)
      BY <1>2, <1>8 DEF Scanned, WellFormed
    <2>2. n.key[i] \in arg.lo .. arg.hi
      BY <1>2, <1>3, <1>8, <2>1 DEF Matches, MayEqual
    <2>3. <<n.key[i], n.val[i]>> \in Pairs(mem) /\ <<n.key[i], n.val[i]>> \in stored
      BY <1>2, <1>8, <2>1 DEF Pairs, IInv, Nodes
    <2>4. intact /\ arg.exact => arg.lo \in below[b] /\ n.key[i] = arg.lo
      <3>1. intact => below[b] = {n.key[j] : j \in 1 .. Len(n.key)}
        BY <1>2, <1>4, <1>8 DEF SearchTree
      <3>2. arg.exact => n.key[i] = arg.lo
        BY <1>2, <1>3, <2>1, <2>2
      <3> QED BY <2>1, <3>1, <3>2
    <2>5. Found(n, i) \in Values /\ Found(n, i) = n.val[i]
      BY <1>3, <1>8, <2>1 DEF Found
    <2> QED BY <1>1, <1>8, <2>2, <2>3, <2>4, <2>5, ReturnsOK
  <1>9. CASE n # Blank /\ n.nodetype = "LEAF" /\ (\A i \in Scanned(n) : MayDiffer(n.key[i]))
             /\ Returns("NONEXISTENT", NoValue)
    <2>1. intact => below[b] = {n.key[j] : j \in 1 .. Len(n.key)}
      BY <1>2, <1>4, <1>9 DEF SearchTree
    <2>2. arg.exact => \A i \in 1 .. Len(n.key) : n.key[i] # arg.lo
      BY <1>2, <1>3, <1>9 DEF Scanned, MayDiffer, MayEqual
    <2> QED BY <1>1, <1>9, <2>1, <2>2, ReturnsOK
  <1>10. CASE n # Blank /\ n.nodetype \notin TreeTypes \cup {"LEAF"}
              /\ Returns("INSANE", NoValue)
    BY <1>1, <1>2, <1>10, ReturnsOK DEF Proper
  <1> QED BY <1>5, <1>6, <1>7, <1>8, <1>9, <1>10 DEF LookupVisit
-----------------------------------------------------------------------------
\* Listing.

LEMMA IncreasingConcat ==
    ASSUME NEW s \in Seq(Keys), NEW t \in Seq(Keys), Increasing(s), Increasing(t),
           Before(Elements(s), Elements(t))
    PROVE  Increasing(s \o t) /\ Elements(s \o t) = Elements(s) \cup Elements(t)
  <1>1. /\ Len(s \o t) = Len(s) + Len(t) /\ Len(s) \in Nat /\ Len(t) \in Nat
        /\ \A i \in 1 .. Len(s) : (s \o t)[i] = s[i]
        /\ \A i \in 1 .. Len(t) : (s \o t)[Len(s) + i] = t[i]
    OBVIOUS
  <1>2. \A i \in 1 .. Len(s \o t) :
           i \in 1 .. Len(s) \/ (i - Len(s) \in 1 .. Len(t) /\ (s \o t)[i] = t[i - Len(s)])
    BY <1>1
  <1>3. Increasing(s \o t)
    <2> SUFFICES ASSUME NEW i \in 1 .. Len(s \o t), NEW j \in 1 .. Len(s \o t), i < j
                 PROVE  (s \o t)[i] < (s \o t)[j]
      BY DEF Increasing
    <2>1. CASE i \in 1 .. Len(s) /\ j \in 1 .. Len(s)
      BY <1>1, <2>1 DEF Increasing
    <2>2. CASE i \in 1 .. Len(s) /\ j - Len(s) \in 1 .. Len(t)
      BY <1>1, <1>2, <2>2 DEF Before, Elements
    <2>3. CASE /\ i - Len(s) \in 1 .. Len(t) /\ j - Len(s) \in 1 .. Len(t)
               /\ (s \o t)[i] = t[i - Len(s)] /\ (s \o t)[j] = t[j - Len(s)]
      <3>1. i - Len(s) < j - Len(s)
        BY <1>1
      <3>2. t[i - Len(s)] < t[j - Len(s)]
        BY <2>3, <3>1 DEF Increasing
      <3> QED BY <2>3, <3>2
    <2> QED BY <1>1, <1>2, <2>1, <2>2, <2>3
  <1>4. Elements(s \o t) \subseteq Elements(s) \cup Elements(t)
    BY <1>1, <1>2 DEF Elements
  <1>5. Elements(s) \subseteq Elements(s \o t)
    <2> SUFFICES ASSUME NEW i \in 1 .. Len(s) PROVE s[i] \in Elements(s \o t)
      BY DEF Elements
    <2>1. i \in 1 .. Len(s \o t)
      BY <1>1
    <2> QED BY <1>1, <2>1 DEF Elements
  <1>6. Elements(t) \subseteq Elements(s \o t)
    <2> SUFFICES ASSUME NEW i \in 1 .. Len(t) PROVE t[i] \in Elements(s \o t)
      BY DEF Elements
    <2>1. Len(s) + i \in 1 .. Len(s \o t)
      BY <1>1
    <2> QED BY <1>1, <2>1 DEF Elements
  <1> QED BY <1>3, <1>4, <1>5, <1>6

LEMMA OrderedConcat ==
    ASSUME NEW s \in Seq(Device), NEW t \in Seq(Device), NEW d, Ordered(s, d), Ordered(t, d),
           Before(Under(s, d), Under(t, d))
    PROVE  Ordered(s \o t, d) /\ Under(s \o t, d) = Under(s, d) \cup Under(t, d)
  <1>1. /\ Len(s \o t) = Len(s) + Len(t) /\ Len(s) \in Nat /\ Len(t) \in Nat
        /\ \A i \in 1 .. Len(s) : (s \o t)[i] = s[i]
        /\ \A i \in 1 .. Len(t) : (s \o t)[Len(s) + i] = t[i]
    OBVIOUS
  <1>2. \A i \in 1 .. Len(s \o t) :
           i \in 1 .. Len(s) \/ (i - Len(s) \in 1 .. Len(t) /\ (s \o t)[i] = t[i - Len(s)])
    BY <1>1
  <1>3. Ordered(s \o t, d)
    <2> SUFFICES ASSUME NEW i \in 1 .. Len(s \o t), NEW j \in 1 .. Len(s \o t), i < j,
                        NEW k \in d[(s \o t)[i]], NEW l \in d[(s \o t)[j]]
                 PROVE  k < l
      BY DEF Ordered
    <2>1. CASE i \in 1 .. Len(s) /\ j \in 1 .. Len(s)
      BY <1>1, <2>1 DEF Ordered
    <2>2. CASE i \in 1 .. Len(s) /\ j - Len(s) \in 1 .. Len(t) /\ (s \o t)[j] = t[j - Len(s)]
      <3>1. k \in Under(s, d) /\ l \in Under(t, d)
        BY <1>1, <2>2 DEF Under
      <3> QED BY <3>1 DEF Before
    <2>3. CASE i - Len(s) \in 1 .. Len(t) /\ j - Len(s) \in 1 .. Len(t)
               /\ (s \o t)[i] = t[i - Len(s)] /\ (s \o t)[j] = t[j - Len(s)]
      BY <1>1, <2>3 DEF Ordered
    <2> QED BY <1>1, <1>2, <2>1, <2>2, <2>3
  <1>4. Under(s \o t, d) \subseteq Under(s, d) \cup Under(t, d)
    BY <1>1, <1>2 DEF Under
  <1>5. Under(s, d) \subseteq Under(s \o t, d)
    <2> SUFFICES ASSUME NEW i \in 1 .. Len(s), NEW k \in d[s[i]] PROVE k \in Under(s \o t, d)
      BY DEF Under
    <2>1. i \in 1 .. Len(s \o t)
      BY <1>1
    <2> QED BY <1>1, <2>1 DEF Under
  <1>6. Under(t, d) \subseteq Under(s \o t, d)
    <2> SUFFICES ASSUME NEW i \in 1 .. Len(t), NEW k \in d[t[i]] PROVE k \in Under(s \o t, d)
      BY DEF Under
    <2>1. Len(s) + i \in 1 .. Len(s \o t)
      BY <1>1
    <2> QED BY <1>1, <2>1 DEF Under
  <1> QED BY <1>3, <1>4, <1>5, <1>6

\* The first node to be visited comes before the others.
LEMMA FirstAndRest ==
    ASSUME NEW s \in Seq(Device), s # <<>>, NEW d, Ordered(s, d)
    PROVE  /\ Ordered(Tail(s), d)
           /\ Before(d[Head(s)], Under(Tail(s), d))
           /\ Under(s, d) = d[Head(s)] \cup Under(Tail(s), d)
  <1>1. /\ Len(s) \in Nat /\ Len(s) > 0 /\ Len(Tail(s)) = Len(s) - 1 /\ Head(s) = s[1]
        /\ \A i \in 1 .. Len(Tail(s)) : Tail(s)[i] = s[i + 1]
    OBVIOUS
  <1>2. \A i \in 1 .. Len(Tail(s)) : i + 1 \in 1 .. Len(s)
    BY <1>1
  <1>3. Ordered(Tail(s), d)
    BY <1>1, <1>2 DEF Ordered
  <1>4. Before(d[Head(s)], Under(Tail(s), d))
    <2> SUFFICES ASSUME NEW k \in d[s[1]], NEW i \in 1 .. Len(Tail(s)), NEW l \in d[Tail(s)[i]]
                 PROVE  k < l
      BY <1>1 DEF Before, Under
    <2>1. 1 \in 1 .. Len(s) /\ i + 1 \in 1 .. Len(s) /\ 1 < i + 1 /\ l \in d[s[i + 1]]
      BY <1>1, <1>2
    <2> QED BY <2>1 DEF Ordered
  <1>5. Under(s, d) \subseteq d[Head(s)] \cup Under(Tail(s), d)
    <2> SUFFICES ASSUME NEW j \in 1 .. Len(s), NEW k \in d[s[j]], j # 1
                 PROVE  k \in Under(Tail(s), d)
      BY <1>1 DEF Under
    <2>1. j - 1 \in 1 .. Len(Tail(s)) /\ Tail(s)[j - 1] = s[(j - 1) + 1] /\ (j - 1) + 1 = j
      BY <1>1
    <2>2. k \in d[Tail(s)[j - 1]]
      BY <2>1
    <2> QED BY <2>1, <2>2 DEF Under
  <1>6. d[Head(s)] \subseteq Under(s, d)
    <2>1. 1 \in 1 .. Len(s)
      BY <1>1
    <2> QED BY <1>1, <2>1 DEF Under
  <1>7. Under(Tail(s), d) \subseteq Under(s, d)
    BY <1>1, <1>2 DEF Under
  <1> QED BY <1>3, <1>4, <1>5, <1>6, <1>7

\* The children of a node are in order, and have between them what it has.
LEMMA ChildrenOrdered ==
    ASSUME NEW t, NEW d \in [Device -> SUBSET Keys], SearchTree(t, d), NEW b \in Device,
           t[b] \in Node, t[b].nodetype \in TreeTypes
    PROVE  /\ Children(t[b]) \in Seq(Device)
           /\ Ordered(Children(t[b]), d)
           /\ Under(Children(t[b]), d) = d[b]
           /\ \A i \in 1 .. Len(Children(t[b])) : t[Children(t[b])[i]].nodetype \in Proper
  <1> DEFINE n == t[b]
  <1>1. n # Blank /\ n.key \in Seq(Keys) /\ n.ptr \in Seq(Device)
    BY NodeType
  <1>2. CASE n.key = <<>>
    <2>1. Children(n) = <<>> /\ d[b] = {}
      BY <1>1, <1>2 DEF Children, SearchTree
    <2>2. 1 .. Len(<<>>) = {}
      OBVIOUS
    <2>3. Under(<<>>, d) = {} /\ Ordered(<<>>, d)
      BY <2>2 DEF Under, Ordered
    <2> QED BY <2>1, <2>2, <2>3
  <1>3. CASE n.key # <<>>
    <2>1. /\ Children(n) = n.ptr /\ Len(n.ptr) = Len(n.key) + 1 /\ Len(n.key) \in Nat
          /\ d[b] = UNION {d[n.ptr[j]] : j \in 1 .. Len(n.ptr)}
          /\ \A j \in 1 .. Len(n.ptr) : t[n.ptr[j]].nodetype \in Proper
          /\ \A h \in 1 .. Len(n.key), j \in 1 .. Len(n.ptr) : \A k \in d[n.ptr[j]] :
                IF j <= h THEN k <= n.key[h] ELSE n.key[h] < k
      BY <1>1, <1>3 DEF Children, SearchTree, Proper
    <2>2. ASSUME NEW i \in 1 .. Len(n.ptr), NEW j \in 1 .. Len(n.ptr), i < j,
                 NEW k \in d[n.ptr[i]], NEW l \in d[n.ptr[j]]
          PROVE  k < l
      <3>1. i \in 1 .. Len(n.key) /\ ~(j <= i)
        BY <2>1, <2>2
      <3>2. k <= n.key[i] /\ n.key[i] < l
        BY <2>1, <2>2, <3>1
      <3>3. n.key[i] \in Int /\ k \in Int /\ l \in Int
        <4>1. n.ptr[i] \in Device /\ n.ptr[j] \in Device
          BY <1>1
        <4> QED BY <1>1, <3>1, <4>1, SmallFacts
      <3> QED BY <3>2, <3>3
    <2>3. Ordered(n.ptr, d)
      BY <2>2 DEF Ordered
    <2> QED BY <1>1, <2>1, <2>3 DEF Under
  <1> QED BY <1>2, <1>3

LEMMA DisplayVisitOK ==
    ASSUME IInv, DisplayVisit
    PROVE  IInv'
  <1> DEFINE b == Head(todo)
             n == mem[b]
  <1>1. /\ b \in Device /\ Tail(todo) \in Seq(Device) /\ WellFormed(n)
        /\ n # Blank => n \in Node
        /\ intact => n # Blank /\ n.nodetype \in Proper
    BY VisitFacts DEF DisplayVisit
  <1>2. CASE n = Blank /\ Abort("DISPLAY")
    BY <1>1, <1>2, DiesOK DEF Abort
  <1>3. CASE n # Blank /\ ~(n = Blank /\ Abort("DISPLAY"))
    <2>1. /\ todo' = IF n.nodetype \in TreeTypes THEN Children(n) \o Tail(todo)
                     ELSE IF n.nodetype = "LEAF" THEN Tail(todo) ELSE <<>>
          /\ shown' = IF n.nodetype = "LEAF" THEN shown \o n.key ELSE shown
          /\ UNCHANGED <<disk, mem, process, call, arg, answer, history>>
          /\ call = "DISPLAY" /\ todo # <<>>
      <3>1. n.nodetype # "LEAF" => shown \o PrintNode(n) = shown
        BY DEF PrintNode, IInv, TypeOK
      <3> QED BY <1>3, <3>1 DEF DisplayVisit, PrintNode
    <2>2. /\ todo \in Seq(Device) /\ shown \in Seq(Keys) /\ n.key \in Seq(Keys)
          /\ Children(n) \in Seq(Device)
          /\ n.nodetype \in TreeTypes => n.nodetype # "LEAF"
      <3>1. n.key \in Seq(Keys) /\ n.ptr \in Seq(Device)
        BY <1>1, <1>3, NodeType
      <3> QED BY <3>1 DEF IInv, TypeOK, Children, TreeTypes
    <2>3. TypeOK'
      <3>1. todo' \in Seq(Device)
        BY <1>1, <2>1, <2>2
      <3>2. shown' \in Seq(Keys)
        BY <2>1, <2>2
      <3> QED BY <2>1, <3>1, <3>2 DEF IInv, TypeOK
    <2>4. Nodes' /\ Whole'
      BY <2>1 DEF IInv, Nodes, Whole
    <2>5. Answers' /\ NothingSkipped'
      BY <2>1 DEF IInv, Answers, LookupIsRight, FoundWasStored, ListingIsComplete,
                  AbortedWithoutIndex, NothingSkipped
    <2>6. Visits' /\ Listing'
      <3>1. CASE ~intact
        BY <2>1, <3>1 DEF IInv, Visits, Listing
      <3>2. CASE intact
        <4>1. /\ SearchTree(mem, below) /\ below \in [Device -> SUBSET Keys]
              /\ \A i \in 1 .. Len(todo) : mem[todo[i]].nodetype \in Proper
              /\ Increasing(shown) /\ Before(Elements(shown), Under(todo, below))
              /\ Ordered(todo, below)
              /\ below[rootnode] = Elements(shown) \cup Under(todo, below)
          BY <2>1, <3>2 DEF IInv, TypeOK, Whole, Visits, Listing
        <4>2. /\ Ordered(Tail(todo), below)
              /\ Before(below[b], Under(Tail(todo), below))
              /\ Under(todo, below) = below[b] \cup Under(Tail(todo), below)
          BY <2>1, <2>2, <4>1, FirstAndRest
        <4>3. \A i \in 1 .. Len(Tail(todo)) : mem[Tail(todo)[i]].nodetype \in Proper
          <5>1. /\ Len(todo) \in Nat /\ Len(Tail(todo)) = Len(todo) - 1
                /\ \A i \in 1 .. Len(Tail(todo)) : Tail(todo)[i] = todo[i + 1]
            BY <2>1, <2>2
          <5>2. \A i \in 1 .. Len(Tail(todo)) : i + 1 \in 1 .. Len(todo)
            BY <5>1
          <5> QED BY <4>1, <5>1, <5>2
        <4>4. CASE n.nodetype \in TreeTypes
          <5> DEFINE C == Children(n)
          <5>1. /\ Ordered(C, below) /\ Under(C, below) = below[b]
                /\ \A i \in 1 .. Len(C) : mem[C[i]].nodetype \in Proper
            BY <1>1, <1>3, <4>1, <4>4, ChildrenOrdered
          <5>2. /\ Ordered(C \o Tail(todo), below)
                /\ Under(C \o Tail(todo), below) = Under(todo, below)
            <6>1. Before(Under(C, below), Under(Tail(todo), below))
              BY <4>2, <5>1
            <6>2. C \in Seq(Device) /\ Tail(todo) \in Seq(Device)
              BY <1>1, <2>2
            <6> HIDE DEF C
            <6>3. /\ Ordered(C \o Tail(todo), below)
                  /\ Under(C \o Tail(todo), below) = Under(C, below) \cup Under(Tail(todo), below)
              BY <4>2, <5>1, <6>1, <6>2, OrderedConcat
            <6> QED BY <4>2, <5>1, <6>3
          <5>3. \A i \in 1 .. Len(C \o Tail(todo)) :
                   mem[(C \o Tail(todo))[i]].nodetype \in Proper
            <6>1. /\ Len(C) \in Nat /\ Len(C \o Tail(todo)) = Len(C) + Len(Tail(todo))
                  /\ Len(Tail(todo)) \in Nat
              BY <1>1, <2>2
            <6>2. \A i \in 1 .. Len(C \o Tail(todo)) :
                     (C \o Tail(todo))[i] = IF i <= Len(C) THEN C[i] ELSE Tail(todo)[i - Len(C)]
              BY <1>1, <2>2
            <6> HIDE DEF C
            <6> TAKE i \in 1 .. Len(C \o Tail(todo))
            <6>3. CASE i <= Len(C)
              BY <5>1, <6>1, <6>2, <6>3
            <6>4. CASE ~(i <= Len(C))
              <7>1. i - Len(C) \in 1 .. Len(Tail(todo))
                BY <6>1, <6>4
              <7> QED BY <4>3, <6>2, <6>4, <7>1
            <6> QED BY <6>3, <6>4
          <5>4. todo' = C \o Tail(todo) /\ shown' = shown
            BY <2>1, <2>2, <4>4
          <5>5. Visits'
            BY <2>1, <5>3, <5>4 DEF IInv, Visits
          <5>6. Listing'
            BY <2>1, <4>1, <5>2, <5>4 DEF Listing
          <5> QED BY <5>5, <5>6
        <4>5. CASE n.nodetype = "LEAF"
          <5>1. todo' = Tail(todo) /\ shown' = shown \o n.key
            BY <2>1, <2>2, <4>5
          <5>2. Increasing(n.key) /\ Elements(n.key) = below[b]
            BY <1>1, <1>3, <4>1, <4>5 DEF SearchTree, Increasing, Elements
          <5>3. Before(Elements(shown), Elements(n.key))
            BY <4>1, <4>2, <5>2 DEF Before
          <5>4. /\ Increasing(shown \o n.key)
                /\ Elements(shown \o n.key) = Elements(shown) \cup below[b]
            BY <2>2, <4>1, <5>2, <5>3, IncreasingConcat
          <5>5. Before(Elements(shown) \cup below[b], Under(Tail(todo), below))
            BY <4>1, <4>2 DEF Before
          <5>6. Visits'
            BY <2>1, <4>3, <5>1 DEF IInv, Visits
          <5>7. Listing'
            BY <2>1, <4>1, <4>2, <5>1, <5>4, <5>5 DEF Listing
          <5> QED BY <5>6, <5>7
        <4> QED BY <1>1, <3>2, <4>4, <4>5 DEF Proper
      <3> QED BY <3>1, <3>2 DEF IInv, TypeOK
    <2> QED BY <2>3, <2>4, <2>5, <2>6 DEF IInv
  <1> QED BY <1>2, <1>3 DEF DisplayVisit

LEMMA DisplayEndsOK ==
    ASSUME IInv, DisplayEnds
    PROVE  IInv'
  <1>1. /\ answer'.op = "DISPLAY" /\ answer'.arg = SomeArg /\ answer'.rc = "NOERROR"
        /\ answer'.value = NoValue /\ answer'.shown = shown
    BY DEF DisplayEnds, NoAnswer
  <1>2. TypeOK'
    <2>1. todo' \in Seq(Device) /\ shown' \in Seq(Keys)
      BY DEF DisplayEnds, NoSearch
    <2> QED BY <1>1, <2>1, SmallFacts DEF IInv, TypeOK, DisplayEnds, NoSearch
  <1>3. Nodes' /\ Whole'
    BY DEF IInv, Nodes, Whole, DisplayEnds
  <1>4. call' = "none" /\ shown' = <<>> /\ index' # "none"
    BY DEF DisplayEnds, NoSearch, IInv, Visits
  <1>5. ListingIsComplete'
    <2>1. shown \in Seq(Keys) /\ DOMAIN shown = 1 .. Len(shown)
      BY DEF IInv, TypeOK
    <2>2. Under(todo, below) = {}
      <3>1. 1 .. Len(todo) = {}
        BY DEF DisplayEnds
      <3> QED BY <3>1 DEF Under
    <2>3. intact => Increasing(shown) /\ below[rootnode] = Elements(shown)
      BY <2>2 DEF IInv, Listing, DisplayEnds
    <2>4. intact' = intact /\ below' = below /\ rootnode' = rootnode
      BY DEF DisplayEnds
    <2> QED BY <1>1, <2>1, <2>3, <2>4 DEF ListingIsComplete, Increasing, Elements
  <1>6. LookupIsRight' /\ FoundWasStored' /\ AbortedWithoutIndex'
    BY <1>1 DEF LookupIsRight, FoundWasStored, AbortedWithoutIndex
  <1> QED BY <1>2, <1>3, <1>4, <1>5, <1>6, NoCall DEF IInv, Answers
-----------------------------------------------------------------------------
LEMMA StepOK == IInv /\ [Next]_vars => IInv'
  <1> SUFFICES ASSUME IInv, [Next]_vars PROVE IInv'
    OBVIOUS
  <1>1. CASE UNCHANGED vars
    BY <1>1 DEF vars, IInv, TypeOK, Nodes, Whole, Visits, NothingSkipped, Listing, Answers,
                LookupIsRight, FoundWasStored, ListingIsComplete, AbortedWithoutIndex
  <1> QED BY <1>1, StartOK, AttachOK, AttachCreateOK, DisplayOK, UnimplementedOK, LookupOK,
             LookupVisitOK, DisplayVisitOK, DisplayEndsOK, DeinitOK, ExitOK, KillOK
          DEF Next

LEMMA InvariantHolds == Spec => []IInv
  BY InitOK, StepOK, PTL DEF Spec

\* Every variable stays within what the code can store in it, for every disk.
THEOREM ToolsTypeCorrect == Spec => []TypeOK
  BY InvariantHolds, PTL DEF IInv

\* A search never leaves its key behind, in a tree of any height and shape.
THEOREM SearchesSkipNothing == Spec => []NothingSkipped
  BY InvariantHolds, PTL DEF IInv

\* Lookup finds a key of the right length if and only if the tree has it.
THEOREM LookupsAreRight == Spec => []LookupIsRight
  BY InvariantHolds, PTL DEF IInv, Answers

\* A value that Lookup returns was stored with a key like the one it was asked
\* for, in every mixture of two indexes that killed processes leave.
THEOREM FoundWereStored == Spec => []FoundWasStored
  BY InvariantHolds, PTL DEF IInv, Answers

\* A listing of an index shows each of its keys once, in order.
THEOREM ListingsAreComplete == Spec => []ListingIsComplete
  BY InvariantHolds, PTL DEF IInv, Answers

LEMMA NoAbort == IInv /\ [Next]_vars => [intact => answer'.rc # "ABORT"]_vars
  <1> SUFFICES ASSUME IInv, Next, intact PROVE answer'.rc # "ABORT"
    OBVIOUS
  <1>1. /\ answer.rc # "ABORT"
        /\ \A b \in Device : mem[b] # Blank
    BY DEF IInv, Answers, AbortedWithoutIndex, Whole
  <1>2. CASE answer' = answer
    BY <1>1, <1>2
  <1>3. CASE \/ Kill \/ AttachCreate \/ Display \/ Unimplemented \/ DisplayEnds
             \/ Deinit \/ Exit \/ (\E t \in Tools : Start(t)) \/ (\E a \in Args : Lookup(a))
    BY <1>3, NoAnswerFacts DEF NoAnswer, Kill, AttachCreate, Display, Unimplemented,
       DisplayEnds, Deinit, Exit, Start, Lookup
  <1>4. CASE Attach
    BY <1>1, <1>2, <1>4, SmallFacts DEF Attach
  <1>5. CASE LookupVisit
    <2>1. Head(todo) \in Device
      <3>1. todo # <<>>
        BY <1>5 DEF LookupVisit, IInv, Visits
      <3> QED BY <1>5, <3>1, VisitFacts DEF LookupVisit
    <2>2. CASE \E rc \in {"NOERROR", "NONEXISTENT", "INSANE"} : \E x : Returns(rc, x)
      BY <2>2, NoAnswerFacts DEF Returns, NoAnswer
    <2> QED BY <1>1, <1>2, <1>5, <2>1, <2>2 DEF LookupVisit
  <1>6. CASE DisplayVisit
    <2>1. Head(todo) \in Device
      BY <1>6, VisitFacts DEF DisplayVisit
    <2> QED BY <1>1, <1>2, <1>6, <2>1 DEF DisplayVisit
  <1>7. \/ Kill \/ AttachCreate \/ Display \/ Unimplemented \/ DisplayEnds
        \/ Deinit \/ Exit \/ (\E t \in Tools : Start(t)) \/ (\E a \in Args : Lookup(a))
        \/ Attach \/ LookupVisit \/ DisplayVisit
    BY Zenon DEF Next
  <1> QED BY <1>3, <1>4, <1>5, <1>6, <1>7

\* A call on a whole index never ends in an assert, on a device of any size.
THEOREM WholeIndexesDoNotAbort == Spec => WholeIndexesNeverAbort
  BY InvariantHolds, NoAbort, PTL DEF Spec, WholeIndexesNeverAbort
=============================================================================
