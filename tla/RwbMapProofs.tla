---------------------------- MODULE RwbMapProofs ----------------------------
(***************************************************************************)
(* Proofs about the safety of RwbMap, for any views, cycles and categories *)
(* and any number of acts of the user.                                     *)
(*                                                                         *)
(* ReadyMeansComplete looks at a page that has come to rest, but what it   *)
(* promises was decided when the last request was sent.  The invariant     *)
(* follows that request, under way (LastRequestKnows) and as the answer in *)
(* the hidden division (LastAnswerKnows, ReadyIsDrawn): as long as no box  *)
(* changes it has the boxes of the page, and as long as no callback is     *)
(* owed, its view.                                                         *)
(*                                                                         *)
(* PageComesToRest and QueryingIsWaiting are what can be proved of the     *)
(* page's liveness: requests are finitely many and each is new, so that    *)
(* every handler brings Work down.                                         *)
(***************************************************************************)
EXTENDS RwbMap, FiniteSetTheorems, TLAPS

\* Every callback and every click on Filter sends one request at most.
RequestsBounded == pending + sent <= MaxRequests

\* Requests and the answer shown were sent.
WereSent ==
    /\ \A r \in inflight : r.id <= sent
    /\ data.id <= sent

LastRequestKnows ==
    \A r \in inflight : r.id = sent /\ ~touched =>
        /\ r.what = filters /\ r.cycles = cycles
        /\ pending = 0 => r.view = view

LastAnswerKnows ==
    data.id = sent /\ ~touched =>
        /\ data.cycles = cycles
        /\ pending = 0 => data.view = view

ReadyIsDrawn ==
    data.id = sent /\ ~touched /\ status = "Ready" =>
        markers = UNION {UpdateMapById(c, data) : c \in filters}

IInv ==
    /\ RequestsBounded
    /\ WereSent
    /\ LastRequestKnows
    /\ LastAnswerKnows
    /\ ReadyIsDrawn

-----------------------------------------------------------------------------
(* What is drawn. *)

\* A division has rows of the answer's view and cycles, and the empty line.
LEMMA UpdateMapByIdType ==
    ASSUME NEW c \in Category, NEW r \in Request
    PROVE  UpdateMapById(c, r) \subseteq Category \X ((Views \X Cycles) \cup {Blank})
<1>1. Rows(r) \subseteq Views \X Cycles
  BY DEF Rows, Request
<1> QED
  BY <1>1 DEF UpdateMapById

\* Only checked categories of the answer are drawn.
LEMMA DrawnType ==
    ASSUME NEW r
    PROVE  Drawn(r) \subseteq Category \cap filters \cap r.what
<1> SUFFICES ASSUME NEW i \in 1..Len(Categories), Categories[i] \in filters,
                    \A k \in 1..i : Categories[k] \in filters => Categories[k] \in r.what
             PROVE  Categories[i] \in Category /\ Categories[i] \in r.what
  BY DEF Drawn
<1>1. i \in 1..i
  BY MapAssumption
<1> QED
  BY <1>1 DEF Category

\* All of them are, when nothing throws.
LEMMA DrawnIfNothingThrows ==
    ASSUME NEW r, filters \subseteq Category, ~Throws(r)
    PROVE  Drawn(r) = filters
<1>1. filters \subseteq r.what
  BY DEF Throws
<1>2. ASSUME NEW c \in filters
      PROVE  c \in Drawn(r)
  <2>1. PICK i \in 1..Len(Categories) : Categories[i] = c
    BY DEF Category
  <2> QED
    BY <1>1, <2>1 DEF Drawn
<1> QED
  BY <1>2, DrawnType

\* What an answer keeps of its request.
LEMMA AnswerType ==
    ASSUME TypeOK, NEW r \in inflight, NEW failed
    PROVE  /\ [r EXCEPT !.what = @ \ failed] \in Request
           /\ [r EXCEPT !.what = @ \ failed].id = r.id
           /\ [r EXCEPT !.what = @ \ failed].view = r.view
           /\ [r EXCEPT !.what = @ \ failed].cycles = r.cycles
           /\ r \in Request
BY DEF TypeOK, Request

\* A request is one, with the number that comes next.
LEMMA NewRequestType ==
    ASSUME TypeOK
    PROVE  /\ NewRequest \in Request
           /\ NewRequest.id = sent + 1 /\ NewRequest.view = view
           /\ NewRequest.what = filters /\ NewRequest.cycles = cycles
BY DEF TypeOK, Request, NewRequest

\* Of one cycle at most the rows are those of the cycles.
LEMMA FewCycles ==
    ASSUME TypeOK, Cardinality(cycles) <= 1
    PROVE  Cardinality(cycles) = 1 \/ cycles = {}
<1>1. IsFiniteSet(cycles)
  BY MapAssumption, FS_Subset DEF TypeOK
<1>2. Cardinality(cycles) \in Nat
  BY <1>1, FS_CardinalityType
<1>3. Cardinality(cycles) \in {0, 1}
  BY <1>2
<1> QED
  BY <1>1, <1>3, FS_EmptySet

-----------------------------------------------------------------------------
\* Initially nothing was asked for.
LEMMA InitOK == Init => TypeOK /\ IInv
<1> SUFFICES ASSUME Init
             PROVE  TypeOK /\ IInv
  OBVIOUS
<1>1. data \in Request /\ data.id = 0 /\ data.view = view /\ data.cycles = {}
  BY DEF Init, Request
<1>2. MaxRequests \in Nat /\ 0 \in 0..MaxRequests /\ 1 \in 0..MaxRequests /\ 0 \in 0..MaxActs
  BY MapAssumption
<1>3. TypeOK
  BY <1>1, <1>2 DEF Init, TypeOK
<1>4. IInv
  BY <1>1, MapAssumption DEF Init, IInv, RequestsBounded, WereSent, LastRequestKnows, LastAnswerKnows, ReadyIsDrawn
<1> QED
  BY <1>3, <1>4

\* A movement owes the map a callback.
LEMMA MoveOK ==
    ASSUME TypeOK, IInv, acts < MaxActs, acts' = acts + 1, NEW v \in Views, Move(v)
    PROVE  TypeOK' /\ IInv'
<1>1. PICK events \in 1..3 : pending + events + sent <= MaxRequests
                              /\ pending' = pending + events
  BY DEF Move
<1>2. /\ acts' \in 0..MaxActs
      /\ pending' + sent <= MaxRequests
      /\ pending' \in 0..MaxRequests /\ pending' # 0
  BY <1>1, MapAssumption DEF TypeOK
<1>3. TypeOK'
  BY <1>2 DEF Move, boxes, TypeOK
<1>4. RequestsBounded' /\ WereSent'
  BY <1>2 DEF Move, IInv, RequestsBounded, WereSent
<1>5. LastRequestKnows' /\ LastAnswerKnows'
  BY <1>2 DEF Move, boxes, IInv, LastRequestKnows, LastAnswerKnows
<1>6. ReadyIsDrawn'
  BY DEF Move, boxes, IInv, ReadyIsDrawn
<1> QED
  BY <1>3, <1>4, <1>5, <1>6 DEF IInv

\* A box that changes leaves nothing to be known.
LEMMA CheckOK ==
    ASSUME TypeOK, IInv, acts < MaxActs, acts' = acts + 1,
           NEW f \in SUBSET Category, NEW c \in SUBSET Cycles, Check(f, c)
    PROVE  TypeOK' /\ IInv'
<1>1. acts' \in 0..MaxActs
  BY MapAssumption DEF TypeOK
<1>2. TypeOK'
  BY <1>1 DEF Check, TypeOK
<1>3. IInv'
  BY <1>1 DEF Check, IInv, RequestsBounded, WereSent, LastRequestKnows, LastAnswerKnows, ReadyIsDrawn
<1> QED
  BY <1>2, <1>3

LEMMA FewRequests ==
    ASSUME NEW s \in Nat, NEW p \in 0..MaxRequests, p + s <= MaxRequests
    PROVE  s \in 0..MaxRequests
BY MapAssumption

\* A request knows what is asked for, and is later than any other.
LEMMA ViewShiftOK ==
    ASSUME TypeOK, IInv, ViewShift, acts' \in 0..MaxActs, pending' \in 0..MaxRequests,
           pending' + sent' <= MaxRequests
    PROVE  TypeOK' /\ IInv'
<1>1. sent \in Nat /\ data.id <= sent /\ sent' = sent + 1 /\ data.id \in Nat
  BY DEF TypeOK, Request, IInv, WereSent, ViewShift
<1>2. sent' \in 0..MaxRequests
  <2>1. sent' \in Nat
    BY <1>1
  <2> QED
    BY <2>1, FewRequests
<1>3. inflight' = inflight \cup {NewRequest}
  BY DEF ViewShift, Requested
<1>4. TypeOK'
  BY <1>2, <1>3, NewRequestType DEF ViewShift, boxes, TypeOK
<1>5. \A r \in inflight : r.id \in Nat /\ r.id <= sent
  BY DEF TypeOK, Request, IInv, WereSent
<1>6. WereSent'
  <2>1. data'.id <= sent'
    BY <1>1 DEF ViewShift
  <2>2. \A r \in inflight : r.id <= sent'
    BY <1>1, <1>5
  <2> QED
    BY <1>1, <1>3, <2>1, <2>2, NewRequestType DEF WereSent
<1>7. LastRequestKnows'
  <2>1. \A r \in inflight : r.id # sent'
    BY <1>1, <1>5
  <2> QED
    BY <1>3, <2>1, NewRequestType DEF ViewShift, boxes, LastRequestKnows
<1>8. data'.id # sent'
  BY <1>1 DEF ViewShift
<1> QED
  BY <1>4, <1>6, <1>7, <1>8 DEF IInv, RequestsBounded, LastAnswerKnows, ReadyIsDrawn

\* Before the first bounds a handler may throw, which changes nothing of this.
LEMMA ThrowOK ==
    ASSUME TypeOK, IInv, ViewShiftThrows, acts' \in 0..MaxActs, pending' \in 0..MaxRequests,
           pending' + sent' <= MaxRequests, pending' = 0 => pending = 0
    PROVE  TypeOK' /\ IInv'
<1>1. TypeOK'
  BY DEF ViewShiftThrows, boxes, TypeOK
<1>2. IInv'
  BY DEF ViewShiftThrows, boxes, IInv, RequestsBounded, WereSent, LastRequestKnows,
         LastAnswerKnows, ReadyIsDrawn
<1> QED
  BY <1>1, <1>2

\* An answer hands on what its request knew.
LEMMA NewDataOK ==
    ASSUME TypeOK, IInv, NEW r \in inflight, NEW failed \in SUBSET r.what, NewData(r, failed)
    PROVE  TypeOK' /\ IInv'
<1> DEFINE answer == [r EXCEPT !.what = @ \ failed]
<1>1. /\ answer \in Request /\ answer.id = r.id
      /\ answer.view = r.view /\ answer.cycles = r.cycles
  BY AnswerType
<1>2. /\ inflight' = inflight \ {r} /\ data' = answer /\ UpdateMap(answer)
      /\ UNCHANGED <<view, boxes, pending, sent, acts, touched, lost>>
  BY DEF NewData
<1> HIDE DEF answer
<1>3. markers' = UNION {UpdateMapById(c, answer) : c \in Drawn(answer)}
  BY <1>2 DEF UpdateMap, ClearMarkers
<1>4. markers' \subseteq Category \X ((Views \X Cycles) \cup {Blank})
  BY <1>1, <1>3, UpdateMapByIdType, DrawnType
<1>5. TypeOK'
  BY <1>1, <1>2, <1>4 DEF UpdateMap, boxes, TypeOK
<1>6. RequestsBounded' /\ WereSent' /\ LastRequestKnows'
  BY <1>1, <1>2 DEF boxes, IInv, RequestsBounded, WereSent, LastRequestKnows
<1>7. LastAnswerKnows'
  BY <1>1, <1>2 DEF boxes, IInv, LastRequestKnows, LastAnswerKnows
<1>8. ReadyIsDrawn'
  <2> SUFFICES ASSUME status' = "Ready"
               PROVE  markers' = UNION {UpdateMapById(c, answer) : c \in filters}
    BY <1>2 DEF boxes, ReadyIsDrawn
  <2>1. ~Throws(answer)
    BY <1>2 DEF UpdateMap
  <2>2. Drawn(answer) = filters
    BY <2>1, DrawnIfNothingThrows DEF TypeOK
  <2> QED
    BY <1>3, <2>2
<1> QED
  BY <1>5, <1>6, <1>7, <1>8 DEF IInv

\* A request that is lost.
LEMMA LoseOK ==
    ASSUME TypeOK, IInv, NEW r \in inflight, Lose(r)
    PROVE  TypeOK' /\ IInv'
<1>1. TypeOK'
  BY DEF Lose, boxes, TypeOK
<1>2. IInv'
  BY DEF Lose, boxes, IInv, RequestsBounded, WereSent, LastRequestKnows, LastAnswerKnows, ReadyIsDrawn
<1> QED
  BY <1>1, <1>2

LEMMA StepOK == TypeOK /\ IInv /\ [Next]_vars => TypeOK' /\ IInv'
<1> SUFFICES ASSUME TypeOK, IInv, [Next]_vars
             PROVE  TypeOK' /\ IInv'
  OBVIOUS
<1>1. CASE UNCHANGED vars
  BY <1>1 DEF vars, boxes, TypeOK, IInv, RequestsBounded, WereSent, LastRequestKnows,
     LastAnswerKnows, ReadyIsDrawn
<1>2. CASE User
  <2>1. acts < MaxActs /\ acts' = acts + 1
    BY <1>2 DEF User
  <2>2. CASE \E v \in Views : Move(v)
    BY <2>1, <2>2, MoveOK
  <2>3. ASSUME NEW c \in Category, Check(Flipped(filters, c), cycles)
        PROVE  TypeOK' /\ IInv'
    <3>1. Flipped(filters, c) \in SUBSET Category /\ cycles \in SUBSET Cycles
      BY DEF TypeOK, Flipped
    <3> QED
      BY <2>1, <2>3, <3>1, CheckOK
  <2>4. ASSUME NEW c \in Cycles, Check(filters, Flipped(cycles, c))
        PROVE  TypeOK' /\ IInv'
    <3>1. filters \in SUBSET Category /\ Flipped(cycles, c) \in SUBSET Cycles
      BY DEF TypeOK, Flipped
    <3> QED
      BY <2>1, <2>4, <3>1, CheckOK
  <2>5. CASE Filter
    <3>1. /\ ViewShift \/ ViewShiftThrows
          /\ pending' = pending /\ (sent' = sent \/ sent' = sent + 1) /\ pending + sent < MaxRequests
      BY <2>5 DEF Filter, ViewShift, ViewShiftThrows
    <3>2. /\ acts' \in 0..MaxActs /\ pending' \in 0..MaxRequests
          /\ pending' + sent' <= MaxRequests
      <4>1. /\ pending \in Nat /\ sent \in Nat /\ MaxRequests \in Nat /\ MaxActs \in Nat
            /\ pending <= MaxRequests
        BY MapAssumption DEF TypeOK
      <4> QED
        BY <2>1, <3>1, <4>1 DEF TypeOK
    <3> QED
      BY <3>1, <3>2, ViewShiftOK, ThrowOK
  <2> QED
    BY <1>2, <2>2, <2>3, <2>4, <2>5 DEF User
<1>3. CASE Callback
  <2>1. /\ ViewShift \/ (pending > 1 /\ ViewShiftThrows)
        /\ pending > 0 /\ pending' = pending - 1
        /\ (sent' = sent \/ sent' = sent + 1) /\ acts' = acts
    BY <1>3 DEF Callback, ViewShift, ViewShiftThrows
  <2>2. /\ acts' \in 0..MaxActs /\ pending' \in 0..MaxRequests
        /\ pending' + sent' <= MaxRequests
        /\ pending > 1 => pending' # 0
    <3>1. /\ pending \in Nat /\ sent \in Nat /\ MaxRequests \in Nat
          /\ pending <= MaxRequests /\ pending + sent <= MaxRequests
      BY MapAssumption DEF TypeOK, IInv, RequestsBounded
    <3> QED
      BY <2>1, <3>1 DEF TypeOK
  <2> QED
    BY <2>1, <2>2, ViewShiftOK, ThrowOK
<1>4. CASE \E id \in 1..MaxRequests : Over(id)
  <2>1. PICK r \in inflight : Lose(r) \/ \E failed \in SUBSET r.what : NewData(r, failed)
    BY <1>4 DEF Over
  <2> QED
    BY <2>1, LoseOK, NewDataOK
<1> QED
  BY <1>1, <1>2, <1>3, <1>4 DEF Next

LEMMA InvariantHolds == Spec => [](TypeOK /\ IInv)
BY InitOK, StepOK, PTL DEF Spec

-----------------------------------------------------------------------------
\* Every variable has its type, however many requests are under way.
THEOREM MapTypeCorrect == Spec => []TypeOK
BY InvariantHolds, PTL

\* What is drawn comes from one answer, though UpdateMapById may throw in the
\* middle of drawing it.
THEOREM NoAnswersAreMixed == Spec => []MarkersAreOfOneAnswer
<1>1. Init => MarkersAreOfOneAnswer
  BY DEF Init, MarkersAreOfOneAnswer
<1>2. MarkersAreOfOneAnswer /\ [Next]_vars => MarkersAreOfOneAnswer'
  <2> SUFFICES ASSUME MarkersAreOfOneAnswer, [Next]_vars
               PROVE  MarkersAreOfOneAnswer'
    OBVIOUS
  <2>1. CASE UNCHANGED <<markers, data>>
    BY <2>1 DEF MarkersAreOfOneAnswer
  <2>2. ASSUME NEW r \in inflight, NEW failed \in SUBSET r.what, NewData(r, failed)
        PROVE  MarkersAreOfOneAnswer'
    <3> DEFINE answer == [r EXCEPT !.what = @ \ failed]
    <3>1. /\ data' = answer
          /\ markers' = UNION {UpdateMapById(c, answer) : c \in Drawn(answer)}
      BY <2>2 DEF NewData, UpdateMap, ClearMarkers
    <3> HIDE DEF answer
    <3> QED
      BY <3>1, DrawnType DEF MarkersAreOfOneAnswer
  <2>3. CASE User
    BY <2>1, <2>3 DEF User, Move, Check, Filter, ViewShift, ViewShiftThrows
  <2>4. CASE Callback
    BY <2>1, <2>4 DEF Callback, ViewShift, ViewShiftThrows
  <2>5. ASSUME NEW r \in inflight, Lose(r)
        PROVE  MarkersAreOfOneAnswer'
    BY <2>1, <2>5 DEF Lose
  <2> QED
    BY <2>1, <2>2, <2>3, <2>4, <2>5 DEF Next, Over, vars
<1> QED
  BY <1>1, <1>2, PTL DEF Spec

\* A page at rest that says Ready after its last answer shows all that its
\* boxes ask for, whatever was overtaken, failed or lost before, unless two
\* cycles are checked.
THEOREM ReadyPagesAreComplete == Spec => []ReadyMeansComplete
<1>1. TypeOK /\ IInv => ReadyMeansComplete
  <2> SUFFICES ASSUME TypeOK, IInv, Settled, Cardinality(cycles) <= 1,
                      data.id = sent, status = "Ready"
               PROVE  markers = Wanted
    BY DEF ReadyMeansComplete
  <2>1. data.cycles = cycles /\ data.view = view
    BY DEF Settled, IInv, LastAnswerKnows
  <2>2. markers = UNION {UpdateMapById(c, data) : c \in filters}
    BY DEF Settled, IInv, ReadyIsDrawn
  <2>3. Rows(data) = {view} \X cycles
    BY <2>1, FewCycles DEF Rows
  <2>4. markers = UNION {{c} \X (({view} \X cycles) \cup {Blank}) : c \in filters}
    BY <2>2, <2>3 DEF UpdateMapById
  <2> QED
    BY <2>4 DEF Wanted
<1> QED
  BY <1>1, InvariantHolds, PTL

-----------------------------------------------------------------------------
(* The page comes to rest. *)

Finite == IsFiniteSet(inflight)

\* A request under way is one whose answer, or failure, is still to come.
LEMMA OverWork ==
    ASSUME TypeOK, Finite, NEW r \in inflight, inflight' = inflight \ {r},
           pending' = pending, acts' = acts
    PROVE  Finite' /\ acts' = acts /\ Work' < Work
<1>1. IsFiniteSet(inflight \ {r}) /\ Cardinality(inflight \ {r}) = Cardinality(inflight) - 1
  BY FS_RemoveElement DEF Finite
<1>2. Cardinality(inflight) \in Nat /\ pending \in Nat
  BY FS_CardinalityType DEF Finite, TypeOK
<1> QED
  BY <1>1, <1>2 DEF Finite, Work

\* ViewShift sends one request, and it is a new one.
LEMMA ViewShiftWork ==
    ASSUME TypeOK, IInv, Finite, ViewShift
    PROVE  Finite' /\ Cardinality(inflight') = Cardinality(inflight) + 1
<1>1. NewRequest \notin inflight
  <2>1. NewRequest.id = sent + 1 /\ sent \in Nat /\ \A r \in inflight : r.id <= sent
    BY DEF NewRequest, TypeOK, IInv, WereSent
  <2>2. ~(sent + 1 <= sent)
    BY <2>1
  <2> QED
    BY <2>1, <2>2
<1>2. inflight' = inflight \cup {NewRequest}
  BY DEF ViewShift, Requested
<1> QED
  BY <1>1, <1>2, FS_AddElement DEF Finite

LEMMA StepWork ==
    ASSUME TypeOK, IInv, Finite, Next
    PROVE  Finite' /\ IF acts' = acts THEN Work' < Work ELSE Work' <= Work + 6
<1>0. Cardinality(inflight) \in Nat /\ pending \in Nat /\ acts \in Nat
  BY FS_CardinalityType DEF Finite, TypeOK
<1>1. CASE User
  <2>1. acts' # acts
    BY <1>0, <1>1 DEF User
  <2>2. CASE \E v \in Views : Move(v)
    <3>1. \E events \in 1..3 : pending' = pending + events
      BY <2>2 DEF Move
    <3>2. inflight' = inflight
      BY <2>2 DEF Move
    <3> QED
      BY <1>0, <2>1, <3>1, <3>2 DEF Finite, Work
  <2>3. CASE \E f, c : Check(f, c)
    <3>1. inflight' = inflight /\ pending' = pending
      BY <2>3 DEF Check
    <3> QED
      BY <1>0, <2>1, <3>1 DEF Finite, Work
  <2>4. CASE Filter
    <3>1. (ViewShift \/ ViewShiftThrows) /\ pending' = pending
      BY <2>4 DEF Filter
    <3>2. CASE ViewShift
      <4>1. Finite' /\ Cardinality(inflight') = Cardinality(inflight) + 1
        BY <3>2, ViewShiftWork
      <4> QED
        BY <1>0, <2>1, <3>1, <4>1 DEF Work
    <3>3. CASE ViewShiftThrows
      BY <1>0, <2>1, <3>1, <3>3 DEF ViewShiftThrows, Finite, Work
    <3> QED
      BY <3>1, <3>2, <3>3
  <2> QED
    BY <1>1, <2>2, <2>3, <2>4 DEF User
<1>2. CASE Callback
  <2>1. (ViewShift \/ ViewShiftThrows) /\ pending' = pending - 1 /\ acts' = acts
    BY <1>2 DEF Callback
  <2>2. CASE ViewShift
    <3>1. Finite' /\ Cardinality(inflight') = Cardinality(inflight) + 1
      BY <2>2, ViewShiftWork
    <3> QED
      BY <1>0, <2>1, <3>1 DEF Work
  <2>3. CASE ViewShiftThrows
    BY <1>0, <2>1, <2>3 DEF ViewShiftThrows, Finite, Work
  <2> QED
    BY <2>1, <2>2, <2>3
<1>3. CASE \E id \in 1..MaxRequests : Over(id)
  <2>1. PICK r \in inflight : Lose(r) \/ \E failed \in SUBSET r.what : NewData(r, failed)
    BY <1>3 DEF Over
  <2>2. inflight' = inflight \ {r} /\ pending' = pending /\ acts' = acts
    BY <2>1 DEF Lose, NewData
  <2> QED
    BY <2>2, OverWork
<1> QED
  BY <1>1, <1>2, <1>3 DEF Next

\* Only finitely many requests are under way, and every step but the acts of
\* the user leaves less to do.  That the steps are taken is a matter of
\* fairness; that they come to an end is not.
THEOREM PagesComeToRest == Spec => PageComesToRest
<1>1. Init => Finite
  BY FS_EmptySet DEF Init, Finite
<1>2. (TypeOK /\ IInv) /\ Finite /\ [Next]_vars => Finite'
  <2> SUFFICES ASSUME TypeOK, IInv, Finite, [Next]_vars PROVE Finite'
    OBVIOUS
  <2>1. CASE UNCHANGED vars
    BY <2>1 DEF vars, Finite
  <2> QED
    BY <2>1, StepWork
<1>3. (TypeOK /\ IInv) /\ Finite /\ [Next]_vars
      => [ IF acts' = acts THEN Work' < Work ELSE Work' <= Work + 6 ]_vars
  BY StepWork
<1> QED
  BY <1>1, <1>2, <1>3, InvariantHolds, PTL DEF Spec, PageComesToRest

\* While the page says "Querying" there is a request to wait for, unless one
\* has failed: what QueriesEnd needs beside fairness.
THEOREM QueryingIsWaiting == Spec => [](status = "Querying" => inflight # {} \/ lost)
<1> DEFINE Waiting == status = "Querying" => inflight # {} \/ lost
<1>1. Init => Waiting
  BY DEF Init
<1>2. TypeOK /\ Waiting /\ [Next]_vars => Waiting'
  <2> SUFFICES ASSUME TypeOK, Waiting, [Next]_vars PROVE Waiting'
    OBVIOUS
  <2>1. CASE UNCHANGED <<status, inflight, lost>>
    BY <2>1
  <2>2. CASE ViewShift
    BY <2>2 DEF ViewShift, Requested
  <2>3. ASSUME NEW r \in inflight, NEW failed \in SUBSET r.what, NewData(r, failed)
        PROVE  Waiting'
    BY <2>3 DEF NewData, UpdateMap
  <2>4. ASSUME NEW r \in inflight, Lose(r)
        PROVE  Waiting'
    BY <2>4 DEF Lose
  <2>5. CASE User
    BY <2>1, <2>2, <2>5 DEF User, Move, Check, Filter, ViewShiftThrows
  <2> QED
    BY <2>1, <2>2, <2>3, <2>4, <2>5 DEF Next, Callback, ViewShiftThrows, Over, vars
<1> QED
  BY <1>1, <1>2, MapTypeCorrect, PTL DEF Spec
=============================================================================
