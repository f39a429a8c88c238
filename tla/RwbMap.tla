------------------------------- MODULE RwbMap -------------------------------
(***************************************************************************)
(* The map page, rwb/rwb.js, and what rwb.pl answers to it.                *)
(*                                                                         *)
(* Scrolling and zooming the map, and the Filter button, call ViewShift,   *)
(* which sends a request for the view.  The answer comes in a step of its  *)
(* own and calls NewData: answers arrive in any order or, when the request *)
(* fails, not at all ($.get has no callback for that).  Each handler runs  *)
(* to its end, or to an exception, before another begins.                  *)
(*                                                                         *)
(* Rows are abstracted to where they come from, one for every view and     *)
(* election cycle.  Reposition moves only the marker of the user.          *)
(***************************************************************************)
EXTENDS Naturals, Sequences, FiniteSets

CONSTANTS
    Views,         \* bounds of the map
    Cycles,        \* election cycles, each with a checkbox
    Categories,    \* sequence of the categories in the order they are drawn
    Blank,         \* a marker for no row
    MaxActs,       \* bound: movements, boxes changed and clicks on Filter
    MaxRequests    \* bound: requests sent, or owed

ASSUME MapAssumption ==
    /\ Views # {}
    /\ IsFiniteSet(Cycles)
    /\ Categories \in Seq(STRING)
    /\ Blank \notin Views \X Cycles
    /\ MaxActs \in Nat
    /\ MaxRequests \in Nat \ {0}

VARIABLES
    view,          \* what the map shows
    filters,       \* the categories whose box is checked
    cycles,        \* the cycles whose box is checked
    pending,       \* callbacks of ViewShift the map owes
    inflight,      \* requests without an answer
    sent,          \* how many were sent
    data,          \* the answer in the hidden division
    markers,       \* what is drawn: pairs of a category and a row or Blank
    status,        \* the text of the color division
    acts,          \* how often the user did something
    touched,       \* history: a box changed since a request was sent
    lost           \* history: some request failed

boxes == <<filters, cycles>>
vars == <<view, boxes, pending, inflight, sent, data, markers, status, acts, touched, lost>>

Category == {Categories[i] : i \in 1..Len(Categories)}

Request == [id : Nat, view : Views, what : SUBSET Category, cycles : SUBSET Cycles]

\* The page as Start leaves it, with the map about to report its bounds.
Init ==
    /\ view \in Views
    /\ filters = {}
    /\ cycles = {}
    /\ pending = 1
    /\ inflight = {}
    /\ sent = 0
    /\ data = [id |-> 0, view |-> view, what |-> {}, cycles |-> {}]
    /\ markers = {}
    /\ status = "Waiting"
    /\ acts = 0
    /\ touched = FALSE
    /\ lost = FALSE
-----------------------------------------------------------------------------
(* The user. *)

\* One movement fires some of center_changed, zoom_changed and bounds_changed;
\* zooming at the pointer fires all three.
Move(v) ==
    /\ view' = v
    /\ \E events \in 1..3 :
          /\ pending + events + sent <= MaxRequests
          /\ pending' = pending + events
    /\ UNCHANGED <<boxes, inflight, sent, data, markers, status, touched, lost>>

Flipped(set, x) == IF x \in set THEN set \ {x} ELSE set \cup {x}

\* A box changes without calling anything.
Check(newFilters, newCycles) ==
    /\ filters' = newFilters
    /\ cycles' = newCycles
    /\ touched' = TRUE
    /\ UNCHANGED <<view, pending, inflight, sent, data, markers, status, lost>>
-----------------------------------------------------------------------------
(* The handlers. *)

\* What ViewShift sends: the view and the boxes as they are.
NewRequest == [id |-> sent + 1, view |-> view, what |-> filters, cycles |-> cycles]

RequestedUnlessEmpty == IF filters = {} THEN inflight ELSE inflight \cup {NewRequest}
Requested == inflight \cup {NewRequest}

ViewShift ==
    /\ status' = "Querying"
    /\ inflight' = Requested
    /\ sent' = sent + 1
    /\ touched' = FALSE
    /\ UNCHANGED <<view, boxes, data, markers, lost>>

\* Until the map has its first bounds, getBounds is undefined and ViewShift
\* throws.  The callback that reports them is the last that is owed then.
ViewShiftThrows ==
    /\ sent = 0
    /\ UNCHANGED <<view, boxes, inflight, sent, data, markers, status, touched, lost>>

Callback ==
    /\ pending > 0
    /\ pending' = pending - 1
    /\ ViewShift \/ (pending > 1 /\ ViewShiftThrows)
    /\ UNCHANGED acts

Filter ==
    /\ pending + sent < MaxRequests
    /\ ViewShift \/ ViewShiftThrows
    /\ UNCHANGED pending

\* A division has a line for every row found, and one, empty, after the last.
\* The boxes go into the query as one string, which only a single cycle equals.
RowsSwapped(answer) == answer.cycles \X {answer.view}
Rows(answer) ==
    IF Cardinality(answer.cycles) = 1 THEN {answer.view} \X answer.cycles ELSE {}

UpdateMapById(category, answer) == {category} \X (Rows(answer) \cup {Blank})

\* A category with a checked box but no division in the answer has nothing for
\* UpdateMapById to split, and it throws.
NeverThrows(answer) == FALSE
Throws(answer) == ~(filters \subseteq answer.what)

\* The categories drawn before that.
Drawn(answer) ==
    {Categories[i] : i \in {j \in 1..Len(Categories) :
        /\ Categories[j] \in filters
        /\ \A k \in 1..j : Categories[k] \in filters => Categories[k] \in answer.what}}

\* The markers that stay when the new ones are drawn.
NotCleared == markers
ClearMarkers == {}

UpdateMap(answer) ==
    /\ markers' = ClearMarkers \cup UNION {UpdateMapById(c, answer) : c \in Drawn(answer)}
    /\ status' = IF Throws(answer) THEN "Updating" ELSE "Ready"

\* The answer to r: a division for every category asked for, but for those
\* whose query fails.
NewData(r, failed) ==
    LET answer == [r EXCEPT !.what = @ \ failed] IN
    /\ inflight' = inflight \ {r}
    /\ data' = answer
    /\ UpdateMap(answer)
    /\ UNCHANGED <<view, boxes, pending, sent, acts, touched, lost>>

\* The request fails and nothing is called; a page that asks again would do so
\* for ever while rwb.pl is down.
LoseAndAskAgain(r) ==
    /\ inflight' = (inflight \ {r}) \cup {NewRequest}
    /\ sent' = sent + 1
    /\ lost' = TRUE
    /\ UNCHANGED <<view, boxes, pending, data, markers, status, acts, touched>>

Lose(r) ==
    /\ inflight' = inflight \ {r}
    /\ lost' = TRUE
    /\ UNCHANGED <<view, boxes, pending, sent, data, markers, status, acts, touched>>

Over(id) ==
    \E r \in inflight :
        /\ r.id = id
        /\ Lose(r) \/ \E failed \in SUBSET r.what : NewData(r, failed)

User ==
    /\ acts < MaxActs
    /\ acts' = acts + 1
    /\ \/ \E v \in Views : Move(v)
       \/ \E c \in Category : Check(Flipped(filters, c), cycles)
       \/ \E c \in Cycles : Check(filters, Flipped(cycles, c))
       \/ Filter

Next ==
    \/ User
    \/ Callback
    \/ \E id \in 1..MaxRequests : Over(id)

\* The browser gets round to every callback, and every request ends somehow.
\* The user need do nothing.
Fairness ==
    /\ WF_vars(Callback)
    /\ \A id \in 1..MaxRequests : WF_vars(Over(id))

Spec == Init /\ [][Next]_vars /\ Fairness
-----------------------------------------------------------------------------
\* Every variable has its type.
TypeOK ==
    /\ view \in Views
    /\ filters \subseteq Category
    /\ cycles \subseteq Cycles
    /\ pending \in 0..MaxRequests
    /\ inflight \subseteq Request
    /\ sent \in 0..MaxRequests
    /\ data \in Request
    /\ markers \subseteq Category \X ((Views \X Cycles) \cup {Blank})
    /\ status \in {"Waiting", "Querying", "Updating", "Ready"}
    /\ acts \in 0..MaxActs
    /\ touched \in BOOLEAN
    /\ lost \in BOOLEAN

\* The map never mixes answers, though drawing may stop in the middle: what is
\* drawn comes from the answer in the hidden division, and only from categories
\* it has.
MarkersAreOfOneAnswer ==
    markers \subseteq UNION {UpdateMapById(c, data) : c \in data.what}

\* What the boxes ask for in the view, category by category: the rows of every
\* checked cycle, and the marker the empty line leaves.
Wanted == filters \X (({view} \X cycles) \cup {Blank})

Settled == pending = 0 /\ inflight = {} /\ ~touched

\* When all is quiet, the boxes are as they were requested and the answer shown
\* is the last one's, "Ready" tells the truth: the map shows everything that the
\* boxes ask for in the view it is at, even if queries failed on the way or
\* answers for other boxes and other views were drawn before.  Of two cycles
\* checked at once it would not be true: the page shows none of their rows.
ReadyMeansComplete ==
    Settled /\ Cardinality(cycles) <= 1 /\ data.id = sent /\ status = "Ready" =>
        markers = Wanted

\* Unless a request fails, "Querying" does not stay on the page.
QueriesEnd == status = "Querying" ~> status # "Querying" \/ lost

\* What is left to do for the page: callbacks, each with the answer to its
\* request, and answers.
Work == 2 * pending + Cardinality(inflight)

\* No handler makes more work than it has done, whatever fails or throws: the
\* page comes to rest after at most six steps for every act of the user.
PageComesToRest ==
    [][ IF acts' = acts THEN Work' < Work ELSE Work' <= Work + 6 ]_vars

\* README:144-146, "callbacks that are invoked whenever the geoposition, map
\* zoom, or map center changes.  When this occurs new data is fetched using
\* rwb.pl and the map is redrawn."  An answer that is overtaken by the next one
\* redraws the map for the view before.
ReadyMeansRedrawn ==
    Settled /\ ~lost /\ status = "Ready" =>
        \A m \in markers : m[2] \in ({view} \X Cycles) \cup {Blank}
=============================================================================
