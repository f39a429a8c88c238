----------------------------- MODULE BlockPool ------------------------------
(***************************************************************************)
(* What the index promises the code that builds the tree: a pool of        *)
(* blocks.  A block is handed out only while nobody has it, the pool says  *)
(* NOSPACE only when it is empty, and creating an index starts afresh.     *)
(***************************************************************************)
CONSTANTS
    Pool,        \* the blocks that may ever be handed out
    None         \* no block

VARIABLES
    free,        \* the blocks nobody has
    answer       \* what the last allocation returned: [rc, block]

vars == <<free, answer>>

Quiet == answer' = [rc |-> "NONE", block |-> None]

Init == free = {} /\ answer = [rc |-> "NONE", block |-> None]

Create == free' = Pool /\ Quiet

Allocate ==
    \/ /\ free = {}
       /\ answer' = [rc |-> "NOSPACE", block |-> None]
       /\ UNCHANGED free
    \/ \E b \in free :
        /\ free' = free \ {b}
        /\ answer' = [rc |-> "NOERROR", block |-> b]

Give(b) == b \notin free /\ free' = free \cup {b} /\ Quiet

\* Everything else a client does leaves the pool alone.
Other == Quiet /\ UNCHANGED free

Next == Create \/ Allocate \/ Other \/ \E b \in Pool : Give(b)

Spec == Init /\ [][Next]_vars
=============================================================================
