----------------------------- MODULE NodeArrays -----------------------------
(***************************************************************************)
(* What a B-tree node is to the code that uses it: a type and three arrays *)
(* whose entries change only when they are set, and that come back from    *)
(* the block they were saved in as they were.                              *)
(***************************************************************************)
EXTENDS Integers

CONSTANTS
    NoNode,      \* no node in memory
    TreeTypes    \* the types of node that have arrays

VARIABLES
    node,        \* NoNode or [nodetype, numkeys, key, ptr, val]
    stored,      \* the node that was saved last, or NoNode
    answer       \* the last call: [op, field, offset, rc, value]

vars == <<node, stored, answer>>

Fields == {"key", "ptr", "val"}

Restricted(array, S) == [i \in DOMAIN array \cap S |-> array[i]]

Init == node = NoNode /\ stored = NoNode

New ==
    /\ answer'.op = "New" /\ answer'.rc = "NOERROR"
    /\ node'.numkeys = 0
    /\ UNCHANGED stored

\* What was there stays; a new entry holds anything.
ChangeNumKeys ==
    /\ answer'.op = "SetNumKeys" /\ answer'.rc = "NOERROR"
    /\ node'.nodetype = node.nodetype
    /\ \A f \in Fields :
          LET common == DOMAIN node[f] \cap DOMAIN node'[f]
          IN  Restricted(node'[f], common) = Restricted(node[f], common)
    /\ UNCHANGED stored

Get ==
    /\ answer'.op = "Get" /\ answer'.rc = "NOERROR"
    /\ answer'.offset \in DOMAIN node[answer'.field]
    /\ answer'.value = node[answer'.field][answer'.offset]
    /\ UNCHANGED <<node, stored>>

GetKeyVal ==
    /\ answer'.op = "GetKeyVal" /\ answer'.rc = "NOERROR"
    /\ answer'.offset \in DOMAIN node.key
    /\ answer'.value = <<node.key[answer'.offset], node.val[answer'.offset]>>
    /\ UNCHANGED <<node, stored>>

Set ==
    /\ answer'.op = "Set" /\ answer'.rc = "NOERROR"
    /\ answer'.offset \in DOMAIN node[answer'.field]
    /\ node' = [node EXCEPT ![answer'.field][answer'.offset] = answer'.value]
    /\ UNCHANGED stored

\* On a node without values the key is set all the same.
SetKeyVal ==
    /\ answer'.op = "SetKeyVal"
    /\ answer'.offset \in DOMAIN node.key
    /\ node' = IF answer'.rc = "NOERROR"
               THEN [node EXCEPT !.key[answer'.offset] = answer'.value[1],
                                 !.val[answer'.offset] = answer'.value[2]]
               ELSE [node EXCEPT !.key[answer'.offset] = answer'.value[1]]
    /\ answer'.rc = "NOERROR" <=> node.nodetype = "LEAF"
    /\ UNCHANGED stored

\* A call that is refused, or ends the process, leaves everything alone.
Refused ==
    /\ answer'.rc \in {"NOMEM", "NOSPACE", "ABORT"}
    /\ answer'.op = "SetKeyVal" /\ answer'.rc = "NOMEM"
           => node.nodetype \notin TreeTypes
    /\ UNCHANGED <<node, stored>>

Save == answer'.op = "Serialize" /\ stored' = node /\ UNCHANGED node

Load == answer'.op = "Unserialize" /\ node' = stored /\ UNCHANGED stored

Next ==
    \/ New \/ ChangeNumKeys \/ Get \/ GetKeyVal \/ Set \/ SetKeyVal
    \/ Refused \/ Save \/ Load

Spec == Init /\ [][Next]_vars
=============================================================================
