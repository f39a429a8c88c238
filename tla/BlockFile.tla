----------------------------- MODULE BlockFile ------------------------------
(***************************************************************************)
(* What the data file of a disk promises, stated without stdio and without *)
(* processes: `latest` is what a read finds at an address now, `durable'   *)
(* what would be found there if the process died.  A request changes the   *)
(* bytes it is about and no other, the two differ in the bytes of one      *)
(* block at most, and a death may take back what was written there last.   *)
(***************************************************************************)
EXTENDS Integers

CONSTANTS
    Addresses,   \* of the bytes: numbers
    Values,      \* what a byte may hold
    Zero,        \* a byte never written
    Absent       \* there is no file

VARIABLES
    latest,      \* [Addresses -> Values] or Absent
    durable,     \* [Addresses -> Values] or Absent
    blocksize    \* of the disk that is open

file == <<latest, durable>>

Settled == durable = latest

Init ==
    /\ latest \in [Addresses -> Values] \cup {Absent}
    /\ Settled

Create ==
    /\ latest = Absent
    /\ latest' = [a \in Addresses |-> Zero]
    /\ Settled'

\* Everything that was written before is safe at once, and of what is written
\* now all but the bytes of one block.
Write(v) ==
    /\ latest # Absent
    /\ latest' \in [Addresses -> Values]
    /\ durable' \in [Addresses -> Values]
    /\ \A a \in Addresses : latest'[a] \in {v, latest[a]}
    /\ \E at \in Addresses :
          \A a \in Addresses :
             durable'[a] \in IF a \in at .. at + blocksize - 1
                             THEN {latest'[a], latest[a]} ELSE {latest'[a]}

\* A read, or the end of the process, makes everything safe.
Settle ==
    /\ Settled'
    /\ UNCHANGED latest

\* Of what is not safe a part may be left.
Die ==
    /\ latest # Absent
    /\ latest' \in [Addresses -> Values]
    /\ \A a \in Addresses : latest'[a] \in {latest[a], durable[a]}
    /\ Settled'

\* Nobody removes a file that is in use.
Remove ==
    /\ Settled
    /\ latest' = Absent
    /\ durable' = Absent

\* Everything else a process does leaves the file alone.
Other == UNCHANGED file

Next ==
    \/ Other \/ Create \/ Settle \/ Die \/ Remove
    \/ \E v \in Values : Write(v)

Spec == Init /\ [][Next]_file
=============================================================================
