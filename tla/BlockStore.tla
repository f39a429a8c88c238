----------------------------- MODULE BlockStore -----------------------------
(***************************************************************************)
(* What a client of the buffer cache may rely on, stated without a cache.  *)
(*                                                                         *)
(* `latest' is the value a read of a block returns now, `durable' what has *)
(* been handed to the device and `safe' what not even the death of the     *)
(* process takes back.  Between two operations the store may make any      *)
(* blocks durable, but never changes what a read returns.  When a process  *)
(* ends, everything it wrote inside the device is safe, and anything it    *)
(* wrote past the end of the device is gone; when it dies, each block may  *)
(* have become durable or not.                                             *)
(***************************************************************************)
CONSTANTS
    Device,      \* the blocks the disk has
    Blocks,      \* the block numbers a client may name, Device among them
    Values,      \* what a block may hold
    Absent,      \* "no such block": neither on the device nor written
    NoBlock      \* the block of an operation that names none

VARIABLES
    latest,      \* [Blocks -> Values or Absent]: what a read returns
    durable,     \* [Device -> Values]: what the device has accepted
    safe,        \* [Device -> Values]: what of it a death leaves
    running,     \* is a process using the store?
    reply        \* the last operation and what it returned

vars == <<latest, durable, safe, running, reply>>

Answer(op, b, rc, v) == [op |-> op, block |-> b, rc |-> rc, value |-> v]

\* The blocks past the end of the device that the process has written.
Stray == {b \in Blocks \ Device : latest[b] # Absent}

OnDevice == [b \in Blocks |-> IF b \in Device THEN durable[b] ELSE Absent]

\* Some of the blocks reach the device, with the value a read returns.
SomeBecomeDurable ==
    \E B \in SUBSET Device :
        durable' = [b \in Device |-> IF b \in B THEN latest[b] ELSE durable[b]]

AllBecomeDurable == durable' = [b \in Device |-> latest[b]]

\* With any transfer all that was durable before becomes safe, and of what
\* becomes durable all but one block.
BecomesSafe ==
    \/ UNCHANGED <<durable, safe>>
    \/ \E b \in Device :
          safe' \in {durable', [durable' EXCEPT ![b] = durable[b]]}

Init ==
    /\ durable \in [Device -> Values]
    /\ safe = durable
    /\ latest = OnDevice
    /\ running = FALSE
    /\ reply = Answer("Close", NoBlock, "NOERROR", Absent)

Open ==
    /\ ~running
    /\ running' = TRUE
    /\ reply' = Answer("Open", NoBlock, "NOERROR", Absent)
    /\ UNCHANGED <<latest, durable, safe>>

Read(b) ==
    /\ running
    /\ reply' = Answer("Read", b,
                       IF latest[b] = Absent THEN "NOSPACE" ELSE "NOERROR",
                       latest[b])
    /\ SomeBecomeDurable
    /\ BecomesSafe
    /\ UNCHANGED <<latest, running>>

Write(b, v) ==
    /\ running
    /\ latest' = [latest EXCEPT ![b] = v]
    /\ reply' = Answer("Write", b, "NOERROR", v)
    /\ SomeBecomeDurable
    /\ BecomesSafe
    /\ UNCHANGED running

Flush(b) ==
    /\ running
    /\ reply' = Answer("Flush", b,
                       IF b \in Stray THEN "NOSPACE" ELSE "NOERROR", Absent)
    /\ durable' = IF b \in Device THEN [durable EXCEPT ![b] = latest[b]]
                                  ELSE durable
    /\ BecomesSafe
    /\ UNCHANGED <<latest, running>>

\* Everything on the device is durable even when a stray block makes it fail.
Detach ==
    /\ running
    /\ AllBecomeDurable
    /\ BecomesSafe
    /\ reply' = Answer("Detach", NoBlock,
                       IF Stray = {} THEN "NOERROR" ELSE "NOSPACE", Absent)
    /\ UNCHANGED <<latest, running>>

\* The process has ended: the device holds what it holds.
Ended ==
    /\ running
    /\ running' = FALSE
    /\ safe' = durable'
    /\ latest' = OnDevice'

Close ==
    /\ Ended
    /\ AllBecomeDurable
    /\ reply' = Answer("Close", NoBlock, "NOERROR", Absent)

Die ==
    /\ Ended
    /\ SomeBecomeDurable \/ durable' = safe
    /\ reply' = Answer("Kill", NoBlock, "NOERROR", Absent)

Next ==
    \/ Open \/ Detach \/ Close \/ Die
    \/ \E b \in Blocks : Read(b) \/ Flush(b) \/ \E v \in Values : Write(b, v)

Spec == Init /\ [][Next]_vars
=============================================================================
