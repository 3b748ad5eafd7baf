------------------------------- MODULE HandOff ------------------------------
(***************************************************************************)
(* What the buffer samples of the thread chapters promise: the numbers     *)
(* 1, 2, ..., N go through the shared buffer one at a time, and each is    *)
(* printed exactly once, in order, as a line of BUFSIZE equal numbers.     *)
(***************************************************************************)
EXTENDS Integers, Sequences

CONSTANTS
    N,         \* numbers to hand over
    BUFSIZE    \* elements of the shared buffer

VARIABLES
    written,   \* numbers stored into the buffer so far
    printed    \* the lines printed so far

vars == <<written, printed>>

LineOf(m) == [q \in 1 .. BUFSIZE |-> m]

Init == written = 0 /\ printed = <<>>

Write ==
    /\ written < N
    /\ written = Len(printed)
    /\ written' = written + 1
    /\ printed' = printed

Read ==
    /\ Len(printed) < written
    /\ printed' = Append(printed, LineOf(written))
    /\ written' = written

Next == Write \/ Read

Spec == Init /\ [][Next]_vars
=============================================================================
