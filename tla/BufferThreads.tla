---------------------------- MODULE BufferThreads ----------------------------
(***************************************************************************)
(* The threads and the buffer of the hand-off samples: one writer, several *)
(* readers and main (Windows/Chapter06/Events, C#/Chapter06~07/Events and  *)
(* Linux/Chapter07/CondVars.cpp).                                          *)
(***************************************************************************)
EXTENDS Integers, Sequences

CONSTANTS
    Readers,    \* the threads that run ReadThread
    Writer,     \* the thread that runs WriteThread
    Main,       \* the thread that runs main
    N,          \* BOUND: numbers the writer hands over, 500 in the code
    BUFSIZE     \* elements of the shared buffer

ASSUME ThreadsAssumption ==
    /\ Writer \notin Readers /\ Main \notin Readers /\ Writer # Main
    /\ N \in Nat
    /\ BUFSIZE \in Nat \ {0}

Threads == Readers \cup {Writer, Main}
Index == 0 .. (BUFSIZE - 1)
=============================================================================
