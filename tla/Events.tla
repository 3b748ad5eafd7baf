-------------------------------- MODULE Events ------------------------------
(***************************************************************************)
(* One writer and several readers share a buffer, synchronised by two      *)
(* auto-reset events: Windows/Chapter06/Events/Events.cpp (and the older   *)
(* Events_org.cpp with one reader) and C#/Chapter06~07/Events/Program.cs.  *)
(*                                                                         *)
(* No lock protects the buffer: only the alternation of the two events     *)
(* keeps the threads apart.  The buffer is accessed element by element.    *)
(***************************************************************************)
EXTENDS BufferThreads

VARIABLES
    pc,            \* pc[t]: "wait", "store", "print", "clear", "set", "end"
    hWriteEvent,   \* the event is signaled
    hReadEvent,
    buf,           \* buf[0 .. BUFSIZE-1]
    k,             \* the writer's loop counter
    i,             \* i[t]: index of the loop over the buffer
    line,          \* line[t]: what reader t has printed of its line
    printed        \* the complete lines printed so far

vars == <<pc, hWriteEvent, hReadEvent, buf, k, i, line, printed>>

Init ==
    /\ pc = [t \in Threads |-> IF t = Main THEN "set" ELSE "wait"]
    /\ hWriteEvent = FALSE
    /\ hReadEvent = FALSE
    /\ buf = [x \in Index |-> 0]
    /\ k = 1
    /\ i = [t \in Threads |-> 0]
    /\ line = [t \in Readers |-> <<>>]
    /\ printed = <<>>

(* main(): the first SetEvent(hReadEvent); then it waits for the threads. *)
MainSets ==
    /\ pc[Main] = "set"
    /\ hReadEvent' = TRUE
    /\ pc' = [pc EXCEPT ![Main] = "end"]
    /\ UNCHANGED <<hWriteEvent, buf, k, i, line, printed>>

-----------------------------------------------------------------------------
(* WriteThread. *)

(* WaitForSingleObject(hReadEvent): returns when the event is signaled and *)
(* resets it.                                                              *)
WriterWaits ==
    /\ pc[Writer] = "wait"
    /\ k <= N
    /\ hReadEvent
    /\ hReadEvent' = FALSE
    /\ pc' = [pc EXCEPT ![Writer] = "store"]
    /\ i' = [i EXCEPT ![Writer] = 0]
    /\ UNCHANGED <<hWriteEvent, buf, k, line, printed>>

WriterStores ==
    /\ pc[Writer] = "store"
    /\ buf' = [buf EXCEPT ![i[Writer]] = k]
    /\ i' = [i EXCEPT ![Writer] = @ + 1]
    /\ pc' = [pc EXCEPT ![Writer] = IF i[Writer] + 1 < BUFSIZE THEN "store" ELSE "set"]
    /\ UNCHANGED <<hWriteEvent, hReadEvent, k, line, printed>>

(* SetEvent(hWriteEvent) and the loop's k++. *)
WriterSets ==
    /\ pc[Writer] = "set"
    /\ hWriteEvent' = TRUE
    /\ k' = k + 1
    /\ pc' = [pc EXCEPT ![Writer] = "wait"]
    /\ UNCHANGED <<hReadEvent, buf, i, line, printed>>

-----------------------------------------------------------------------------
(* ReadThread. *)

ReaderWaits(r) ==
    /\ pc[r] = "wait"
    /\ hWriteEvent
    /\ hWriteEvent' = FALSE
    /\ pc' = [pc EXCEPT ![r] = "print"]
    /\ i' = [i EXCEPT ![r] = 0]
    /\ line' = [line EXCEPT ![r] = <<>>]
    /\ UNCHANGED <<hReadEvent, buf, k, printed>>

(* printf() of one element; the line is complete with the last one. *)
ReaderPrints(r) ==
    /\ pc[r] = "print"
    /\ line' = [line EXCEPT ![r] = Append(@, buf[i[r]])]
    /\ i' = [i EXCEPT ![r] = @ + 1]
    /\ IF i[r] + 1 < BUFSIZE
       THEN pc' = pc /\ printed' = printed
       ELSE /\ pc' = [pc EXCEPT ![r] = "clear"]
            /\ printed' = Append(printed, Append(line[r], buf[i[r]]))
    /\ UNCHANGED <<hWriteEvent, hReadEvent, buf, k>>

(* memset(buf, 0, sizeof(buf)) *)
ReaderClears(r) ==
    /\ pc[r] = "clear"
    /\ buf' = [x \in Index |-> 0]
    /\ pc' = [pc EXCEPT ![r] = "set"]
    /\ UNCHANGED <<hWriteEvent, hReadEvent, k, i, line, printed>>

ReaderSets(r) ==
    /\ pc[r] = "set"
    /\ hReadEvent' = TRUE
    /\ pc' = [pc EXCEPT ![r] = "wait"]
    /\ UNCHANGED <<hWriteEvent, buf, k, i, line, printed>>

WriteThread == WriterWaits \/ WriterStores \/ WriterSets
ReadThread(r) ==
    ReaderWaits(r) \/ ReaderPrints(r) \/ ReaderClears(r) \/ ReaderSets(r)

Next == MainSets \/ WriteThread \/ \E r \in Readers : ReadThread(r)

Spec == Init /\ [][Next]_vars

(* The system schedules every thread that can run. *)
Fairness ==
    /\ WF_vars(MainSets)
    /\ WF_vars(WriteThread)
    /\ \A r \in Readers : WF_vars(ReadThread(r))

FairSpec == Spec /\ Fairness

-----------------------------------------------------------------------------
(* Properties. *)

TypeOK ==
    /\ pc \in [Threads -> {"wait", "store", "print", "clear", "set", "end"}]
    /\ hWriteEvent \in BOOLEAN
    /\ hReadEvent \in BOOLEAN
    /\ buf \in [Index -> Nat]
    /\ k \in 1 .. (N + 1)
    /\ i \in [Threads -> 0 .. BUFSIZE]
    /\ line \in [Readers -> Seq(Nat)]
    /\ printed \in Seq(Seq(Nat))

(* A thread that has been let through by its event and has not set the     *)
(* other one yet.                                                          *)
Busy(t) == t # Main /\ pc[t] \in {"store", "print", "clear", "set"}

(* Two threads are never in the buffer at once, although no lock guards    *)
(* it, and no event is set while a thread is: a SetEvent() never finds     *)
(* its event already signaled, so none is lost.                            *)
BufferExclusive ==
    /\ \A s, t \in Threads : Busy(s) /\ Busy(t) => s = t
    /\ \A t \in Threads : Busy(t) => ~ hWriteEvent /\ ~ hReadEvent

(* The inductive invariant.  Exactly one party has the right to go on: the *)
(* holder of an event that is signaled, a busy thread, or main before its  *)
(* first SetEvent().  The numbers stored and printed, and the buffer, are  *)
(* tied to who that is.                                                    *)
Phases ==
    /\ pc[Writer] \in {"wait", "store", "set"}
    /\ pc[Main] \in {"set", "end"}
    /\ \A r \in Readers : pc[r] \in {"wait", "print", "clear", "set"}

OneRight ==
    /\ BufferExclusive
    /\ ~ (hReadEvent /\ hWriteEvent)
    /\ pc[Main] = "set" =>
          ~ hReadEvent /\ ~ hWriteEvent /\ \A t \in Threads : ~ Busy(t)

WritersRight ==
    \/ pc[Main] = "set" \/ hReadEvent \/ pc[Writer] \in {"store", "set"}
    \/ \E r \in Readers : pc[r] \in {"clear", "set"}
ReadersRight == hWriteEvent \/ \E r \in Readers : pc[r] = "print"

Contents ==
    /\ WritersRight => Len(printed) = k - 1
    /\ ReadersRight => Len(printed) = k - 2 /\ \A x \in Index : buf[x] = k - 1
    /\ pc[Writer] \in {"store", "set"} => k <= N
    /\ pc[Writer] = "store" =>
          i[Writer] < BUFSIZE /\ \A x \in Index : x < i[Writer] => buf[x] = k
    /\ pc[Writer] = "set" => \A x \in Index : buf[x] = k
    /\ \A r \in Readers : pc[r] = "print" =>
          i[r] < BUFSIZE /\ line[r] = [q \in 1 .. i[r] |-> k - 1]

IInv == TypeOK /\ Phases /\ OneRight /\ Contents

(* Every number is handed over once, in order and whole. *)
Buffer == INSTANCE HandOff WITH written <- k - 1
ImplementsHandOff == Buffer!Spec

(* All numbers are printed in the end. *)
AllPrinted == <>(Len(printed) = N)
=============================================================================
