------------------------------- MODULE CondVars -----------------------------
(***************************************************************************)
(* The sample of module Events on POSIX threads:                           *)
(* Linux/Chapter07/CondVars.cpp.  Each event has become a flag, a mutex    *)
(* and a condition variable; "read" stands for readDone, readMutex and     *)
(* readCond, "write" for writeDone, writeMutex and writeCond.              *)
(***************************************************************************)
EXTENDS BufferThreads, FiniteSets

CONSTANT None   \* mark of a mutex that is free

ASSUME CondVarsAssumption == None \notin Threads

Flags == {"read", "write"}

VARIABLES
    pc,
    done,      \* done["read"] is readDone, done["write"] is writeDone
    mutex,     \* mutex[f]: the thread that holds the mutex, or None
    waiting,   \* waiting[f]: the threads inside pthread_cond_wait()
    buf, k, i, line, printed   \* as in module Events

vars == <<pc, done, mutex, waiting, buf, k, i, line, printed>>

(* The flag a thread waits for, and the flag it raises. *)
Awaits(t) == IF t = Writer THEN "read" ELSE "write"
Raises(t) == IF t = Writer THEN "write" ELSE "read"

Init ==
    /\ pc = [t \in Threads |-> IF t = Main THEN "lock2" ELSE "lock"]
    /\ done = [f \in Flags |-> 0]
    /\ mutex = [f \in Flags |-> None]
    /\ waiting = [f \in Flags |-> {}]
    /\ buf = [x \in Index |-> 0]
    /\ k = 1
    /\ i = [t \in Threads |-> 0]
    /\ line = [t \in Readers |-> <<>>]
    /\ printed = <<>>

-----------------------------------------------------------------------------
(* Waiting for a flag: lock; while (flag == 0) wait; flag = 0; unlock.     *)

Lock(t) ==
    /\ pc[t] = "lock"
    /\ t = Writer => k <= N
    /\ mutex[Awaits(t)] = None
    /\ mutex' = [mutex EXCEPT ![Awaits(t)] = t]
    /\ pc' = [pc EXCEPT ![t] = "test"]
    /\ UNCHANGED <<done, waiting, buf, k, i, line, printed>>

(* pthread_cond_wait() gives the mutex back and waits, in one step. *)
TestAndWait(t) ==
    /\ pc[t] = "test"
    /\ done[Awaits(t)] = 0
    /\ mutex' = [mutex EXCEPT ![Awaits(t)] = None]
    /\ waiting' = [waiting EXCEPT ![Awaits(t)] = @ \cup {t}]
    /\ pc' = [pc EXCEPT ![t] = "waiting"]
    /\ UNCHANGED <<done, buf, k, i, line, printed>>

(* A waiting thread may wake up without a signal. *)
SpuriousWakeup(t) ==
    /\ pc[t] = "waiting"
    /\ t \in waiting[Awaits(t)]
    /\ waiting' = [waiting EXCEPT ![Awaits(t)] = @ \ {t}]
    /\ UNCHANGED <<pc, done, mutex, buf, k, i, line, printed>>

(* Mutation: "if (flag == 0)" instead of "while (flag == 0)". *)
RelockAndTake(t) ==
    /\ pc[t] = "waiting"
    /\ t \notin waiting[Awaits(t)]
    /\ mutex[Awaits(t)] = None
    /\ done' = [done EXCEPT ![Awaits(t)] = 0]
    /\ pc' = [pc EXCEPT ![t] = IF t = Writer THEN "store" ELSE "print"]
    /\ i' = [i EXCEPT ![t] = 0]
    /\ UNCHANGED <<mutex, waiting, buf, k, line, printed>>

(* A thread that was woken takes the mutex again and tests the flag. *)
Relock(t) ==
    /\ pc[t] = "waiting"
    /\ t \notin waiting[Awaits(t)]
    /\ mutex[Awaits(t)] = None
    /\ mutex' = [mutex EXCEPT ![Awaits(t)] = t]
    /\ pc' = [pc EXCEPT ![t] = "test"]
    /\ UNCHANGED <<done, waiting, buf, k, i, line, printed>>

(* Mutation: the flag is not lowered. *)
TestAndLeave(t) ==
    /\ pc[t] = "test"
    /\ done[Awaits(t)] # 0
    /\ mutex' = [mutex EXCEPT ![Awaits(t)] = None]
    /\ pc' = [pc EXCEPT ![t] = IF t = Writer THEN "store" ELSE "print"]
    /\ i' = [i EXCEPT ![t] = 0]
    /\ line' = IF t = Writer THEN line ELSE [line EXCEPT ![t] = <<>>]
    /\ UNCHANGED <<done, waiting, buf, k, printed>>

TestAndTake(t) ==
    /\ pc[t] = "test"
    /\ done[Awaits(t)] # 0
    /\ done' = [done EXCEPT ![Awaits(t)] = 0]
    /\ mutex' = [mutex EXCEPT ![Awaits(t)] = None]
    /\ pc' = [pc EXCEPT ![t] = IF t = Writer THEN "store" ELSE "print"]
    /\ i' = [i EXCEPT ![t] = 0]
    /\ line' = IF t = Writer THEN line ELSE [line EXCEPT ![t] = <<>>]
    /\ UNCHANGED <<waiting, buf, k, printed>>

-----------------------------------------------------------------------------
(* The shared buffer. *)

WriterStores ==
    /\ pc[Writer] = "store"
    /\ buf' = [buf EXCEPT ![i[Writer]] = k]
    /\ i' = [i EXCEPT ![Writer] = @ + 1]
    /\ pc' = [pc EXCEPT ![Writer] = IF i[Writer] + 1 < BUFSIZE THEN "store" ELSE "lock2"]
    /\ UNCHANGED <<done, mutex, waiting, k, line, printed>>

ReaderPrints(r) ==
    /\ pc[r] = "print"
    /\ line' = [line EXCEPT ![r] = Append(@, buf[i[r]])]
    /\ i' = [i EXCEPT ![r] = @ + 1]
    /\ IF i[r] + 1 < BUFSIZE
       THEN pc' = pc /\ printed' = printed
       ELSE /\ pc' = [pc EXCEPT ![r] = "clear"]
            /\ printed' = Append(printed, Append(line[r], buf[i[r]]))
    /\ UNCHANGED <<done, mutex, waiting, buf, k>>

ReaderClears(r) ==
    /\ pc[r] = "clear"
    /\ buf' = [x \in Index |-> 0]
    /\ pc' = [pc EXCEPT ![r] = "lock2"]
    /\ UNCHANGED <<done, mutex, waiting, k, i, line, printed>>

-----------------------------------------------------------------------------
(* Raising a flag: lock; flag = 1; unlock; signal.                         *)

LockToRaise(t) ==
    /\ pc[t] = "lock2"
    /\ mutex[Raises(t)] = None
    /\ mutex' = [mutex EXCEPT ![Raises(t)] = t]
    /\ pc' = [pc EXCEPT ![t] = "set"]
    /\ UNCHANGED <<done, waiting, buf, k, i, line, printed>>

(* The writer's k++ belongs here: nothing reads k before the next lock. *)
RaiseAndUnlock(t) ==
    /\ pc[t] = "set"
    /\ done' = [done EXCEPT ![Raises(t)] = 1]
    /\ mutex' = [mutex EXCEPT ![Raises(t)] = None]
    /\ k' = IF t = Writer THEN k + 1 ELSE k
    /\ pc' = [pc EXCEPT ![t] = "signal"]
    /\ UNCHANGED <<waiting, buf, i, line, printed>>

(* Mutation: no signal. *)
SignalNobody(t) ==
    /\ pc[t] = "signal"
    /\ pc' = [pc EXCEPT ![t] = IF t = Main THEN "end" ELSE "lock"]
    /\ UNCHANGED <<done, mutex, waiting, buf, k, i, line, printed>>

(* pthread_cond_signal() wakes at least one waiting thread, if there is    *)
(* one; then the loop goes on, or main waits for the threads.              *)
Signal(t) ==
    /\ pc[t] = "signal"
    /\ \E woken \in SUBSET waiting[Raises(t)] :
          /\ waiting[Raises(t)] # {} => woken # {}
          /\ waiting' = [waiting EXCEPT ![Raises(t)] = @ \ woken]
    /\ pc' = [pc EXCEPT ![t] = IF t = Main THEN "end" ELSE "lock"]
    /\ UNCHANGED <<done, mutex, buf, k, i, line, printed>>

Await(t) ==
    Lock(t) \/ TestAndWait(t) \/ SpuriousWakeup(t) \/ Relock(t) \/ TestAndTake(t)
Raise(t) == LockToRaise(t) \/ RaiseAndUnlock(t) \/ Signal(t)

WriteThread == Await(Writer) \/ WriterStores \/ Raise(Writer)
ReadThread(r) == Await(r) \/ ReaderPrints(r) \/ ReaderClears(r) \/ Raise(r)
MainThread == Raise(Main)

Next == MainThread \/ WriteThread \/ \E r \in Readers : ReadThread(r)

Spec == Init /\ [][Next]_vars

(* The steps of a thread that need no mutex. *)
Steps(t) ==
    \/ TestAndWait(t) \/ TestAndTake(t) \/ RaiseAndUnlock(t) \/ Signal(t)
    \/ (t = Writer /\ WriterStores)
    \/ (t \in Readers /\ (ReaderPrints(t) \/ ReaderClears(t)))

-----------------------------------------------------------------------------
(* Properties. *)

TypeOK ==
    /\ pc \in [Threads -> {"lock", "test", "waiting", "store", "print", "clear",
                           "lock2", "set", "signal", "end"}]
    /\ done \in [Flags -> {0, 1}]
    /\ mutex \in [Flags -> Threads \cup {None}]
    /\ waiting \in [Flags -> SUBSET Threads]
    /\ buf \in [Index -> Nat]
    /\ k \in 1 .. (N + 1)
    /\ i \in [Threads -> 0 .. BUFSIZE]
    /\ line \in [Readers -> Seq(Nat)]
    /\ printed \in Seq(Seq(Nat))

(* A thread that has taken its flag and has not raised the other one yet. *)
Busy(t) == pc[t] \in {"store", "print", "clear", "lock2", "set"}

(* Two threads are never in the buffer at once, although no mutex is held  *)
(* there, and both flags are down while one is; main counts as busy until  *)
(* it has raised the first flag.                                           *)
BufferExclusive ==
    /\ \A s, t \in Threads : Busy(s) /\ Busy(t) => s = t
    /\ \A t \in Threads : Busy(t) => done["read"] = 0 /\ done["write"] = 0
    /\ done["read"] = 0 \/ done["write"] = 0

(* The flags, mutexes and condition variables do what the events of the    *)
(* Windows program do, spurious wakeups and late signals included.         *)
EventPc(t) ==
    CASE pc[t] \in {"lock", "test", "waiting"} -> "wait"
      [] pc[t] = "signal" -> (IF t = Main THEN "end" ELSE "wait")
      [] pc[t] = "lock2" -> "set"
      [] OTHER -> pc[t]
EventObjects == INSTANCE Events WITH
    pc <- [t \in Threads |-> EventPc(t)],
    hReadEvent <- done["read"] = 1,
    hWriteEvent <- done["write"] = 1
ImplementsEvents == EventObjects!Spec

(* The threads that wait for flag f somewhere in their loop. *)
Customers(f) == {t \in Readers \cup {Writer} : Awaits(t) = f}

(* No wakeup is lost between the unlock and the signal that follows it: if *)
(* a flag is up while everyone who could take it is asleep, the thread     *)
(* that raised it has its signal still to send.                            *)
NoLostWakeup ==
    \A f \in Flags :
       (done[f] = 1 /\ Customers(f) # {} /\ Customers(f) \subseteq waiting[f])
          => \E t \in Threads : pc[t] = "signal" /\ Raises(t) = f

(* The inductive invariant of the proofs: where each thread can be, who    *)
(* holds which mutex, who is asleep on which condition variable, and the   *)
(* bounds of the loops.                                                    *)
Phases ==
    /\ pc[Main] \in {"lock2", "set", "signal", "end"}
    /\ pc[Writer] \in {"lock", "test", "waiting", "store", "lock2", "set", "signal"}
    /\ \A r \in Readers : pc[r] \in
          {"lock", "test", "waiting", "print", "clear", "lock2", "set", "signal"}

Held(t, f) == \/ pc[t] = "test" /\ Awaits(t) = f
              \/ pc[t] = "set" /\ Raises(t) = f
MutexHeld == \A f \in Flags : \A t \in Threads : mutex[f] = t <=> Held(t, f)

Asleep == \A f \in Flags : \A t \in waiting[f] :
             pc[t] = "waiting" /\ t \in Customers(f)

Bounds ==
    /\ pc[Writer] \in {"test", "waiting", "store", "lock2", "set"} => k <= N
    /\ \A t \in Threads : pc[t] \in {"store", "print"} => i[t] < BUFSIZE

IInv == /\ TypeOK /\ Phases /\ MutexHeld /\ Asleep /\ Bounds
        /\ BufferExclusive /\ NoLostWakeup

(* Every number has been printed. *)
AllPrinted == Len(printed) = N
=============================================================================
