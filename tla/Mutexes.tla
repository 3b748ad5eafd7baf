------------------------------- MODULE Mutexes ------------------------------
(***************************************************************************)
(* Two threads change a counter MAXCNT times each under a mutex:           *)
(* Linux/Chapter07/Mutexes.cpp, and CriticalSections of Windows/Chapter06  *)
(* and C#/Chapter06~07 with a CRITICAL_SECTION and a Monitor.              *)
(*                                                                         *)
(* count += 2 is a load, an addition and a store.                          *)
(***************************************************************************)
EXTENDS Integers

CONSTANTS
    MyThread1, MyThread2,
    Nobody,    \* mark of a free mutex
    MAXCNT,    \* BOUND: iterations of each loop, 100000000 in the code
    INT_MAX    \* largest value of count

ASSUME MutexesAssumption ==
    /\ MyThread1 # MyThread2
    /\ Nobody \notin {MyThread1, MyThread2}
    /\ MAXCNT \in Nat
    /\ INT_MAX \in Nat
    /\ 2 * MAXCNT <= INT_MAX

MyThreads == {MyThread1, MyThread2}

VARIABLES
    at,      \* at[t]: "lock", "load", "store", "unlock", "end"
    owner,   \* the thread that holds the mutex, or Nobody
    count,
    reg,     \* reg[t]: the value of count that t has loaded
    n        \* n[t]: loop counter, i in the code

counterVars == <<at, owner, count, reg, n>>

Change(t) == IF t = MyThread1 THEN 2 ELSE -2

CounterInit ==
    /\ at = [t \in MyThreads |-> IF MAXCNT = 0 THEN "end" ELSE "lock"]
    /\ owner = Nobody
    /\ count = 0
    /\ reg = [t \in MyThreads |-> 0]
    /\ n = [t \in MyThreads |-> 0]

(* Mutation: the mutex is not waited for. *)
LockMutexAtOnce(t) ==
    /\ at[t] = "lock"
    /\ owner' = t
    /\ at' = [at EXCEPT ![t] = "load"]
    /\ UNCHANGED <<count, reg, n>>

LockMutex(t) ==
    /\ at[t] = "lock"
    /\ owner = Nobody
    /\ owner' = t
    /\ at' = [at EXCEPT ![t] = "load"]
    /\ UNCHANGED <<count, reg, n>>

Load(t) ==
    /\ at[t] = "load"
    /\ reg' = [reg EXCEPT ![t] = count]
    /\ at' = [at EXCEPT ![t] = "store"]
    /\ UNCHANGED <<owner, count, n>>

Store(t) ==
    /\ at[t] = "store"
    /\ count' = reg[t] + Change(t)
    /\ at' = [at EXCEPT ![t] = "unlock"]
    /\ UNCHANGED <<owner, reg, n>>

(* Mutation: the mutex is not given back. *)
UnlockNoMutex(t) ==
    /\ at[t] = "unlock"
    /\ n' = [n EXCEPT ![t] = @ + 1]
    /\ at' = [at EXCEPT ![t] = IF n[t] + 1 < MAXCNT THEN "lock" ELSE "end"]
    /\ UNCHANGED <<owner, count, reg>>

UnlockMutex(t) ==
    /\ at[t] = "unlock"
    /\ owner' = Nobody
    /\ n' = [n EXCEPT ![t] = @ + 1]
    /\ at' = [at EXCEPT ![t] = IF n[t] + 1 < MAXCNT THEN "lock" ELSE "end"]
    /\ UNCHANGED <<count, reg>>

MyThread(t) == LockMutex(t) \/ Load(t) \/ Store(t) \/ UnlockMutex(t)

CounterNext == \E t \in MyThreads : MyThread(t)

CounterSpec == CounterInit /\ [][CounterNext]_counterVars

-----------------------------------------------------------------------------
(* Properties. *)

CounterTypeOK ==
    /\ at \in [MyThreads -> {"lock", "load", "store", "unlock", "end"}]
    /\ owner \in MyThreads \cup {Nobody}
    /\ count \in Int
    /\ reg \in [MyThreads -> Int]
    /\ n \in [MyThreads -> 0 .. MAXCNT]

(* Changes a thread has made to count. *)
Applied(t) == n[t] + (IF at[t] = "unlock" THEN 1 ELSE 0)

(* Both threads have ended, and main can print the count. *)
BothEnded == \A t \in MyThreads : at[t] = "end"

(* No update is lost: count is always what the changes made so far add up  *)
(* to, 0 once both threads have ended, and never overflows an int.         *)
NoLostUpdate ==
    /\ count = 2 * Applied(MyThread1) - 2 * Applied(MyThread2)
    /\ BothEnded => count = 0
    /\ count \in (-INT_MAX) .. INT_MAX

(* The inductive invariant: only the holder of the mutex is between its    *)
(* lock and its unlock, and what it has loaded is still the count.         *)
CounterIInv ==
    /\ CounterTypeOK
    /\ \A t \in MyThreads :
          /\ n[t] < MAXCNT \/ (at[t] = "end" /\ n[t] = MAXCNT)
          /\ at[t] = "end" => n[t] = MAXCNT
          /\ at[t] \in {"load", "store", "unlock"} => owner = t
          /\ at[t] = "store" => reg[t] = count
    /\ count = 2 * Applied(MyThread1) - 2 * Applied(MyThread2)
=============================================================================
