------------------------------ MODULE MCThreads -----------------------------
(***************************************************************************)
(* Small instances of the two thread samples, CondVars and Mutexes.        *)
(* "program" says which one runs; it never changes.                        *)
(***************************************************************************)
EXTENDS CondVars, Mutexes

VARIABLE program

MCInit == program \in {"CondVars", "Mutexes"} /\ Init /\ CounterInit

RunsCondVars == program = "CondVars"
RunsMutexes == program = "Mutexes"

MCNext ==
    \/ RunsCondVars /\ Next /\ UNCHANGED <<program, counterVars>>
    \/ RunsMutexes /\ CounterNext /\ UNCHANGED <<program, vars>>

(* The scheduler runs every thread that can run; a waiting thread may stay *)
(* asleep for ever when nobody signals, and a thread that asks for a mutex *)
(* that is released again and again gets it in the end.                    *)
MCFairness ==
    /\ \A t \in Threads :
          /\ WF_vars(RunsCondVars /\ Steps(t))
          /\ SF_vars(RunsCondVars /\ (Lock(t) \/ Relock(t)))
          /\ SF_vars(RunsCondVars /\ LockToRaise(t))
    /\ \A t \in MyThreads : WF_counterVars(RunsMutexes /\ MyThread(t))

MCSpec == MCInit /\ [][MCNext]_<<program, vars, counterVars>> /\ MCFairness

(* The readers of CondVars print every number although both wait on one    *)
(* condition variable, and both threads of Mutexes get to their end, so    *)
(* that main can print the count.                                          *)
WorkDone == <>(IF RunsCondVars THEN AllPrinted ELSE BothEnded)
=============================================================================
