--------------------------- MODULE Threads_proofs ---------------------------
(***************************************************************************)
(* Proofs about the thread samples: about module Events, for any set of    *)
(* readers, any number of hand-overs and any size of the buffer; about     *)
(* module CondVars, whose condition variables do what those events do; and *)
(* about module Mutexes, for every number of iterations.                   *)
(***************************************************************************)
EXTENDS CondVars, Mutexes, TLAPS

(* The events of the Windows and C# programs.  Their other variables have  *)
(* the names they have in CondVars.                                        *)
VARIABLES hReadEvent, hWriteEvent
Ev == INSTANCE Events

-----------------------------------------------------------------------------
(* Events. *)

(* The inductive invariant holds initially. *)
LEMMA EventsInit == Ev!Init => Ev!IInv
<1> SUFFICES ASSUME Ev!Init PROVE Ev!IInv
  OBVIOUS
<1> USE ThreadsAssumption DEF Ev!Init, Ev!Threads, Ev!Index
<1>1. Ev!TypeOK
  <2>1. pc \in [Ev!Threads -> {"wait", "store", "print", "clear", "set", "end"}]
    OBVIOUS
  <2>2. buf \in [Ev!Index -> Nat] /\ k \in 1 .. (N + 1) /\ i \in [Ev!Threads -> 0 .. BUFSIZE]
    OBVIOUS
  <2>3. line \in [Readers -> Seq(Nat)] /\ printed \in Seq(Seq(Nat))
    OBVIOUS
  <2> QED
    BY <2>1, <2>2, <2>3 DEF Ev!TypeOK
<1>2. Ev!Phases
  BY DEF Ev!Phases
<1>3. Ev!OneRight
  BY DEF Ev!OneRight, Ev!BufferExclusive, Ev!Busy
<1>4. Ev!Contents
  BY DEF Ev!Contents, Ev!WritersRight, Ev!ReadersRight
<1> QED
  BY <1>1, <1>2, <1>3, <1>4 DEF Ev!IInv

(* Every step keeps the variables in their sets. *)
LEMMA EventsTypes ==
    ASSUME Ev!IInv, [Ev!Next]_(Ev!vars)
    PROVE  Ev!TypeOK'
<1> USE ThreadsAssumption DEF Ev!IInv, Ev!TypeOK, Ev!Threads, Ev!Index
<1>1. CASE Ev!MainSets
  BY <1>1 DEF Ev!MainSets
<1>2. CASE Ev!WriterWaits
  <2>1. i' \in [Ev!Threads -> 0 .. BUFSIZE]
    BY <1>2 DEF Ev!WriterWaits
  <2>2. pc' \in [Ev!Threads -> {"wait", "store", "print", "clear", "set", "end"}]
    BY <1>2 DEF Ev!WriterWaits
  <2> QED
    BY <1>2, <2>1, <2>2 DEF Ev!WriterWaits
<1>3. CASE Ev!WriterStores
  <2>1. i[Writer] \in Ev!Index /\ k \in Nat
    BY <1>3 DEF Ev!WriterStores, Ev!Contents
  <2>2. buf' \in [Ev!Index -> Nat]
    BY <1>3, <2>1 DEF Ev!WriterStores
  <2>3. i' \in [Ev!Threads -> 0 .. BUFSIZE]
    BY <1>3, <2>1, SMTT(60) DEF Ev!WriterStores
  <2> QED
    BY <1>3, <2>2, <2>3 DEF Ev!WriterStores
<1>4. CASE Ev!WriterSets
  BY <1>4 DEF Ev!WriterSets, Ev!Contents
<1>5. ASSUME NEW r \in Readers, Ev!ReaderWaits(r) PROVE Ev!TypeOK'
  <2>1. line' \in [Readers -> Seq(Nat)]
    BY <1>5 DEF Ev!ReaderWaits
  <2>2. i' \in [Ev!Threads -> 0 .. BUFSIZE]
    BY <1>5 DEF Ev!ReaderWaits
  <2>3. pc' \in [Ev!Threads -> {"wait", "store", "print", "clear", "set", "end"}]
    BY <1>5 DEF Ev!ReaderWaits
  <2> QED
    BY <1>5, <2>1, <2>2, <2>3 DEF Ev!ReaderWaits
<1>6. ASSUME NEW r \in Readers, Ev!ReaderPrints(r) PROVE Ev!TypeOK'
  <2>1. /\ i[r] \in Ev!Index /\ i[r] + 1 \in 0 .. BUFSIZE
        /\ buf[i[r]] \in Nat /\ line[r] \in Seq(Nat)
    BY <1>6 DEF Ev!ReaderPrints, Ev!Contents
  <2>2. Append(line[r], buf[i[r]]) \in Seq(Nat)
    BY <2>1
  <2>3. line' \in [Readers -> Seq(Nat)]
    BY <1>6, <2>2 DEF Ev!ReaderPrints
  <2>4. printed' \in Seq(Seq(Nat))
    <3>1. Append(printed, Append(line[r], buf[i[r]])) \in Seq(Seq(Nat))
      BY <2>2
    <3> QED
      BY <1>6, <3>1 DEF Ev!ReaderPrints
  <2>5. i' \in [Ev!Threads -> 0 .. BUFSIZE] /\ pc' \in [Ev!Threads -> {"wait", "store", "print", "clear", "set", "end"}]
    BY <1>6, <2>1 DEF Ev!ReaderPrints
  <2> QED
    BY <1>6, <2>3, <2>4, <2>5 DEF Ev!ReaderPrints
<1>7. ASSUME NEW r \in Readers, Ev!ReaderClears(r) PROVE Ev!TypeOK'
  BY <1>7 DEF Ev!ReaderClears
<1>8. ASSUME NEW r \in Readers, Ev!ReaderSets(r) PROVE Ev!TypeOK'
  BY <1>8 DEF Ev!ReaderSets
<1>9. CASE UNCHANGED Ev!vars
  BY <1>9 DEF Ev!vars
<1> QED
  BY <1>1, <1>2, <1>3, <1>4, <1>5, <1>6, <1>7, <1>8, <1>9
     DEF Ev!Next, Ev!WriteThread, Ev!ReadThread

(* Every step hands the right to go on to one party. *)
LEMMA EventsRight ==
    ASSUME Ev!IInv, [Ev!Next]_(Ev!vars)
    PROVE  (Ev!Phases /\ Ev!OneRight)'
<1> USE ThreadsAssumption
    DEF Ev!IInv, Ev!TypeOK, Ev!Threads, Ev!Phases, Ev!OneRight, Ev!BufferExclusive, Ev!Busy
<1>1. CASE Ev!MainSets
  BY <1>1 DEF Ev!MainSets
<1>2. CASE Ev!WriterWaits
  BY <1>2 DEF Ev!WriterWaits
<1>3. CASE Ev!WriterStores
  BY <1>3 DEF Ev!WriterStores
<1>4. CASE Ev!WriterSets
  BY <1>4 DEF Ev!WriterSets
<1>5. ASSUME NEW r \in Readers, Ev!ReaderWaits(r) PROVE (Ev!Phases /\ Ev!OneRight)'
  BY <1>5 DEF Ev!ReaderWaits
<1>6. ASSUME NEW r \in Readers, Ev!ReaderPrints(r) PROVE (Ev!Phases /\ Ev!OneRight)'
  BY <1>6 DEF Ev!ReaderPrints
<1>7. ASSUME NEW r \in Readers, Ev!ReaderClears(r) PROVE (Ev!Phases /\ Ev!OneRight)'
  BY <1>7 DEF Ev!ReaderClears
<1>8. ASSUME NEW r \in Readers, Ev!ReaderSets(r) PROVE (Ev!Phases /\ Ev!OneRight)'
  BY <1>8 DEF Ev!ReaderSets
<1>9. CASE UNCHANGED Ev!vars
  BY <1>9 DEF Ev!vars
<1> QED
  BY <1>1, <1>2, <1>3, <1>4, <1>5, <1>6, <1>7, <1>8, <1>9
     DEF Ev!Next, Ev!WriteThread, Ev!ReadThread

(* Every step keeps the counts and the buffer in line with who has the     *)
(* right to go on.                                                         *)
LEMMA EventsContents ==
    ASSUME Ev!IInv, [Ev!Next]_(Ev!vars)
    PROVE  Ev!Contents'
<1> USE ThreadsAssumption
    DEF Ev!IInv, Ev!TypeOK, Ev!Threads, Ev!Index, Ev!Phases, Ev!OneRight, Ev!BufferExclusive, Ev!Busy
<1>1. CASE Ev!MainSets
  BY <1>1 DEF Ev!MainSets, Ev!Contents, Ev!WritersRight, Ev!ReadersRight
<1>2. CASE Ev!WriterWaits
  BY <1>2 DEF Ev!WriterWaits, Ev!Contents, Ev!WritersRight, Ev!ReadersRight
<1>3. CASE Ev!WriterStores
  <2>1. /\ pc[Writer] = "store" /\ Len(printed) = k - 1 /\ k <= N /\ i[Writer] \in Ev!Index
        /\ \A x \in Ev!Index : x < i[Writer] => buf[x] = k
    BY <1>3 DEF Ev!WriterStores, Ev!Contents, Ev!WritersRight
  <2>2. \A t \in Ev!Threads : t # Writer /\ t # Main => pc[t] = "wait"
    BY <2>1
  <2>3. /\ \A t \in Ev!Threads : t # Writer => pc'[t] = pc[t]
        /\ hWriteEvent' = hWriteEvent /\ k' = k /\ printed' = printed
        /\ i'[Writer] = i[Writer] + 1 /\ buf'[i[Writer]] = k
        /\ \A x \in Ev!Index : x < i[Writer] => buf'[x] = buf[x]
        /\ pc'[Writer] = IF i[Writer] + 1 < BUFSIZE THEN "store" ELSE "set"
    BY <1>3, <2>1 DEF Ev!WriterStores
  <2>4. ~ Ev!ReadersRight'
    BY <2>1, <2>2, <2>3 DEF Ev!ReadersRight
  <2>5. \A x \in Ev!Index : x < i[Writer] + 1 => buf'[x] = k
    <3> SUFFICES ASSUME NEW x \in Ev!Index, x < i[Writer] + 1
                 PROVE  buf'[x] = k
      OBVIOUS
    <3>1. x < i[Writer] \/ x = i[Writer]
      BY <2>1
    <3> QED
      BY <2>1, <2>3, <3>1
  <2>6. i[Writer] + 1 >= BUFSIZE => \A x \in Ev!Index : buf'[x] = k
    BY <2>1, <2>5
  <2>7. \A r \in Readers : pc'[r] # "print"
    BY <2>2, <2>3
  <2>8. pc'[Writer] \in {"store", "set"} => k' <= N
    BY <2>1, <2>3
  <2>9. pc'[Writer] = "store" =>
           i'[Writer] < BUFSIZE /\ \A x \in Ev!Index : x < i'[Writer] => buf'[x] = k'
    BY <2>3, <2>5
  <2>10. pc'[Writer] = "set" => \A x \in Ev!Index : buf'[x] = k'
    BY <2>1, <2>3, <2>6
  <2> QED
    BY <2>1, <2>3, <2>4, <2>7, <2>8, <2>9, <2>10 DEF Ev!Contents
<1>4. CASE Ev!WriterSets
  BY <1>4 DEF Ev!WriterSets, Ev!Contents, Ev!WritersRight, Ev!ReadersRight
<1>5. ASSUME NEW r \in Readers, Ev!ReaderWaits(r) PROVE Ev!Contents'
  BY <1>5 DEF Ev!ReaderWaits, Ev!Contents, Ev!WritersRight, Ev!ReadersRight
<1>6. ASSUME NEW r \in Readers, Ev!ReaderPrints(r) PROVE Ev!Contents'
  <2>1. buf[i[r]] = k - 1 /\ line[r] = [q \in 1 .. i[r] |-> k - 1] /\ i[r] \in Ev!Index
    BY <1>6 DEF Ev!ReaderPrints, Ev!Contents, Ev!ReadersRight
  <2>2. Append(line[r], buf[i[r]]) = [q \in 1 .. (i[r] + 1) |-> k - 1]
    BY <2>1
  <2>3. ~ hReadEvent /\ ~ hWriteEvent /\ pc[Main] # "set" /\ Writer # r /\ Main # r
    BY <1>6 DEF Ev!ReaderPrints
  <2>4. \A t \in Ev!Threads : t # r => ~ Ev!Busy(t)
    BY <1>6 DEF Ev!ReaderPrints
  <2>5. pc[Writer] = "wait"
    BY <2>3, <2>4
  <2>6. CASE i[r] + 1 < BUFSIZE
    <3>1. pc' = pc /\ printed' = printed /\ i'[r] = i[r] + 1
      BY <1>6, <2>6 DEF Ev!ReaderPrints
    <3>2. line'[r] = [q \in 1 .. i'[r] |-> k - 1]
      BY <1>6, <2>1, <2>2, <3>1 DEF Ev!ReaderPrints
    <3>3. ~ Ev!WritersRight'
      BY <1>6, <2>3, <2>4, <2>5, <3>1 DEF Ev!ReaderPrints, Ev!WritersRight
    <3>4. Len(printed') = k - 2 /\ k' = k /\ buf' = buf /\ \A x \in Ev!Index : buf[x] = k - 1
      BY <1>6, <3>1 DEF Ev!ReaderPrints, Ev!Contents, Ev!ReadersRight
    <3> QED
      BY <1>6, <2>4, <2>5, <2>6, <3>1, <3>2, <3>3, <3>4 DEF Ev!ReaderPrints, Ev!Contents
  <2>7. CASE i[r] + 1 >= BUFSIZE
    <3>1. /\ pc' = [pc EXCEPT ![r] = "clear"]
          /\ printed' = Append(printed, Append(line[r], buf[i[r]]))
          /\ k' = k /\ hWriteEvent' = hWriteEvent
      BY <1>6, <2>1, <2>7 DEF Ev!ReaderPrints
    <3>2. Len(printed) = k - 2
      BY <1>6 DEF Ev!ReaderPrints, Ev!Contents, Ev!ReadersRight
    <3>3. Append(line[r], buf[i[r]]) \in Seq(Nat)
      BY <2>1
    <3>4. Len(printed') = Len(printed) + 1
      BY <3>1, <3>3
    <3>5. ~ Ev!ReadersRight'
      BY <2>3, <2>4, <3>1 DEF Ev!ReadersRight
    <3>6. \A t \in Ev!Threads : pc'[t] \notin {"store", "print"} /\ pc'[Writer] = "wait"
      BY <2>4, <2>5, <2>3, <3>1
    <3> QED
      BY <3>1, <3>2, <3>4, <3>5, <3>6, <2>3 DEF Ev!Contents
  <2> QED
    BY <2>1, <2>6, <2>7
<1>7. ASSUME NEW r \in Readers, Ev!ReaderClears(r) PROVE Ev!Contents'
  BY <1>7 DEF Ev!ReaderClears, Ev!Contents, Ev!WritersRight, Ev!ReadersRight
<1>8. ASSUME NEW r \in Readers, Ev!ReaderSets(r) PROVE Ev!Contents'
  BY <1>8 DEF Ev!ReaderSets, Ev!Contents, Ev!WritersRight, Ev!ReadersRight
<1>9. CASE UNCHANGED Ev!vars
  BY <1>9 DEF Ev!vars, Ev!Contents, Ev!WritersRight, Ev!ReadersRight
<1> QED
  BY <1>1, <1>2, <1>3, <1>4, <1>5, <1>6, <1>7, <1>8, <1>9
     DEF Ev!Next, Ev!WriteThread, Ev!ReadThread

(* The inductive invariant holds in every reachable state. *)
LEMMA EventsInvariance == Ev!Spec => []Ev!IInv
<1>1. Ev!IInv /\ [Ev!Next]_(Ev!vars) => Ev!IInv'
  BY EventsTypes, EventsRight, EventsContents DEF Ev!IInv
<1> QED
  BY <1>1, EventsInit, PTL DEF Ev!Spec

(* The variables stay in their sets; in particular no thread leaves the    *)
(* bounds of the buffer.                                                   *)
THEOREM EventsTypeCorrect == Ev!Spec => []Ev!TypeOK
<1>1. Ev!IInv => Ev!TypeOK
  BY DEF Ev!IInv
<1> QED
  BY <1>1, EventsInvariance, PTL

(* However many readers there are, the two events alone keep the threads   *)
(* from being in the buffer at once.                                       *)
THEOREM EventsExclusion == Ev!Spec => []Ev!BufferExclusive
<1>1. Ev!IInv => Ev!BufferExclusive
  BY DEF Ev!IInv, Ev!OneRight
<1> QED
  BY <1>1, EventsInvariance, PTL

(* The numbers reach the output once each, in order and whole, for any     *)
(* number of them and any size of the buffer: the program implements the   *)
(* hand-over.                                                              *)
THEOREM HandsOver == Ev!Spec => Ev!ImplementsHandOff
<1>1. Ev!Init => Ev!Buffer!Init
  BY DEF Ev!Init, Ev!Buffer!Init
<1>2. Ev!IInv /\ [Ev!Next]_(Ev!vars) => [Ev!Buffer!Next]_(Ev!Buffer!vars)
  <2> SUFFICES ASSUME Ev!IInv, [Ev!Next]_(Ev!vars)
               PROVE  [Ev!Buffer!Next]_(Ev!Buffer!vars)
    OBVIOUS
  <2> USE ThreadsAssumption
      DEF Ev!IInv, Ev!TypeOK, Ev!Threads, Ev!Index, Ev!Phases, Ev!OneRight, Ev!BufferExclusive, Ev!Busy,
          Ev!Contents, Ev!WritersRight, Ev!ReadersRight, Ev!Buffer!vars
  <2>1. CASE Ev!MainSets
    BY <2>1 DEF Ev!MainSets
  <2>2. CASE Ev!WriterWaits
    BY <2>2 DEF Ev!WriterWaits
  <2>3. CASE Ev!WriterStores
    BY <2>3 DEF Ev!WriterStores
  <2>4. CASE Ev!WriterSets
    BY <2>4 DEF Ev!WriterSets, Ev!Buffer!Next, Ev!Buffer!Write
  <2>5. ASSUME NEW r \in Readers, Ev!ReaderWaits(r)
        PROVE  [Ev!Buffer!Next]_(Ev!Buffer!vars)
    BY <2>5 DEF Ev!ReaderWaits
  <2>6. ASSUME NEW r \in Readers, Ev!ReaderPrints(r)
        PROVE  [Ev!Buffer!Next]_(Ev!Buffer!vars)
    <3>1. buf[i[r]] = k - 1 /\ line[r] = [q \in 1 .. i[r] |-> k - 1] /\ i[r] \in Ev!Index
      BY <2>6, SMTT(60) DEF Ev!ReaderPrints
    <3>2. Append(line[r], buf[i[r]]) = [q \in 1 .. (i[r] + 1) |-> k - 1]
      BY <3>1
    <3>3. CASE i[r] + 1 < BUFSIZE
      BY <2>6, <3>3 DEF Ev!ReaderPrints
    <3>4. CASE i[r] + 1 >= BUFSIZE
      <4>1. i[r] + 1 = BUFSIZE
        BY <3>1, <3>4
      <4>2. printed' = Append(printed, Append(line[r], buf[i[r]])) /\ k' = k
        BY <2>6, <3>4 DEF Ev!ReaderPrints
      <4>3. Len(printed) = k - 2
        BY <2>6 DEF Ev!ReaderPrints
      <4>4. Append(line[r], buf[i[r]]) = Ev!Buffer!LineOf(Len(printed) + 1)
        BY <3>2, <4>1, <4>3 DEF Ev!Buffer!LineOf
      <4>5. Ev!Buffer!Read
        BY <4>2, <4>3, <4>4 DEF Ev!Buffer!Read
      <4> QED
        BY <4>5 DEF Ev!Buffer!Next
    <3> QED
      BY <3>1, <3>3, <3>4
  <2>7. ASSUME NEW r \in Readers, Ev!ReaderClears(r)
        PROVE  [Ev!Buffer!Next]_(Ev!Buffer!vars)
    BY <2>7 DEF Ev!ReaderClears
  <2>8. ASSUME NEW r \in Readers, Ev!ReaderSets(r)
        PROVE  [Ev!Buffer!Next]_(Ev!Buffer!vars)
    BY <2>8 DEF Ev!ReaderSets
  <2>9. CASE UNCHANGED Ev!vars
    BY <2>9 DEF Ev!vars
  <2> QED
    BY <2>1, <2>2, <2>3, <2>4, <2>5, <2>6, <2>7, <2>8, <2>9
       DEF Ev!Next, Ev!WriteThread, Ev!ReadThread
<1> QED
  BY <1>1, <1>2, EventsInvariance, PTL DEF Ev!Spec, Ev!ImplementsHandOff, Ev!Buffer!Spec

-----------------------------------------------------------------------------
(* CondVars. *)

(* The inductive invariant holds initially. *)
LEMMA InitIInv == Init => IInv
<1> SUFFICES ASSUME Init PROVE IInv
  OBVIOUS
<1> USE ThreadsAssumption, CondVarsAssumption DEF Init, Threads, Index, Flags
<1>1. TypeOK
  <2>1. line \in [Readers -> Seq(Nat)] /\ printed \in Seq(Seq(Nat))
    OBVIOUS
  <2>2. pc \in [Threads -> {"lock", "test", "waiting", "store", "print", "clear",
                            "lock2", "set", "signal", "end"}]
    OBVIOUS
  <2>3. /\ done \in [Flags -> {0, 1}] /\ mutex \in [Flags -> Threads \cup {None}]
        /\ waiting \in [Flags -> SUBSET Threads]
    OBVIOUS
  <2>4. buf \in [Index -> Nat] /\ k \in 1 .. (N + 1) /\ i \in [Threads -> 0 .. BUFSIZE]
    OBVIOUS
  <2> QED
    BY <2>1, <2>2, <2>3, <2>4 DEF TypeOK
<1>2. Phases
  BY DEF Phases
<1>3. MutexHeld
  BY DEF MutexHeld, Held
<1>4. Asleep /\ NoLostWakeup /\ Bounds
  BY DEF Asleep, NoLostWakeup, Bounds
<1>5. BufferExclusive
  BY DEF BufferExclusive, Busy
<1> QED
  BY <1>1, <1>2, <1>3, <1>4, <1>5 DEF IInv

(* Every step of a thread preserves the inductive invariant. *)
LEMMA StepIInv == IInv /\ [Next]_vars => IInv'
<1> SUFFICES ASSUME IInv, [Next]_vars PROVE IInv'
  OBVIOUS
<1> USE ThreadsAssumption, CondVarsAssumption DEF Threads, Index, Flags, Awaits, Raises, Customers
<1>1. ASSUME NEW t \in Readers \cup {Writer}, Lock(t) PROVE IInv'
  <2>1. TypeOK'
    BY <1>1 DEF Lock, IInv, TypeOK
  <2>2. Phases'
    BY <1>1 DEF Lock, IInv, TypeOK, Phases
  <2>3. MutexHeld'
    BY <1>1 DEF Lock, IInv, TypeOK, Phases, MutexHeld, Held
  <2>4. Asleep'
    BY <1>1 DEF Lock, IInv, TypeOK, Phases, Asleep
  <2>5. Bounds'
    BY <1>1 DEF Lock, IInv, TypeOK, Phases, Bounds
  <2>6. BufferExclusive'
    BY <1>1 DEF Lock, IInv, TypeOK, Phases, BufferExclusive, Busy
  <2>7. NoLostWakeup'
    BY <1>1 DEF Lock, IInv, TypeOK, Phases, Asleep, NoLostWakeup
  <2> QED
    BY <2>1, <2>2, <2>3, <2>4, <2>5, <2>6, <2>7 DEF IInv
<1>2. ASSUME NEW t \in Readers \cup {Writer}, TestAndWait(t) PROVE IInv'
  <2>1. TypeOK'
    BY <1>2 DEF TestAndWait, IInv, TypeOK
  <2>2. Phases'
    BY <1>2 DEF TestAndWait, IInv, TypeOK, Phases
  <2>3. MutexHeld'
    BY <1>2 DEF TestAndWait, IInv, TypeOK, Phases, MutexHeld, Held
  <2>4. Asleep'
    BY <1>2 DEF TestAndWait, IInv, TypeOK, Phases, Asleep
  <2>5. Bounds'
    BY <1>2 DEF TestAndWait, IInv, TypeOK, Phases, Bounds
  <2>6. BufferExclusive'
    BY <1>2 DEF TestAndWait, IInv, TypeOK, Phases, BufferExclusive, Busy
  <2>7. NoLostWakeup'
    BY <1>2 DEF TestAndWait, IInv, TypeOK, Phases, Asleep, NoLostWakeup
  <2> QED
    BY <2>1, <2>2, <2>3, <2>4, <2>5, <2>6, <2>7 DEF IInv
<1>3. ASSUME NEW t \in Readers \cup {Writer}, SpuriousWakeup(t) PROVE IInv'
  <2>1. TypeOK'
    BY <1>3 DEF SpuriousWakeup, IInv, TypeOK
  <2>2. Phases'
    BY <1>3 DEF SpuriousWakeup, IInv, TypeOK, Phases
  <2>3. MutexHeld'
    BY <1>3 DEF SpuriousWakeup, IInv, TypeOK, Phases, MutexHeld, Held
  <2>4. Asleep'
    BY <1>3 DEF SpuriousWakeup, IInv, TypeOK, Phases, Asleep
  <2>5. Bounds'
    BY <1>3 DEF SpuriousWakeup, IInv, TypeOK, Phases, Bounds
  <2>6. BufferExclusive'
    BY <1>3 DEF SpuriousWakeup, IInv, TypeOK, Phases, BufferExclusive, Busy
  <2>7. NoLostWakeup'
    BY <1>3 DEF SpuriousWakeup, IInv, TypeOK, Phases, Asleep, NoLostWakeup
  <2> QED
    BY <2>1, <2>2, <2>3, <2>4, <2>5, <2>6, <2>7 DEF IInv
<1>4. ASSUME NEW t \in Readers \cup {Writer}, Relock(t) PROVE IInv'
  <2>1. TypeOK'
    BY <1>4 DEF Relock, IInv, TypeOK
  <2>2. Phases'
    BY <1>4 DEF Relock, IInv, TypeOK, Phases
  <2>3. MutexHeld'
    BY <1>4 DEF Relock, IInv, TypeOK, Phases, MutexHeld, Held
  <2>4. Asleep'
    BY <1>4 DEF Relock, IInv, TypeOK, Phases, Asleep
  <2>5. Bounds'
    BY <1>4 DEF Relock, IInv, TypeOK, Phases, Bounds
  <2>6. BufferExclusive'
    BY <1>4 DEF Relock, IInv, TypeOK, Phases, BufferExclusive, Busy
  <2>7. NoLostWakeup'
    BY <1>4 DEF Relock, IInv, TypeOK, Phases, Asleep, NoLostWakeup
  <2> QED
    BY <2>1, <2>2, <2>3, <2>4, <2>5, <2>6, <2>7 DEF IInv
<1>5. ASSUME NEW t \in Readers \cup {Writer}, TestAndTake(t) PROVE IInv'
  <2>1. TypeOK'
    <3>1. line' \in [Readers -> Seq(Nat)]
      BY <1>5 DEF TestAndTake, IInv, TypeOK
    <3>2. i' \in [Threads -> 0 .. BUFSIZE]
      BY <1>5 DEF TestAndTake, IInv, TypeOK
    <3> QED
      BY <1>5, <3>1, <3>2 DEF TestAndTake, IInv, TypeOK
  <2>2. Phases'
    BY <1>5 DEF TestAndTake, IInv, TypeOK, Phases
  <2>3. MutexHeld'
    BY <1>5 DEF TestAndTake, IInv, TypeOK, Phases, MutexHeld, Held
  <2>4. Asleep'
    BY <1>5 DEF TestAndTake, IInv, TypeOK, Phases, Asleep
  <2>5. Bounds'
    BY <1>5 DEF TestAndTake, IInv, TypeOK, Phases, Bounds
  <2>6. BufferExclusive'
    BY <1>5 DEF TestAndTake, IInv, TypeOK, Phases, BufferExclusive, Busy
  <2>7. NoLostWakeup'
    BY <1>5 DEF TestAndTake, IInv, TypeOK, Phases, Asleep, NoLostWakeup
  <2> QED
    BY <2>1, <2>2, <2>3, <2>4, <2>5, <2>6, <2>7 DEF IInv
<1>6. CASE WriterStores
  <2>1. TypeOK'
    <3>1. i[Writer] \in Index /\ i[Writer] + 1 \in 0 .. BUFSIZE /\ k \in Nat
      BY <1>6 DEF WriterStores, IInv, TypeOK, Bounds
    <3>2. buf' \in [Index -> Nat] /\ i' \in [Threads -> 0 .. BUFSIZE]
      BY <1>6, <3>1 DEF WriterStores, IInv, TypeOK
    <3> QED
      BY <1>6, <3>2 DEF WriterStores, IInv, TypeOK
  <2>2. Phases'
    BY <1>6 DEF WriterStores, IInv, TypeOK, Phases
  <2>3. MutexHeld'
    BY <1>6 DEF WriterStores, IInv, TypeOK, Phases, MutexHeld, Held
  <2>4. Asleep'
    BY <1>6 DEF WriterStores, IInv, TypeOK, Phases, Asleep
  <2>5. Bounds'
    BY <1>6 DEF WriterStores, IInv, TypeOK, Phases, Bounds
  <2>6. BufferExclusive'
    BY <1>6 DEF WriterStores, IInv, TypeOK, Phases, BufferExclusive, Busy
  <2>7. NoLostWakeup'
    BY <1>6 DEF WriterStores, IInv, TypeOK, Phases, Asleep, NoLostWakeup
  <2> QED
    BY <2>1, <2>2, <2>3, <2>4, <2>5, <2>6, <2>7 DEF IInv
<1>7. ASSUME NEW t \in Readers, ReaderPrints(t) PROVE IInv'
  <2>1. TypeOK'
    <3>1. /\ i[t] \in Index /\ i[t] + 1 \in 0 .. BUFSIZE
          /\ buf[i[t]] \in Nat /\ line[t] \in Seq(Nat)
      BY <1>7 DEF ReaderPrints, IInv, TypeOK, Bounds
    <3>2. Append(line[t], buf[i[t]]) \in Seq(Nat)
      BY <3>1
    <3>3. line' \in [Readers -> Seq(Nat)]
      BY <1>7, <3>2 DEF ReaderPrints, IInv, TypeOK
    <3>4. printed' \in Seq(Seq(Nat))
      <4>1. Append(printed, Append(line[t], buf[i[t]])) \in Seq(Seq(Nat))
        BY <3>2 DEF IInv, TypeOK
      <4> QED
        BY <1>7, <4>1 DEF ReaderPrints, IInv, TypeOK
    <3>5. i' \in [Threads -> 0 .. BUFSIZE]
      BY <1>7, <3>1 DEF ReaderPrints, IInv, TypeOK
    <3> QED
      BY <1>7, <3>3, <3>4, <3>5 DEF ReaderPrints, IInv, TypeOK
  <2>2. Phases'
    BY <1>7 DEF ReaderPrints, IInv, TypeOK, Phases
  <2>3. MutexHeld'
    BY <1>7, SMTT(60) DEF ReaderPrints, IInv, TypeOK, Phases, MutexHeld, Held
  <2>4. Asleep'
    BY <1>7 DEF ReaderPrints, IInv, TypeOK, Phases, Asleep
  <2>5. Bounds'
    BY <1>7 DEF ReaderPrints, IInv, TypeOK, Phases, Bounds
  <2>6. BufferExclusive'
    <3>1. \A s \in Threads : Busy(s)' <=> Busy(s)
      BY <1>7 DEF ReaderPrints, IInv, TypeOK, Busy
    <3>2. done' = done
      BY <1>7 DEF ReaderPrints
    <3> QED
      BY <3>1, <3>2 DEF IInv, BufferExclusive
  <2>7. NoLostWakeup'
    BY <1>7 DEF ReaderPrints, IInv, TypeOK, Phases, Asleep, NoLostWakeup
  <2> QED
    BY <2>1, <2>2, <2>3, <2>4, <2>5, <2>6, <2>7 DEF IInv
<1>8. ASSUME NEW t \in Readers, ReaderClears(t) PROVE IInv'
  <2>1. TypeOK'
    BY <1>8 DEF ReaderClears, IInv, TypeOK
  <2>2. Phases'
    BY <1>8 DEF ReaderClears, IInv, TypeOK, Phases
  <2>3. MutexHeld'
    BY <1>8 DEF ReaderClears, IInv, TypeOK, Phases, MutexHeld, Held
  <2>4. Asleep'
    BY <1>8 DEF ReaderClears, IInv, TypeOK, Phases, Asleep
  <2>5. Bounds'
    BY <1>8 DEF ReaderClears, IInv, TypeOK, Phases, Bounds
  <2>6. BufferExclusive'
    BY <1>8 DEF ReaderClears, IInv, TypeOK, Phases, BufferExclusive, Busy
  <2>7. NoLostWakeup'
    BY <1>8 DEF ReaderClears, IInv, TypeOK, Phases, Asleep, NoLostWakeup
  <2> QED
    BY <2>1, <2>2, <2>3, <2>4, <2>5, <2>6, <2>7 DEF IInv
<1>9. ASSUME NEW t \in Threads, LockToRaise(t) PROVE IInv'
  <2>1. TypeOK'
    BY <1>9 DEF LockToRaise, IInv, TypeOK
  <2>2. Phases'
    BY <1>9 DEF LockToRaise, IInv, TypeOK, Phases
  <2>3. MutexHeld'
    BY <1>9 DEF LockToRaise, IInv, TypeOK, Phases, MutexHeld, Held
  <2>4. Asleep'
    BY <1>9 DEF LockToRaise, IInv, TypeOK, Phases, Asleep
  <2>5. Bounds'
    BY <1>9 DEF LockToRaise, IInv, TypeOK, Phases, Bounds
  <2>6. BufferExclusive'
    BY <1>9 DEF LockToRaise, IInv, TypeOK, Phases, BufferExclusive, Busy
  <2>7. NoLostWakeup'
    BY <1>9 DEF LockToRaise, IInv, TypeOK, Phases, Asleep, NoLostWakeup
  <2> QED
    BY <2>1, <2>2, <2>3, <2>4, <2>5, <2>6, <2>7 DEF IInv
<1>10. ASSUME NEW t \in Threads, RaiseAndUnlock(t) PROVE IInv'
  <2>1. TypeOK'
    BY <1>10, SMTT(60) DEF RaiseAndUnlock, IInv, TypeOK, Bounds, Phases
  <2>2. Phases'
    BY <1>10 DEF RaiseAndUnlock, IInv, TypeOK, Phases
  <2>3. MutexHeld'
    BY <1>10 DEF RaiseAndUnlock, IInv, TypeOK, Phases, MutexHeld, Held
  <2>4. Asleep'
    BY <1>10 DEF RaiseAndUnlock, IInv, TypeOK, Phases, Asleep
  <2>5. Bounds'
    BY <1>10 DEF RaiseAndUnlock, IInv, TypeOK, Phases, Bounds
  <2>6. BufferExclusive'
    BY <1>10 DEF RaiseAndUnlock, IInv, TypeOK, Phases, BufferExclusive, Busy
  <2>7. NoLostWakeup'
    BY <1>10 DEF RaiseAndUnlock, IInv, TypeOK, Phases, Asleep, NoLostWakeup
  <2> QED
    BY <2>1, <2>2, <2>3, <2>4, <2>5, <2>6, <2>7 DEF IInv
<1>11. ASSUME NEW t \in Threads, Signal(t) PROVE IInv'
  <2>1. TypeOK'
    BY <1>11 DEF Signal, IInv, TypeOK
  <2>2. Phases'
    BY <1>11 DEF Signal, IInv, TypeOK, Phases
  <2>3. MutexHeld'
    BY <1>11 DEF Signal, IInv, TypeOK, Phases, MutexHeld, Held
  <2>4. Asleep'
    BY <1>11 DEF Signal, IInv, TypeOK, Phases, Asleep
  <2>5. Bounds'
    BY <1>11 DEF Signal, IInv, TypeOK, Phases, Bounds
  <2>6. BufferExclusive'
    BY <1>11 DEF Signal, IInv, TypeOK, Phases, BufferExclusive, Busy
  <2>7. NoLostWakeup'
    BY <1>11 DEF Signal, IInv, TypeOK, Phases, Asleep, NoLostWakeup
  <2> QED
    BY <2>1, <2>2, <2>3, <2>4, <2>5, <2>6, <2>7 DEF IInv
<1>12. CASE UNCHANGED vars
  <2>1. TypeOK' /\ Phases' /\ Asleep' /\ Bounds'
    BY <1>12 DEF vars, IInv, TypeOK, Phases, Asleep, Bounds
  <2>2. MutexHeld'
    BY <1>12 DEF vars, IInv, MutexHeld, Held
  <2>3. BufferExclusive' /\ NoLostWakeup'
    BY <1>12 DEF vars, IInv, BufferExclusive, Busy, NoLostWakeup
  <2> QED
    BY <2>1, <2>2, <2>3 DEF IInv
<1> QED
  BY <1>1, <1>2, <1>3, <1>4, <1>5, <1>6, <1>7, <1>8, <1>9, <1>10, <1>11, <1>12
     DEF Next, MainThread, WriteThread, ReadThread, Await, Raise

(* The inductive invariant holds in every reachable state. *)
THEOREM Invariance == Spec => []IInv
  BY InitIInv, StepIInv, PTL DEF Spec

(* The variables stay in their sets; in particular no thread leaves the    *)
(* bounds of the buffer.                                                   *)
THEOREM TypeCorrect == Spec => []TypeOK
<1>1. IInv => TypeOK
  BY DEF IInv
<1> QED
  BY <1>1, Invariance, PTL

(* No two threads are in the buffer at once, although no mutex is held     *)
(* there.                                                                  *)
THEOREM Exclusion == Spec => []BufferExclusive
<1>1. IInv => BufferExclusive
  BY DEF IInv
<1> QED
  BY <1>1, Invariance, PTL

(* No wakeup is lost, although the signal is sent after the mutex has been *)
(* released and a waiting thread may wake up by itself.                    *)
THEOREM WakeupsKept == Spec => []NoLostWakeup
<1>1. IInv => NoLostWakeup
  BY DEF IInv
<1> QED
  BY <1>1, Invariance, PTL

(* A flag with its mutex and condition variable is an auto-reset event:    *)
(* the POSIX program implements the Windows program.                       *)
THEOREM RefinesEvents == Spec => ImplementsEvents
<1> USE ThreadsAssumption, CondVarsAssumption DEF Threads, Index, Flags
<1>1. Init => EventObjects!Init
  <2> SUFFICES ASSUME Init PROVE EventObjects!Init
    OBVIOUS
  <2>1. \A t \in Threads : EventPc(t) = IF t = Main THEN "set" ELSE "wait"
    BY DEF Init, EventPc
  <2>2. done["read"] # 1 /\ done["write"] # 1
    BY DEF Init
  <2> QED
    BY <2>1, <2>2 DEF Init, EventObjects!Init, EventObjects!Threads, EventObjects!Index
<1>2. IInv /\ [Next]_vars => [EventObjects!Next]_(EventObjects!vars)
  <2> SUFFICES ASSUME IInv, [Next]_vars
               PROVE  [EventObjects!Next]_(EventObjects!vars)
    OBVIOUS
  <2> USE DEF IInv, TypeOK, Phases, EventPc, Awaits, Raises, Customers,
              EventObjects!vars, EventObjects!Threads, EventObjects!Index
  <2>1. ASSUME NEW t \in Readers \cup {Writer}, Lock(t) \/ TestAndWait(t) \/ SpuriousWakeup(t) \/ Relock(t)
        PROVE  UNCHANGED EventObjects!vars
    BY <2>1 DEF Lock, TestAndWait, SpuriousWakeup, Relock
  <2>2. CASE TestAndTake(Writer)
    BY <2>2 DEF TestAndTake, Bounds, EventObjects!Next, EventObjects!WriteThread, EventObjects!WriterWaits
  <2>3. ASSUME NEW r \in Readers, TestAndTake(r)
        PROVE  EventObjects!ReaderWaits(r)
    BY <2>3 DEF TestAndTake, EventObjects!ReaderWaits
  <2>4. CASE WriterStores
    BY <2>4 DEF WriterStores, EventObjects!Next, EventObjects!WriteThread, EventObjects!WriterStores
  <2>5. ASSUME NEW r \in Readers, ReaderPrints(r)
        PROVE  EventObjects!ReaderPrints(r)
    <3> DEFINE P == [t \in Threads |-> EventPc(t)]
    <3>1. /\ r \in Threads /\ pc[r] = "print" /\ P[r] = "print"
          /\ UNCHANGED <<done, buf, k>>
      BY <2>5 DEF ReaderPrints
    <3>2. CASE i[r] + 1 < BUFSIZE
      BY <2>5, <3>1, <3>2 DEF ReaderPrints, EventObjects!ReaderPrints
    <3>3. CASE ~ (i[r] + 1 < BUFSIZE)
      <4>1. /\ pc' = [pc EXCEPT ![r] = "clear"]
            /\ printed' = Append(printed, Append(line[r], buf[i[r]]))
            /\ line' = [line EXCEPT ![r] = Append(@, buf[i[r]])]
            /\ i' = [i EXCEPT ![r] = @ + 1]
        BY <2>5, <3>3 DEF ReaderPrints
      <4>2. P' = [P EXCEPT ![r] = "clear"]
        BY <3>1, <4>1
      <4> QED
        BY <3>1, <3>3, <4>1, <4>2 DEF EventObjects!ReaderPrints
    <3> QED
      BY <3>2, <3>3
  <2>6. ASSUME NEW r \in Readers, ReaderClears(r)
        PROVE  EventObjects!ReaderClears(r)
    BY <2>6 DEF ReaderClears, EventObjects!ReaderClears
  <2>7. ASSUME NEW t \in Threads, LockToRaise(t) \/ Signal(t)
        PROVE  UNCHANGED EventObjects!vars
    BY <2>7 DEF LockToRaise, Signal
  <2>8. CASE RaiseAndUnlock(Main)
    BY <2>8 DEF RaiseAndUnlock, EventObjects!Next, EventObjects!MainSets
  <2>9. CASE RaiseAndUnlock(Writer)
    BY <2>9 DEF RaiseAndUnlock, EventObjects!Next, EventObjects!WriteThread, EventObjects!WriterSets
  <2>10. ASSUME NEW r \in Readers, RaiseAndUnlock(r)
         PROVE  EventObjects!ReaderSets(r)
    <3> DEFINE P == [t \in Threads |-> EventPc(t)]
    <3>1. /\ r \in Threads /\ r # Writer /\ r # Main /\ pc[r] = "set" /\ P[r] = "set"
          /\ pc' = [pc EXCEPT ![r] = "signal"] /\ done' = [done EXCEPT !["read"] = 1]
          /\ UNCHANGED <<buf, k, i, line, printed>>
      BY <2>10 DEF RaiseAndUnlock
    <3>2. P' = [P EXCEPT ![r] = "wait"]
      BY <3>1
    <3>3. done'["read"] = 1 /\ done'["write"] = done["write"]
      BY <3>1
    <3> QED
      BY <3>1, <3>2, <3>3 DEF EventObjects!ReaderSets
  <2>11. CASE UNCHANGED vars
    BY <2>11 DEF vars
  <2> QED
    BY <2>1, <2>2, <2>3, <2>4, <2>5, <2>6, <2>7, <2>8, <2>9, <2>10, <2>11
       DEF Next, MainThread, WriteThread, ReadThread, Await, Raise,
           EventObjects!Next, EventObjects!ReadThread
<1> QED
  BY <1>1, <1>2, Invariance, PTL DEF Spec, ImplementsEvents, EventObjects!Spec

-----------------------------------------------------------------------------
(* Mutexes. *)

(* The inductive invariant holds in every reachable state. *)
LEMMA CounterInvariance == CounterSpec => []CounterIInv
<1> USE MutexesAssumption DEF MyThreads, Change, CounterTypeOK, Applied, CounterIInv
<1>1. CounterInit => CounterIInv
  BY DEF CounterInit
<1>2. CounterIInv /\ [CounterNext]_counterVars => CounterIInv'
  <2> SUFFICES ASSUME CounterIInv, [CounterNext]_counterVars
               PROVE  CounterIInv'
    OBVIOUS
  <2>1. ASSUME NEW t \in MyThreads, LockMutex(t) PROVE CounterIInv'
    BY <2>1 DEF LockMutex
  <2>2. ASSUME NEW t \in MyThreads, Load(t) PROVE CounterIInv'
    BY <2>2 DEF Load
  <2>3. ASSUME NEW t \in MyThreads, Store(t) PROVE CounterIInv'
    BY <2>3 DEF Store
  <2>4. ASSUME NEW t \in MyThreads, UnlockMutex(t) PROVE CounterIInv'
    BY <2>4 DEF UnlockMutex
  <2>5. CASE UNCHANGED counterVars
    BY <2>5 DEF counterVars
  <2> QED
    BY <2>1, <2>2, <2>3, <2>4, <2>5 DEF CounterNext, MyThread
<1> QED
  BY <1>1, <1>2, PTL DEF CounterSpec

(* The variables stay in their sets: in particular no loop runs past       *)
(* MAXCNT.                                                                 *)
THEOREM CounterTypeCorrect == CounterSpec => []CounterTypeOK
<1>1. CounterIInv => CounterTypeOK
  BY DEF CounterIInv
<1> QED
  BY <1>1, CounterInvariance, PTL

(* No update of count is lost, the threads leave 0, and count stays within *)
(* an int, whatever MAXCNT with 2 * MAXCNT <= INT_MAX.                     *)
THEOREM UpdatesKept == CounterSpec => []NoLostUpdate
<1>1. CounterIInv => NoLostUpdate
  BY MutexesAssumption DEF CounterIInv, CounterTypeOK, NoLostUpdate, BothEnded, Applied, MyThreads
<1> QED
  BY <1>1, CounterInvariance, PTL
=============================================================================
