----------------------- MODULE SelectTCPServer_proofs -----------------------
(***************************************************************************)
(* Proofs about module SelectTCPServer, for any set of clients and any     *)
(* size of the buffers, the descriptor table and the fd_sets.              *)
(***************************************************************************)
EXTENDS SelectTCPServer, TCPSockets_proofs

-----------------------------------------------------------------------------
(* What the invariant says of one record. *)
LEMMA RecordFacts ==
    ASSUME IInv, NEW k \in 1 .. nTotalSockets
    PROVE  /\ nTotalSockets \in Nat
           /\ SocketInfoArray[k] \in SOCKETINFO
           /\ SocketInfoArray[k].sock \in Fds
           /\ SocketInfoArray[k].buf \in Seq(Bytes)
           /\ SocketInfoArray[k].recvbytes \in Nat
           /\ SocketInfoArray[k].sendbytes \in Nat
           /\ SocketInfoArray[k].sendbytes <= SocketInfoArray[k].recvbytes
           /\ SocketInfoArray[k].recvbytes <= Len(SocketInfoArray[k].buf)
           /\ Owner(k) \in Clients
           /\ link[Owner(k)] = "open"
           /\ taken[Owner(k)] \in Nat
           /\ out[Owner(k)] \in Seq(Bytes)
<1>1. SocketInfoArray \in Seq(SOCKETINFO)
  BY DEF IInv, TypeOK
<1>2. nTotalSockets \in Nat /\ SocketInfoArray[k] \in SOCKETINFO
  BY <1>1 DEF nTotalSockets
<1>3. /\ SocketInfoArray[k].sock \in Fds
      /\ SocketInfoArray[k].buf \in Seq(Bytes)
      /\ SocketInfoArray[k].recvbytes \in Nat
      /\ SocketInfoArray[k].sendbytes \in Nat
  BY <1>2 DEF SOCKETINFO
<1>4. /\ SocketInfoArray[k].sendbytes <= SocketInfoArray[k].recvbytes
      /\ SocketInfoArray[k].recvbytes <= Len(SocketInfoArray[k].buf)
  BY DEF IInv, Accounts, Booked
<1>5. Owner(k) \in Clients
  BY DEF IInv, Records, Connected, Owner
<1>6. link[Owner(k)] = "open"
  BY <1>3, <1>5 DEF IInv, DescriptorTable, Owner
<1>7. taken[Owner(k)] \in Nat /\ out[Owner(k)] \in Seq(Bytes)
  BY <1>5 DEF IInv, TypeOK, SocketsTypeOK
<1> QED
  BY <1>2, <1>3, <1>4, <1>5, <1>6, <1>7

(* Different records belong to different clients. *)
LEMMA OwnersDiffer ==
    ASSUME IInv, NEW j \in 1 .. nTotalSockets, NEW k \in 1 .. nTotalSockets,
           Owner(j) = Owner(k)
    PROVE  j = k
<1>1. /\ SocketInfoArray[j].sock \in Fds /\ SocketInfoArray[k].sock \in Fds
      /\ Owner(j) \in Clients /\ Owner(k) \in Clients
  BY RecordFacts
<1>2. SocketInfoArray[j].sock = SocketInfoArray[k].sock
  BY <1>1 DEF IInv, DescriptorTable, Owner
<1> QED
  BY <1>2 DEF IInv, Records

(* The inductive invariant holds initially. *)
LEMMA InitIInv == Init => IInv
<1> SUFFICES ASSUME Init PROVE IInv
  OBVIOUS
<1>1. /\ link = [c \in Clients |-> "new"] /\ peer = [c \in Clients |-> "up"]
      /\ sent = [c \in Clients |-> 0] /\ taken = [c \in Clients |-> 0]
      /\ out = [c \in Clients |-> <<>>] /\ got = [c \in Clients |-> 0]
  BY DEF Init, SocketsInit
<1>2. fdt = [fd \in Fds |-> IF fd = listenfd THEN listen_sock ELSE Free]
  <2>1. \A fd : (\E l \in Listeners : [m \in Listeners |-> listenfd][l] = fd) <=> fd = listenfd
    BY SelectAssumption
  <2>2. (CHOOSE l \in Listeners : [m \in Listeners |-> listenfd][l] = listenfd) = listen_sock
    BY SelectAssumption
  <2> QED
    BY <2>1, <2>2 DEF Init, SocketsInit
<1>3. listenfd \in Fds /\ listen_sock \notin Clients /\ Free \notin Clients
  BY SelectAssumption, SocketsAssumption DEF listenfd, Fds
<1>4. /\ pc = "select" /\ SocketInfoArray = <<>> /\ rset = {} /\ wset = {}
      /\ nready = 0 /\ i = 1
  BY DEF Init
<1>5. SocketsTypeOK
  <2>1. fdt \in [Fds -> Clients \cup Listeners \cup {Free}]
    BY <1>2, SelectAssumption
  <2>2. out \in [Clients -> Seq(Bytes)]
    BY <1>1
  <2> QED
    BY <1>1, <2>1, <2>2 DEF SocketsTypeOK
<1>6. TypeOK
  BY <1>4, <1>5 DEF TypeOK
<1>7. DescriptorTable
  BY <1>1, <1>2, <1>3 DEF DescriptorTable
<1>8. Records
  BY <1>2, <1>3, <1>4 DEF Records, nTotalSockets, Connected
<1>9. Accounts
  BY <1>1, <1>4 DEF Accounts, nTotalSockets
<1>10. EmptyWhenRead
  BY <1>4 DEF EmptyWhenRead
<1> QED
  BY <1>4, <1>6, <1>7, <1>8, <1>9, <1>10 DEF IInv, Counted

-----------------------------------------------------------------------------
(* The steps that change neither the sockets nor the records. *)

ControlTypeOK ==
    /\ pc \in {"select", "accept", "scan", "exit"}
    /\ rset \subseteq Fds
    /\ wset \subseteq Fds
    /\ nready \in Nat
    /\ i \in Nat \ {0}
    /\ Counted

LEMMA ControlStep ==
    ASSUME IInv, UNCHANGED <<sockets, SocketInfoArray>>,
           ControlTypeOK', EmptyWhenRead', pc # "exit"
    PROVE  IInv'
<1>1. /\ link' = link /\ peer' = peer /\ sent' = sent /\ taken' = taken
      /\ out' = out /\ got' = got /\ fdt' = fdt /\ SocketInfoArray' = SocketInfoArray
  BY DEF sockets
<1>2. TypeOK'
  BY <1>1 DEF IInv, TypeOK, SocketsTypeOK, ControlTypeOK
<1>3. DescriptorTable'
  BY <1>1 DEF IInv, DescriptorTable
<1>4. Records'
  BY <1>1 DEF IInv, Records, nTotalSockets, Connected
<1>5. Accounts'
  BY <1>1 DEF IInv, Accounts, nTotalSockets, Owner
<1> QED
  BY <1>2, <1>3, <1>4, <1>5 DEF IInv, ControlTypeOK

(* A descriptor of the read set is the listening socket or belongs to a    *)
(* record with nothing left to send.                                       *)
LEMMA ReadSetIsEmpty ==
    ASSUME IInv, pc # "exit", NEW k \in 1 .. nTotalSockets,
           SocketInfoArray[k].sock \in ReadSet
    PROVE  ~ Pending(k)
<1>1. SocketInfoArray[k].sock # listenfd
  BY SelectAssumption, SocketsAssumption DEF IInv, Records, Connected, DescriptorTable
<1>2. PICK m \in 1 .. nTotalSockets : ~ Pending(m) /\ SocketInfoArray[m].sock = SocketInfoArray[k].sock
  BY <1>1 DEF ReadSet, FdSet
<1>3. m = k
  BY <1>2 DEF IInv, Records
<1> QED
  BY <1>2, <1>3

LEMMA SelectStep == ASSUME IInv, SelectCall PROVE IInv'
<1> DEFINE examined == {fd \in Fds : fd < GetMaxFDPlus1(listenfd)}
           r == {fd \in ReadSet \cap examined : ReadyForRead(fd)}
           w == {fd \in WriteSet \cap examined : ReadyForWrite(fd)}
<1>1. /\ pc = "select" /\ rset' = r /\ wset' = w /\ i' = 1
      /\ nready' = Cardinality(r) + Cardinality(w)
      /\ pc' \in {"accept", "scan"} /\ r \cup w # {}
      /\ UNCHANGED <<sockets, SocketInfoArray>>
  BY DEF SelectCall
<1>2. r \subseteq Fds /\ w \subseteq Fds
  OBVIOUS
<1>3. /\ Cardinality(r) \in Nat /\ Cardinality(w) \in Nat
      /\ Cardinality(r) + Cardinality(w) > 0
  <2>1. IsFiniteSet(Fds)
    <3>1. 3 \in Int /\ NOFILE - 1 \in Int
      BY SelectAssumption, SocketsAssumption
    <3>2. IsFiniteSet(3 .. (NOFILE - 1))
      BY <3>1, FS_Interval
    <3> QED
      BY <3>2 DEF Fds
  <2>2. IsFiniteSet(r) /\ IsFiniteSet(w)
    BY <1>2, <2>1, FS_Subset
  <2> QED
    BY <1>1, <2>2, FS_CardinalityType, FS_EmptySet
<1>4. ControlTypeOK'
  BY <1>1, <1>2, <1>3 DEF ControlTypeOK, Counted
<1>5. \A k \in 1 .. nTotalSockets : SocketInfoArray[k].sock \in r => ~ Pending(k)
  BY <1>1, ReadSetIsEmpty
<1>6. EmptyWhenRead'
  BY <1>1, <1>5 DEF EmptyWhenRead, nTotalSockets, Pending
<1> QED
  BY <1>1, <1>4, <1>6, ControlStep

LEMMA SkipStep == ASSUME IInv, NEW k \in 1 .. nTotalSockets, Skip(k) PROVE IInv'
<1>1. /\ pc = "scan" /\ pc' = pc /\ rset' = rset /\ wset' = wset /\ nready' = nready
      /\ i' = i + 1 /\ UNCHANGED <<sockets, SocketInfoArray>>
  BY DEF Skip, Scanning, ScanNext
<1>2. ControlTypeOK'
  BY <1>1 DEF IInv, TypeOK, ControlTypeOK, Counted
<1>3. EmptyWhenRead'
  <2>1. i \in Nat /\ nTotalSockets \in Nat
    BY RecordFacts DEF IInv, TypeOK
  <2> QED
    BY <1>1, <2>1 DEF IInv, EmptyWhenRead, nTotalSockets, Pending
<1> QED
  BY <1>1, <1>2, <1>3, ControlStep

LEMMA ScanEndsStep == ASSUME IInv, ScanEnds PROVE IInv'
<1>1. /\ pc = "scan" /\ pc' = "select" /\ rset' = {} /\ wset' = {}
      /\ nready' = nready /\ i' = i /\ UNCHANGED <<sockets, SocketInfoArray>>
  BY DEF ScanEnds
<1>2. ControlTypeOK'
  BY <1>1 DEF IInv, TypeOK, ControlTypeOK, Counted
<1>3. EmptyWhenRead'
  BY <1>1 DEF EmptyWhenRead
<1> QED
  BY <1>1, <1>2, <1>3, ControlStep

(* The steps of the clients. *)
LEMMA RemoteStep == ASSUME IInv, Environment PROVE IInv'
<1>1. PICK c \in Clients : Remote(c)
  BY DEF Environment
<1>2. /\ pc' = pc /\ SocketInfoArray' = SocketInfoArray /\ rset' = rset
      /\ wset' = wset /\ nready' = nready /\ i' = i
  BY DEF Environment
<1>3. SocketsTypeOK
  BY DEF IInv, TypeOK
<1>4. /\ SocketsTypeOK' /\ taken' = taken /\ out' = out /\ fdt' = fdt
      /\ \A d \in Clients : /\ link'[d] = "open" <=> link[d] = "open"
                            /\ link'[d] \in {"new", "backlog"} => link[d] \in {"new", "backlog"}
  BY <1>1, <1>3, RemoteFrame
<1>5. TypeOK'
  BY <1>2, <1>4 DEF IInv, TypeOK
<1>6. DescriptorTable'
  BY <1>2, <1>4 DEF IInv, DescriptorTable
<1>7. Records'
  BY <1>2, <1>4 DEF IInv, Records, nTotalSockets, Connected
<1>8. Accounts'
  BY <1>2, <1>4 DEF IInv, Accounts, nTotalSockets, Owner
<1>9. EmptyWhenRead'
  BY <1>2 DEF IInv, EmptyWhenRead, nTotalSockets, Pending
<1> QED
  BY <1>2, <1>5, <1>6, <1>7, <1>8, <1>9 DEF IInv, Counted

-----------------------------------------------------------------------------
(* The steps that add, change or remove a record. *)

(* accept() and AddSocketInfo(). *)
LEMMA AcceptStep == ASSUME IInv, AcceptCall PROVE IInv'
<1>1. PICK c \in Clients, fd \in Fds :
        Accept(listen_sock, c, fd) /\ SocketInfoArray' = Append(SocketInfoArray, NewSocketInfo(fd))
  BY DEF AcceptCall, AddSocketInfo
<1>2. /\ link[c] = "backlog" /\ fdt[fd] = Free
      /\ link' = [link EXCEPT ![c] = "open"] /\ fdt' = [fdt EXCEPT ![fd] = c]
      /\ peer' = peer /\ sent' = sent /\ taken' = taken /\ out' = out /\ got' = got
  BY <1>1 DEF Accept, Backlog, LowestFree
<1>3. /\ pc = "accept" /\ pc' \in {"select", "scan"} /\ rset' \in {{}, rset}
      /\ wset' \in {{}, wset} /\ i' = i /\ nready' \in Nat
      /\ pc' = "scan" => rset' = rset
  BY DEF AcceptCall, AfterAccept, IInv, TypeOK, Counted
<1> DEFINE n == nTotalSockets
<1>4. /\ n \in Nat /\ SocketInfoArray \in Seq(SOCKETINFO)
      /\ NewSocketInfo(fd) \in SOCKETINFO
  <2>1. <<>> \in Seq(Bytes)
    OBVIOUS
  <2> QED
    BY <2>1 DEF IInv, TypeOK, nTotalSockets, NewSocketInfo, SOCKETINFO
<1>5. /\ SocketInfoArray' \in Seq(SOCKETINFO) /\ nTotalSockets' = n + 1
      /\ \A k \in 1 .. n : SocketInfoArray'[k] = SocketInfoArray[k]
      /\ SocketInfoArray'[n + 1] = NewSocketInfo(fd)
  BY <1>1, <1>4 DEF nTotalSockets
<1>6. /\ NewSocketInfo(fd).sock = fd /\ NewSocketInfo(fd).buf = <<>>
      /\ NewSocketInfo(fd).recvbytes = 0 /\ NewSocketInfo(fd).sendbytes = 0
  BY DEF NewSocketInfo
<1>7. /\ fdt' \in [Fds -> Clients \cup Listeners \cup {Free}] /\ fdt'[fd] = c
      /\ \A f \in Fds \ {fd} : fdt'[f] = fdt[f]
      /\ link' \in [Clients -> {"new", "backlog", "open", "closed"}] /\ link'[c] = "open"
      /\ \A d \in Clients \ {c} : link'[d] = link[d]
  BY <1>2 DEF IInv, TypeOK, SocketsTypeOK
<1>8. Free \notin Clients /\ listen_sock # Free
  BY SelectAssumption, SocketsAssumption
<1>9. TypeOK'
  BY <1>2, <1>3, <1>5, <1>7 DEF IInv, TypeOK, SocketsTypeOK
<1>10. DescriptorTable'
  BY <1>2, <1>3, <1>7, <1>8, SelectAssumption DEF IInv, DescriptorTable
<1>11. \A k \in 1 .. n : SocketInfoArray[k].sock \in Fds \ {fd}
  BY <1>2, <1>8, RecordFacts DEF IInv, Records, Connected
<1>12. Records'
  <2>1. \A k \in 1 .. nTotalSockets' : Connected(SocketInfoArray[k].sock)'
    BY <1>4, <1>5, <1>6, <1>7, <1>11 DEF IInv, Records, Connected
  <2>2. \A f \in Fds : Connected(f)' =>
           \E k \in 1 .. nTotalSockets' : SocketInfoArray'[k].sock = f
    <3> SUFFICES ASSUME NEW f \in Fds, Connected(f)'
                 PROVE  \E k \in 1 .. (n + 1) : SocketInfoArray'[k].sock = f
      BY <1>5
    <3>1. CASE f = fd
      BY <1>4, <1>5, <1>6, <3>1
    <3>2. CASE f # fd
      <4>1. PICK k \in 1 .. n : SocketInfoArray[k].sock = f
        BY <1>7, <3>2 DEF IInv, Records, Connected
      <4> QED
        BY <1>4, <1>5, <4>1
    <3> QED
      BY <3>1, <3>2
  <2>3. \A j, k \in 1 .. nTotalSockets' :
           SocketInfoArray'[j].sock = SocketInfoArray'[k].sock => j = k
    <3>1. \A j, k \in 1 .. n : SocketInfoArray[j].sock = SocketInfoArray[k].sock => j = k
      BY DEF IInv, Records
    <3>2. \A k \in 1 .. n : SocketInfoArray'[k].sock # SocketInfoArray'[n + 1].sock
      BY <1>5, <1>6, <1>11
    <3> SUFFICES ASSUME NEW j \in 1 .. (n + 1), NEW k \in 1 .. (n + 1),
                        SocketInfoArray'[j].sock = SocketInfoArray'[k].sock
                 PROVE  j = k
      BY <1>5
    <3>3. CASE j \in 1 .. n /\ k \in 1 .. n
      <4>1. SocketInfoArray[j].sock = SocketInfoArray[k].sock
        BY <1>5, <3>3
      <4> QED
        BY <3>1, <3>3, <4>1
    <3>4. CASE j = n + 1 \/ k = n + 1
      <4>1. j = n + 1 => k \notin 1 .. n
        BY <3>2
      <4>2. k = n + 1 => j \notin 1 .. n
        BY <3>2
      <4> QED
        BY <1>4, <3>4, <4>1, <4>2
    <3> QED
      BY <1>4, <3>3, <3>4
  <2> QED
    BY <2>1, <2>2, <2>3 DEF Records
<1>13. Accounts'
  <2>1. \A d \in Clients : link'[d] \in {"new", "backlog"} => taken'[d] = 0 /\ out'[d] = <<>>
    BY <1>2, <1>7 DEF IInv, Accounts
  <2>2. \A d \in Clients : \A m \in 1 .. Len(out'[d]) : out'[d][m] = <<d, m>>
    BY <1>2 DEF IInv, Accounts
  <2>3. \A k \in 1 .. n : Owner(k)' = Owner(k)
    BY <1>5, <1>7, <1>11 DEF Owner
  <2>4. fdt'[SocketInfoArray'[n + 1].sock] = c
    BY <1>5, <1>6, <1>7
  <2>5. taken[c] = 0 /\ out[c] = <<>>
    BY <1>2 DEF IInv, Accounts
  <2> QED
    <3>1. Booked(NewSocketInfo(fd), c, 0, 0)
      BY <1>6 DEF Booked
    <3>2. \A k \in 1 .. n :
            Booked(SocketInfoArray[k], Owner(k), taken[Owner(k)], Len(out[Owner(k)]))
      BY DEF IInv, Accounts
    <3>3. Len(out[c]) = 0
      BY <2>5
    <3>4. \A k \in 1 .. (n + 1) :
            Booked(SocketInfoArray'[k], fdt'[SocketInfoArray'[k].sock],
                   taken[fdt'[SocketInfoArray'[k].sock]],
                   Len(out[fdt'[SocketInfoArray'[k].sock]]))
      BY <1>4, <1>5, <2>3, <2>4, <2>5, <3>1, <3>2, <3>3 DEF Owner
    <3> QED
      BY <1>2, <1>5, <2>1, <2>2, <3>4 DEF Accounts, Owner
<1>14. EmptyWhenRead'
  BY <1>3, <1>4, <1>5, <1>6 DEF IInv, EmptyWhenRead, Pending
<1> QED
  BY <1>3, <1>9, <1>10, <1>12, <1>13, <1>14 DEF IInv, Counted

(* AddSocketInfo() has no room and the new socket is closed. *)
LEMMA AcceptFullStep == ASSUME IInv, AcceptFull PROVE IInv'
<1>1. PICK c \in Clients : AcceptAndClose(listen_sock, c)
  BY DEF AcceptFull
<1>2. /\ link[c] = "backlog" /\ link' = [link EXCEPT ![c] = "closed"] /\ peer' = peer
      /\ sent' = sent /\ taken' = taken /\ out' = out /\ got' = got /\ fdt' = fdt
      /\ SocketInfoArray' = SocketInfoArray
  BY <1>1 DEF AcceptFull, AcceptAndClose, Backlog
<1>3. /\ pc = "accept" /\ pc' \in {"select", "scan"} /\ rset' \in {{}, rset}
      /\ wset' \in {{}, wset} /\ i' = i /\ nready' \in Nat
      /\ pc' = "scan" => rset' = rset
  BY DEF AcceptFull, AfterAccept, IInv, TypeOK, Counted
<1>4. TypeOK'
  BY <1>2, <1>3 DEF IInv, TypeOK, SocketsTypeOK
<1>5. \A d \in Clients : /\ link'[d] = "open" <=> link[d] = "open"
                         /\ link'[d] \in {"new", "backlog"} => link[d] \in {"new", "backlog"}
  BY <1>2 DEF IInv, TypeOK, SocketsTypeOK
<1>6. DescriptorTable'
  BY <1>2, <1>3, <1>5 DEF IInv, DescriptorTable
<1>7. Records'
  BY <1>2 DEF IInv, Records, nTotalSockets, Connected
<1>8. Accounts'
  BY <1>2, <1>5 DEF IInv, Accounts, nTotalSockets, Owner
<1>9. EmptyWhenRead'
  BY <1>2, <1>3 DEF IInv, EmptyWhenRead, nTotalSockets, Pending
<1> QED
  BY <1>3, <1>4, <1>6, <1>7, <1>8, <1>9 DEF IInv, Counted

(* The process ends. *)
LEMMA ExitStep ==
    ASSUME IInv, CloseAll, pc' = "exit", SocketInfoArray' = <<>>,
           UNCHANGED <<rset, wset, nready, i>>
    PROVE  IInv'
<1>1. /\ link' = [c \in Clients |-> IF link[c] \in {"backlog", "open"} THEN "closed" ELSE link[c]]
      /\ fdt' = [fd \in Fds |-> Free] /\ peer' = peer /\ sent' = sent
      /\ taken' = taken /\ out' = out /\ got' = got
  BY DEF CloseAll
<1>2. Free \notin Clients
  BY SocketsAssumption
<1>3. TypeOK'
  <2>1. link' \in [Clients -> {"new", "backlog", "open", "closed"}]
    BY <1>1 DEF IInv, TypeOK, SocketsTypeOK
  <2>2. SocketInfoArray' \in Seq(SOCKETINFO)
    OBVIOUS
  <2>3. fdt' \in [Fds -> Clients \cup Listeners \cup {Free}]
    BY <1>1
  <2> QED
    BY <1>1, <2>1, <2>2, <2>3 DEF IInv, TypeOK, SocketsTypeOK
<1>4. \A c \in Clients : /\ link'[c] # "open"
                         /\ link'[c] \in {"new", "backlog"} => link[c] \in {"new", "backlog"}
  BY <1>1
<1>5. DescriptorTable'
  BY <1>1, <1>2, <1>4 DEF DescriptorTable
<1>6. Records'
  BY <1>1, <1>2 DEF Records, nTotalSockets, Connected
<1>7. Accounts'
  BY <1>1, <1>4 DEF IInv, Accounts, nTotalSockets
<1> QED
  BY <1>3, <1>5, <1>6, <1>7 DEF IInv, EmptyWhenRead, Counted

(* RemoveSocketInfo() of the record the data loop has come to. *)
LEMMA RemoveStep ==
    ASSUME IInv, NEW k \in 1 .. nTotalSockets, RemoveSocketInfo(k),
           pc = "scan", i = k, i' = i + 1, UNCHANGED <<pc, rset, wset, nready>>
    PROVE  IInv'
<1> DEFINE n == nTotalSockets
           fd == SocketInfoArray[k].sock
           c == Owner(k)
           from(j) == IF j = k THEN n ELSE j
<1>1. /\ link' = [link EXCEPT ![c] = "closed"] /\ fdt' = [fdt EXCEPT ![fd] = Free]
      /\ peer' = peer /\ sent' = sent /\ taken' = taken /\ out' = out /\ got' = got
  BY DEF RemoveSocketInfo, Close, Owner
<1>2. n \in Nat /\ fd \in Fds /\ c \in Clients /\ fdt[fd] = c
  BY RecordFacts DEF Owner
<1>3. /\ SocketInfoArray' \in Seq(SOCKETINFO) /\ nTotalSockets' = n - 1
      /\ \A j \in 1 .. (n - 1) : SocketInfoArray'[j] = SocketInfoArray[from(j)]
  <2>1. SocketInfoArray \in Seq(SOCKETINFO) /\ k \in 1 .. Len(SocketInfoArray)
    BY DEF IInv, TypeOK, nTotalSockets
  <2>2. SocketInfoArray' = [j \in 1 .. (Len(SocketInfoArray) - 1) |->
                              SocketInfoArray[IF j = k THEN Len(SocketInfoArray) ELSE j]]
    BY DEF RemoveSocketInfo, nTotalSockets
  <2> HIDE DEF n
  <2>3. /\ SocketInfoArray' \in Seq(SOCKETINFO)
        /\ Len(SocketInfoArray') = Len(SocketInfoArray) - 1
        /\ \A j \in 1 .. Len(SocketInfoArray') :
              SocketInfoArray'[j] = SocketInfoArray[IF j = k THEN Len(SocketInfoArray) ELSE j]
    BY <2>1, <2>2, Compaction
  <2> QED
    BY <2>3 DEF nTotalSockets, n
<1>4. \A j \in 1 .. (n - 1) : from(j) \in 1 .. n /\ from(j) # k
  BY <1>2
<1>5. \A j, m \in 1 .. (n - 1) : from(j) = from(m) => j = m
  BY <1>2
<1>6. \A m \in 1 .. n : m # k => \E j \in 1 .. (n - 1) : from(j) = m
  <2> SUFFICES ASSUME NEW m \in 1 .. n, m # k PROVE \E j \in 1 .. (n - 1) : from(j) = m
    OBVIOUS
  <2>1. CASE m = n
    BY <1>2, <2>1
  <2>2. CASE m # n
    BY <1>2, <2>2
  <2> QED
    BY <2>1, <2>2
<1>7. \A m \in 1 .. n : m # k => SocketInfoArray[m].sock \in Fds \ {fd}
  BY RecordFacts DEF IInv, Records
<1>8. /\ fdt' \in [Fds -> Clients \cup Listeners \cup {Free}] /\ fdt'[fd] = Free
      /\ \A f \in Fds \ {fd} : fdt'[f] = fdt[f]
      /\ link' \in [Clients -> {"new", "backlog", "open", "closed"}] /\ link'[c] = "closed"
      /\ \A d \in Clients \ {c} : link'[d] = link[d]
  BY <1>1, <1>2 DEF IInv, TypeOK, SocketsTypeOK
<1>9. Free \notin Clients /\ listen_sock \notin Clients
  BY SelectAssumption, SocketsAssumption
<1> HIDE DEF n, fd, c, from
<1>10. TypeOK'
  BY <1>1, <1>3, <1>8 DEF IInv, TypeOK, SocketsTypeOK
<1>11. DescriptorTable'
  BY <1>1, <1>2, <1>8, <1>9 DEF IInv, DescriptorTable
<1>12. Records'
  <2>1. \A j \in 1 .. (n - 1) : SocketInfoArray'[j].sock \in Fds \ {fd}
                              /\ SocketInfoArray'[j].sock = SocketInfoArray[from(j)].sock
    BY <1>3, <1>4, <1>7
  <2>2. \A j \in 1 .. nTotalSockets' : Connected(SocketInfoArray[j].sock)'
    BY <1>3, <1>4, <1>8, <2>1 DEF IInv, Records, Connected, n
  <2>3. \A f \in Fds : Connected(f)' => \E j \in 1 .. nTotalSockets' : SocketInfoArray'[j].sock = f
    <3> SUFFICES ASSUME NEW f \in Fds, Connected(f)'
                 PROVE  \E j \in 1 .. (n - 1) : SocketInfoArray'[j].sock = f
      BY <1>3
    <3>1. f # fd /\ Connected(f)
      BY <1>8, <1>9 DEF Connected
    <3>2. PICK m \in 1 .. n : SocketInfoArray[m].sock = f
      BY <3>1 DEF IInv, Records, n
    <3>3. m # k
      BY <3>1, <3>2 DEF fd
    <3> QED
      BY <1>6, <2>1, <3>2, <3>3
  <2>4. \A j, m \in 1 .. (n - 1) : SocketInfoArray'[j].sock = SocketInfoArray'[m].sock => j = m
    <3> SUFFICES ASSUME NEW j \in 1 .. (n - 1), NEW m \in 1 .. (n - 1),
                        SocketInfoArray'[j].sock = SocketInfoArray'[m].sock
                 PROVE  j = m
      OBVIOUS
    <3>1. SocketInfoArray[from(j)].sock = SocketInfoArray[from(m)].sock
      BY <2>1
    <3>2. from(j) = from(m)
      BY <1>4, <3>1 DEF IInv, Records, n
    <3> QED
      BY <1>5, <3>2
  <2> QED
    BY <1>3, <2>2, <2>3, <2>4 DEF Records
<1>13. Accounts'
  <2>1. \A j \in 1 .. (n - 1) : /\ SocketInfoArray'[j] = SocketInfoArray[from(j)]
                              /\ fdt'[SocketInfoArray'[j].sock] = Owner(from(j))
    BY <1>3, <1>4, <1>7, <1>8 DEF Owner
  <2>2. \A d \in Clients : link'[d] \in {"new", "backlog"} => link[d] \in {"new", "backlog"}
    BY <1>8
  <2>3. \A m \in 1 .. n :
          Booked(SocketInfoArray[m], Owner(m), taken[Owner(m)], Len(out[Owner(m)]))
    BY DEF IInv, Accounts, n
  <2>4. \A j \in 1 .. (n - 1) :
          Booked(SocketInfoArray'[j], fdt'[SocketInfoArray'[j].sock],
                 taken[fdt'[SocketInfoArray'[j].sock]],
                 Len(out[fdt'[SocketInfoArray'[j].sock]]))
    BY <1>4, <2>1, <2>3
  <2> QED
    BY <1>1, <1>3, <2>2, <2>4 DEF IInv, Accounts, Owner
<1>14. EmptyWhenRead'
  <2>1. \A j \in 1 .. (n - 1) : j >= k + 1 => SocketInfoArray'[j] = SocketInfoArray[j] /\ j \in 1 .. n /\ j >= k
    BY <1>2, <1>3 DEF from
  <2> QED
    BY <1>3, <2>1 DEF IInv, EmptyWhenRead, Pending, n
<1> QED
  BY <1>10, <1>11, <1>12, <1>13, <1>14 DEF IInv, Counted

(* recv() or send() changes the record the data loop has come to and the   *)
(* bytes of its client; it balances the client's books again.              *)
LEMMA UpdateStep ==
    ASSUME IInv, NEW k \in 1 .. nTotalSockets, NEW new \in SOCKETINFO,
           new.sock = SocketInfoArray[k].sock,
           SocketInfoArray' = [SocketInfoArray EXCEPT ![k] = new],
           taken' \in [Clients -> Nat], out' \in [Clients -> Seq(Bytes)],
           \A d \in Clients \ {Owner(k)} : taken'[d] = taken[d] /\ out'[d] = out[d],
           \A m \in 1 .. Len(out'[Owner(k)]) : out'[Owner(k)][m] = <<Owner(k), m>>,
           Booked(new, Owner(k), taken'[Owner(k)], Len(out'[Owner(k)])),
           UNCHANGED <<link, peer, sent, got, fdt>>,
           pc = "scan", i = k, i' = i + 1, UNCHANGED <<pc, rset, wset, nready>>
    PROVE  IInv'
<1> DEFINE n == nTotalSockets
           c == Owner(k)
<1>1. n \in Nat /\ c \in Clients /\ link[c] = "open"
  BY RecordFacts
<1>2. /\ SocketInfoArray' \in Seq(SOCKETINFO) /\ nTotalSockets' = n
      /\ \A j \in 1 .. n : SocketInfoArray'[j] = IF j = k THEN new ELSE SocketInfoArray[j]
  <2>1. SocketInfoArray \in Seq(SOCKETINFO) /\ k \in 1 .. Len(SocketInfoArray)
    BY DEF IInv, TypeOK, nTotalSockets
  <2> HIDE DEF n
  <2>2. /\ [SocketInfoArray EXCEPT ![k] = new] \in Seq(SOCKETINFO)
        /\ Len([SocketInfoArray EXCEPT ![k] = new]) = Len(SocketInfoArray)
        /\ \A j \in 1 .. Len(SocketInfoArray) :
              [SocketInfoArray EXCEPT ![k] = new][j] = IF j = k THEN new ELSE SocketInfoArray[j]
    BY <2>1, Replacement
  <2> QED
    BY <2>2 DEF nTotalSockets, n
<1> HIDE DEF n, c
<1>3. \A j \in 1 .. n : SocketInfoArray'[j].sock = SocketInfoArray[j].sock
  BY <1>2
<1>4. TypeOK'
  <2>1. i' \in Nat \ {0}
    BY <1>1 DEF n
  <2> QED
    BY <1>2, <2>1 DEF IInv, TypeOK, SocketsTypeOK
<1>5. DescriptorTable'
  BY DEF IInv, DescriptorTable
<1>6. Records'
  <2>1. \A j \in 1 .. n : fdt'[SocketInfoArray'[j].sock] \in Clients
    BY <1>3 DEF IInv, Records, Connected, n
  <2>2. \A f \in Fds : fdt'[f] \in Clients => \E j \in 1 .. n : SocketInfoArray'[j].sock = f
    BY <1>3 DEF IInv, Records, Connected, n
  <2>3. \A j, m \in 1 .. n : SocketInfoArray'[j].sock = SocketInfoArray'[m].sock => j = m
    BY <1>3 DEF IInv, Records, n
  <2> QED
    BY <1>2, <2>1, <2>2, <2>3 DEF Records, Connected
<1>7. Accounts'
  <2>1. \A d \in Clients : link'[d] \in {"new", "backlog"} => taken'[d] = 0 /\ out'[d] = <<>>
    BY <1>1 DEF IInv, Accounts, c
  <2>2. \A d \in Clients : \A m \in 1 .. Len(out'[d]) : out'[d][m] = <<d, m>>
    BY DEF IInv, Accounts
  <2>3. \A j \in 1 .. n : fdt'[SocketInfoArray'[j].sock] = Owner(j)
    BY <1>3 DEF Owner
  <2>4. \A j \in 1 .. n : j # k => Owner(j) \in Clients \ {c}
    BY RecordFacts, OwnersDiffer DEF n, c
  <2>5. \A j \in 1 .. n : Booked(SocketInfoArray'[j], Owner(j), taken'[Owner(j)], Len(out'[Owner(j)]))
    BY <1>2, <2>4 DEF IInv, Accounts, n, c
  <2> QED
    BY <1>2, <2>1, <2>2, <2>3, <2>5 DEF Accounts, Owner
<1>8. EmptyWhenRead'
  <2>1. \A j \in 1 .. n : j >= k + 1 => j # k /\ j >= k
    OBVIOUS
  <2>2. \A j \in 1 .. n : j >= k + 1 => SocketInfoArray'[j] = SocketInfoArray[j]
    BY <1>2, <2>1
  <2>3. \A j \in 1 .. n : j >= k /\ SocketInfoArray[j].sock \in rset => ~ Pending(j)
    BY DEF IInv, EmptyWhenRead, n
  <2>4. \A j \in 1 .. n : j >= k + 1 /\ SocketInfoArray'[j].sock \in rset =>
          ~ (SocketInfoArray'[j].recvbytes > SocketInfoArray'[j].sendbytes)
    BY <2>1, <2>2, <2>3 DEF Pending
  <2>5. nTotalSockets' = n /\ i' = k + 1 /\ rset' = rset
    BY <1>2
  <2> QED
    BY <2>4, <2>5 DEF EmptyWhenRead, Pending
<1> QED
  BY <1>4, <1>5, <1>6, <1>7, <1>8 DEF IInv, Counted

(* recv() of b bytes into a buffer that is empty. *)
LEMMA ReceiveStep ==
    ASSUME IInv, NEW k \in 1 .. nTotalSockets, NEW b \in 1 .. BUFSIZE,
           Take(Owner(k), b), SocketInfoArray[k].sock \in rset,
           SocketInfoArray' = [SocketInfoArray EXCEPT
              ![k].buf = Chunk(Owner(k), taken[Owner(k)], b), ![k].recvbytes = b],
           pc = "scan", i = k, i' = i + 1, UNCHANGED <<pc, rset, wset, nready>>
    PROVE  IInv'
<1> DEFINE c == Owner(k)
           ptr == SocketInfoArray[k]
           new == [ptr EXCEPT !.buf = Chunk(c, taken[c], b), !.recvbytes = b]
<1>1. /\ taken' = [taken EXCEPT ![c] = @ + b] /\ link' = link /\ fdt' = fdt
      /\ peer' = peer /\ sent' = sent /\ out' = out /\ got' = got
  BY DEF Take
<1>2. /\ c \in Clients /\ taken[c] \in Nat /\ b \in Nat /\ ptr \in SOCKETINFO
      /\ out[c] \in Seq(Bytes)
  BY RecordFacts, SocketsAssumption
<1>3. /\ Booked(ptr, c, taken[c], Len(out[c])) /\ ~ Pending(k)
      /\ ptr.recvbytes \in Nat /\ ptr.sendbytes \in Nat
  BY <1>2, RecordFacts DEF IInv, Accounts, EmptyWhenRead
<1>4. Chunk(c, taken[c], b) \in Seq(Bytes)
  BY <1>2, ChunkType
<1>5. /\ new \in SOCKETINFO /\ new.sock = ptr.sock /\ new.buf = Chunk(c, taken[c], b)
      /\ new.recvbytes = b /\ new.sendbytes = ptr.sendbytes
  BY <1>2, <1>4 DEF SOCKETINFO
<1>6. SocketInfoArray' = [SocketInfoArray EXCEPT ![k] = new]
  OBVIOUS
<1>7. /\ taken' \in [Clients -> Nat] /\ taken'[c] = taken[c] + b
      /\ \A d \in Clients \ {c} : taken'[d] = taken[d]
      /\ out' \in [Clients -> Seq(Bytes)]
  BY <1>1, <1>2 DEF IInv, TypeOK, SocketsTypeOK
<1>8. Booked(new, c, taken'[c], Len(out'[c]))
  <2>1. /\ Len(out[c]) \in Nat /\ b > 0 /\ ~ (ptr.recvbytes > ptr.sendbytes)
        /\ out'[c] = out[c]
    BY <1>1, <1>2, <1>3 DEF Pending
  <2> HIDE DEF c, ptr, new
  <2>2. /\ c \in Clients /\ taken[c] \in Nat /\ Len(out[c]) \in Nat /\ b \in Nat
        /\ ptr.recvbytes \in Nat /\ ptr.sendbytes \in Nat
        /\ Booked(ptr, c, taken[c], Len(out[c]))
        /\ ~ (ptr.recvbytes > ptr.sendbytes) /\ b > 0
        /\ new.buf = Chunk(c, taken[c], b) /\ new.recvbytes = b
        /\ new.sendbytes = ptr.sendbytes
    BY <1>2, <1>3, <1>5, <2>1
  <2>3. Booked(new, c, taken[c] + b, Len(out[c]))
    BY ONLY <2>2, BookedRecv, ZenonT(60)
  <2> QED
    BY <1>7, <2>1, <2>3
<1> HIDE DEF c, ptr, new
<1>9. \A m \in 1 .. Len(out'[c]) : out'[c][m] = <<c, m>>
  BY <1>1, <1>2 DEF IInv, Accounts
<1> QED
  BY <1>1, <1>5, <1>6, <1>7, <1>8, <1>9, UpdateStep DEF c, ptr

(* send() of the first b bytes that wait in the buffer. *)
LEMMA SendStep ==
    ASSUME IInv, NEW k \in 1 .. nTotalSockets, NEW b \in Nat,
           b <= SocketInfoArray[k].recvbytes - SocketInfoArray[k].sendbytes,
           Give(Owner(k), SubSeq(SocketInfoArray[k].buf, SocketInfoArray[k].sendbytes + 1,
                                 SocketInfoArray[k].sendbytes + b)),
           SocketInfoArray' =
              IF SocketInfoArray[k].sendbytes + b = SocketInfoArray[k].recvbytes
              THEN [SocketInfoArray EXCEPT ![k].recvbytes = 0, ![k].sendbytes = 0]
              ELSE [SocketInfoArray EXCEPT ![k].sendbytes = @ + b],
           pc = "scan", i = k, i' = i + 1, UNCHANGED <<pc, rset, wset, nready>>
    PROVE  IInv'
<1> DEFINE c == Owner(k)
           ptr == SocketInfoArray[k]
           bytes == SubSeq(ptr.buf, ptr.sendbytes + 1, ptr.sendbytes + b)
           new == IF ptr.sendbytes + b = ptr.recvbytes
                  THEN [ptr EXCEPT !.recvbytes = 0, !.sendbytes = 0]
                  ELSE [ptr EXCEPT !.sendbytes = @ + b]
<1>1. /\ out' = [out EXCEPT ![c] = @ \o bytes] /\ link' = link /\ fdt' = fdt
      /\ peer' = peer /\ sent' = sent /\ taken' = taken /\ got' = got
  BY DEF Give
<1>2. /\ c \in Clients /\ taken[c] \in Nat /\ ptr \in SOCKETINFO /\ out[c] \in Seq(Bytes)
      /\ ptr.buf \in Seq(Bytes) /\ ptr.recvbytes \in Nat /\ ptr.sendbytes \in Nat
      /\ ptr.recvbytes <= Len(ptr.buf) /\ b \in Nat
  BY RecordFacts
<1>3. Booked(ptr, c, taken[c], Len(out[c]))
  BY DEF IInv, Accounts
<1>4. SocketInfoArray' = [SocketInfoArray EXCEPT ![k] = new]
  OBVIOUS
<1>5. b <= ptr.recvbytes - ptr.sendbytes
  OBVIOUS
<1> HIDE DEF c, ptr, new
<1>6. bytes = Chunk(c, Len(out[c]), b) /\ Len(out[c]) \in Nat
  <2>1. /\ c \in Clients /\ taken[c] \in Nat /\ Len(out[c]) \in Nat
        /\ ptr.buf \in Seq(Bytes) /\ ptr.recvbytes \in Nat /\ ptr.sendbytes \in Nat
        /\ Booked(ptr, c, taken[c], Len(out[c]))
        /\ b \in Nat /\ b <= ptr.recvbytes - ptr.sendbytes
    BY <1>2, <1>3, <1>5
  <2>2. bytes = Chunk(c, Len(out[c]), b)
    BY ONLY <2>1, NextBytes, ZenonT(60) DEF bytes
  <2> QED
    BY <2>1, <2>2
<1> HIDE DEF bytes
<1>7. /\ new \in SOCKETINFO /\ new.sock = ptr.sock /\ new.buf = ptr.buf
      /\ \/ /\ ptr.sendbytes + b = ptr.recvbytes
            /\ new.recvbytes = 0 /\ new.sendbytes = 0
         \/ /\ ptr.sendbytes + b # ptr.recvbytes
            /\ new.recvbytes = ptr.recvbytes /\ new.sendbytes = ptr.sendbytes + b
  <2>1. CASE ptr.sendbytes + b = ptr.recvbytes
    BY <1>2, <2>1 DEF SOCKETINFO, new
  <2>2. CASE ptr.sendbytes + b # ptr.recvbytes
    BY <1>2, <2>2, SMTT(60) DEF SOCKETINFO, new
  <2> QED
    BY <2>1, <2>2
<1>8. /\ out[c] \o bytes \in Seq(Bytes) /\ Len(out[c] \o bytes) = Len(out[c]) + b
      /\ \A m \in 1 .. (Len(out[c]) + b) : (out[c] \o bytes)[m] = <<c, m>>
  <2>1. \A m \in 1 .. Len(out[c]) : out[c][m] = <<c, m>>
    BY <1>2 DEF IInv, Accounts
  <2> QED
    BY <1>2, <1>6, <2>1, InOrder
<1>9. /\ out' \in [Clients -> Seq(Bytes)] /\ out'[c] = out[c] \o bytes
      /\ \A d \in Clients \ {c} : out'[d] = out[d]
      /\ taken' \in [Clients -> Nat]
  BY <1>1, <1>2, <1>8 DEF IInv, TypeOK, SocketsTypeOK
<1>10. \A m \in 1 .. Len(out'[c]) : out'[c][m] = <<c, m>>
  BY <1>8, <1>9
<1>11. Booked(new, c, taken'[c], Len(out'[c]))
  <2>1. Booked(new, c, taken[c], Len(out[c]) + b)
    BY <1>2, <1>3, <1>5, <1>6, <1>7, BookedSend
  <2> QED
    BY <1>1, <1>8, <1>9, <2>1
<1> QED
  BY <1>1, <1>4, <1>7, <1>9, <1>10, <1>11, UpdateStep DEF c, ptr

-----------------------------------------------------------------------------
(* Every step preserves the inductive invariant. *)
LEMMA StepIInv == IInv /\ [Next]_vars => IInv'
<1> SUFFICES ASSUME IInv, [Next]_vars PROVE IInv'
  OBVIOUS
<1>1. CASE SelectCall
  BY <1>1, SelectStep
<1>2. CASE AcceptCall
  BY <1>2, AcceptStep
<1>3. CASE AcceptFull
  BY <1>3, AcceptFullStep
<1>4. CASE AcceptBreaks
  BY <1>4, ExitStep DEF AcceptBreaks
<1>5. CASE ScanEnds
  BY <1>5, ScanEndsStep
<1>6. ASSUME NEW k \in 1 .. nTotalSockets, RecvCall(k) PROVE IInv'
  <2>1. /\ pc = "scan" /\ i = k /\ i' = i + 1 /\ UNCHANGED <<pc, rset, wset, nready>>
        /\ SocketInfoArray[k].sock \in rset
    BY <1>6 DEF RecvCall, Scanning, ScanNext
  <2>2. CASE RemoveSocketInfo(k)
    BY <2>1, <2>2, RemoveStep
  <2>3. CASE ~ RemoveSocketInfo(k)
    <3>1. PICK b \in 1 .. BUFSIZE :
            /\ Take(Owner(k), b)
            /\ SocketInfoArray' = [SocketInfoArray EXCEPT
                  ![k].buf = Chunk(Owner(k), taken[Owner(k)], b), ![k].recvbytes = b]
      BY <1>6, <2>3 DEF RecvCall
    <3> QED
      BY <2>1, <3>1, ReceiveStep
  <2> QED
    BY <2>2, <2>3
<1>7. ASSUME NEW k \in 1 .. nTotalSockets, SendCall(k) PROVE IInv'
  <2>1. pc = "scan" /\ i = k /\ i' = i + 1 /\ UNCHANGED <<pc, rset, wset, nready>>
    BY <1>7 DEF SendCall, Scanning, ScanNext
  <2>2. CASE RemoveSocketInfo(k)
    BY <2>1, <2>2, RemoveStep
  <2>3. CASE ~ RemoveSocketInfo(k)
    <3>1. PICK b \in 0 .. (SocketInfoArray[k].recvbytes - SocketInfoArray[k].sendbytes) :
            /\ Give(Owner(k), SubSeq(SocketInfoArray[k].buf, SocketInfoArray[k].sendbytes + 1,
                                     SocketInfoArray[k].sendbytes + b))
            /\ SocketInfoArray' =
                  IF SocketInfoArray[k].sendbytes + b = SocketInfoArray[k].recvbytes
                  THEN [SocketInfoArray EXCEPT ![k].recvbytes = 0, ![k].sendbytes = 0]
                  ELSE [SocketInfoArray EXCEPT ![k].sendbytes = @ + b]
      BY <1>7, <2>3 DEF SendCall
    <3>2. b \in Nat /\ b <= SocketInfoArray[k].recvbytes - SocketInfoArray[k].sendbytes
      BY RecordFacts
    <3> QED
      BY <2>1, <3>1, <3>2, SendStep
  <2> QED
    BY <2>2, <2>3
<1>8. ASSUME NEW k \in 1 .. nTotalSockets, SendKills(k) PROVE IInv'
  BY <1>8, ExitStep DEF SendKills
<1>9. ASSUME NEW k \in 1 .. nTotalSockets, Skip(k) PROVE IInv'
  BY <1>9, SkipStep
<1>10. CASE Environment
  BY <1>10, RemoteStep
<1>11. CASE UNCHANGED vars
  <2>1. /\ link' = link /\ peer' = peer /\ sent' = sent /\ taken' = taken /\ out' = out
        /\ got' = got /\ fdt' = fdt /\ pc' = pc /\ SocketInfoArray' = SocketInfoArray
        /\ rset' = rset /\ wset' = wset /\ nready' = nready /\ i' = i
    BY <1>11 DEF vars, sockets
  <2> QED
    BY <2>1 DEF IInv, TypeOK, SocketsTypeOK, DescriptorTable, Records, Accounts,
                EmptyWhenRead, Counted, nTotalSockets, Connected, Owner, Pending
<1> QED
  BY <1>1, <1>2, <1>3, <1>4, <1>5, <1>6, <1>7, <1>8, <1>9, <1>10, <1>11 DEF Next, Server

(* The inductive invariant holds in every reachable state. *)
THEOREM Invariance == Spec => []IInv
  BY InitIInv, StepIInv, PTL DEF Spec

(* The variables stay in their sets. *)
THEOREM TypeCorrect == Spec => []TypeOK
<1>1. IInv => TypeOK
  BY DEF IInv
<1> QED
  BY <1>1, Invariance, PTL

(* RemoveSocketInfo() and AddSocketInfo() keep one record per connection,  *)
(* for any number of clients, descriptors and records.                     *)
THEOREM RecordsMatch == Spec => []OneRecordPerConnection
<1>1. IInv => OneRecordPerConnection
  <2> SUFFICES ASSUME IInv PROVE OneRecordPerConnection
    OBVIOUS
  <2>1. ASSUME NEW c \in Clients, link[c] = "open"
        PROVE  \E k \in 1 .. nTotalSockets : Owner(k) = c
    <3>1. PICK f \in Fds : fdt[f] = c
      BY <2>1 DEF IInv, DescriptorTable
    <3>2. PICK k \in 1 .. nTotalSockets : SocketInfoArray[k].sock = f
      BY <3>1 DEF IInv, Records, Connected
    <3> QED
      BY <3>1, <3>2 DEF Owner
  <2>2. \A k \in 1 .. nTotalSockets : Owner(k) \in Clients /\ link[Owner(k)] = "open"
    BY RecordFacts
  <2> QED
    BY <2>1, <2>2 DEF IInv, Records, OneRecordPerConnection
<1> QED
  BY <1>1, Invariance, PTL

(* What a record's buffer still has to send is what the server took from   *)
(* the record's client and has not given back, for buffers of any size and *)
(* however recv() and send() cut the stream.                               *)
THEOREM BufferMatches == Spec => []BufferIsBacklog
<1>1. IInv => BufferIsBacklog
  <2> SUFFICES ASSUME IInv, NEW k \in 1 .. nTotalSockets
               PROVE  SubSeq(SocketInfoArray[k].buf, SocketInfoArray[k].sendbytes + 1,
                             SocketInfoArray[k].recvbytes)
                        = Chunk(Owner(k), Len(out[Owner(k)]),
                                taken[Owner(k)] - Len(out[Owner(k)]))
    BY DEF BufferIsBacklog
  <2> DEFINE ptr == SocketInfoArray[k]
             c == Owner(k)
             len == ptr.recvbytes - ptr.sendbytes
  <2>1. /\ c \in Clients /\ taken[c] \in Nat /\ out[c] \in Seq(Bytes) /\ ptr.buf \in Seq(Bytes)
        /\ ptr.recvbytes \in Nat /\ ptr.sendbytes \in Nat /\ ptr.sendbytes <= ptr.recvbytes
        /\ ptr.recvbytes <= Len(ptr.buf)
    BY RecordFacts
  <2>2. Booked(ptr, c, taken[c], Len(out[c]))
    BY DEF IInv, Accounts
  <2> HIDE DEF ptr, c
  <2>3. Len(out[c]) \in Nat /\ len \in Nat /\ ptr.sendbytes + len = ptr.recvbytes
    BY <2>1
  <2>4. taken[c] - Len(out[c]) = len
    BY <2>1, <2>2, <2>3 DEF Booked
  <2> HIDE DEF len
  <2>5. SubSeq(ptr.buf, ptr.sendbytes + 1, ptr.sendbytes + len) = Chunk(c, Len(out[c]), len)
    <3>1. len <= ptr.recvbytes - ptr.sendbytes
      BY <2>1, <2>3
    <3> QED
      BY <2>1, <2>2, <2>3, <3>1, NextBytes, ZenonT(60)
  <2> QED
    BY <2>3, <2>4, <2>5 DEF ptr, c
<1> QED
  BY <1>1, Invariance, PTL

-----------------------------------------------------------------------------
(* The server implements the echo service of EchoSpec, for all sizes.  On  *)
(* top of IInv, which says that the buffers hold what is owed, this needs  *)
(* that what select() reported is still so when the data loop comes to it. *)

(* The listening socket has one descriptor, none once the process ended. *)
ListenerOnce ==
    /\ \A f \in Fds : fdt[f] = listen_sock => f = listenfd
    /\ pc = "exit" => \A f \in Fds : fdt[f] = Free

(* Descriptors that select() reported are in use when accept() is called,  *)
(* so that the new connection gets a different one.                        *)
ReportedInUse == pc = "accept" => \A f \in rset \cup wset : fdt[f] # Free

ArrivedFirst == \A c \in Clients : taken[c] <= sent[c]

EInv == IInv /\ ReadyWhenUsed /\ ListenerOnce /\ ReportedInUse /\ ArrivedFirst

-----------------------------------------------------------------------------
(* Readiness. *)

(* A record of the data loop whose client is left alone by the step keeps  *)
(* what was reported of it.                                                *)
LEMMA ReadyKept ==
    ASSUME rset' = rset, wset' = wset,
           \A k \in 1 .. nTotalSockets' : k >= i' =>
              /\ k \in 1 .. nTotalSockets /\ k >= i
              /\ SocketInfoArray'[k].sock = SocketInfoArray[k].sock
              /\ Owner(k)' = Owner(k)
              /\ ~ RecvWouldBlock(Owner(k)) => ~ RecvWouldBlock(Owner(k))'
              /\ ~ SendWouldBlock(Owner(k)) => ~ SendWouldBlock(Owner(k))',
           pc' \in {"accept", "scan"} => pc \in {"accept", "scan"},
           ReadyWhenUsed
    PROVE  ReadyWhenUsed'
  BY DEF ReadyWhenUsed

LEMMA EInit == Init => EInv
<1> SUFFICES ASSUME Init PROVE EInv
  OBVIOUS
<1>1. IInv
  BY InitIInv
<1>2. pc = "select"
  BY DEF Init
<1>3. ReadyWhenUsed /\ ReportedInUse
  BY <1>2 DEF ReadyWhenUsed, ReportedInUse
<1>4. ListenerOnce
  <2>1. \A f \in Fds : fdt[f] = IF \E l \in Listeners : [m \in Listeners |-> listenfd][l] = f
                                THEN CHOOSE l \in Listeners : [m \in Listeners |-> listenfd][l] = f
                                ELSE Free
    BY DEF Init, SocketsInit
  <2>2. \A f \in Fds : f # listenfd => fdt[f] = Free
    BY <2>1
  <2> QED
    BY <1>2, <2>2, SelectAssumption, SocketsAssumption DEF ListenerOnce
<1>5. ArrivedFirst
  BY DEF Init, SocketsInit, ArrivedFirst
<1> QED
  BY <1>1, <1>3, <1>4, <1>5 DEF EInv

(* A descriptor of a record is not the listening socket's. *)
LEMMA RecordNotListening ==
    ASSUME EInv, pc # "exit", NEW k \in 1 .. nTotalSockets
    PROVE  SocketInfoArray[k].sock # listenfd
  BY SelectAssumption, SocketsAssumption DEF EInv, IInv, Records, Connected, DescriptorTable

(* select() reports what is ready. *)
LEMMA SelectReports == ASSUME EInv, SelectCall PROVE ReadyWhenUsed' /\ ReportedInUse'
<1> DEFINE examined == {fd \in Fds : fd < GetMaxFDPlus1(listenfd)}
           r == {fd \in ReadSet \cap examined : ReadyForRead(fd)}
           w == {fd \in WriteSet \cap examined : ReadyForWrite(fd)}
<1>1. /\ pc = "select" /\ rset' = r /\ wset' = w /\ i' = 1 /\ fdt' = fdt
      /\ UNCHANGED <<sockets, SocketInfoArray>>
  BY DEF SelectCall, sockets
<1> HIDE DEF examined
<1>2. \A fd \in r : fd \in Fds /\ ReadyForRead(fd)
  BY DEF examined
<1>3. \A fd \in w : fd \in Fds /\ ReadyForWrite(fd)
  BY DEF examined
<1> HIDE DEF r, w
<1>4. ReadyWhenUsed'
  <2> SUFFICES ASSUME NEW k \in 1 .. nTotalSockets
               PROVE  /\ SocketInfoArray[k].sock \in r => ~ RecvWouldBlock(Owner(k))
                      /\ SocketInfoArray[k].sock \in w => ~ SendWouldBlock(Owner(k))
    <3>1. \A k \in 1 .. nTotalSockets : /\ Owner(k)' = Owner(k)
                                        /\ RecvWouldBlock(Owner(k))' = RecvWouldBlock(Owner(k))
                                        /\ SendWouldBlock(Owner(k))' = SendWouldBlock(Owner(k))
      BY <1>1 DEF sockets, Owner, RecvWouldBlock, SendWouldBlock, Unread, SendSpace
    <3> QED
      BY <1>1, <3>1 DEF ReadyWhenUsed, nTotalSockets
  <2>1. SocketInfoArray[k].sock # listenfd
    BY <1>1, RecordNotListening
  <2>2. /\ Owner(k) \in Clients /\ sent[Owner(k)] \in Nat /\ taken[Owner(k)] \in Nat
        /\ Len(out[Owner(k)]) \in Nat /\ got[Owner(k)] \in Nat /\ SNDBUF \in Nat
    BY RecordFacts, SocketsAssumption DEF EInv, IInv, TypeOK, SocketsTypeOK
  <2>3. SocketInfoArray[k].sock \in r => Readable(Owner(k))
    BY <1>2, <2>1 DEF ReadyForRead, Owner
  <2>4. SocketInfoArray[k].sock \in w => Writable(Owner(k))
    BY <1>3 DEF ReadyForWrite, Owner
  <2> QED
    BY <2>2, <2>3, <2>4 DEF Readable, Writable, RecvWouldBlock, SendWouldBlock, Unread, SendSpace
<1>5. ReportedInUse'
  <2>1. fdt[listenfd] # Free
    BY <1>1, SelectAssumption, SocketsAssumption DEF EInv, IInv, DescriptorTable
  <2>2. \A fd \in r : fdt[fd] # Free
    BY <1>2, <2>1, SocketsAssumption DEF ReadyForRead, Connected
  <2>3. \A fd \in w : fdt[fd] # Free
    BY <1>3, SocketsAssumption DEF ReadyForWrite, Connected
  <2> QED
    BY <1>1, <2>2, <2>3 DEF ReportedInUse
<1> QED
  BY <1>4, <1>5

(* The step of a record leaves the records after it, and their clients,    *)
(* alone.                                                                  *)
LEMMA OthersKept ==
    ASSUME IInv, NEW k \in 1 .. nTotalSockets, pc = "scan", i = k,
           \/ RemoveSocketInfo(k)
           \/ \E n \in Nat : /\ Take(Owner(k), n)
                             /\ \E e \in SOCKETINFO : SocketInfoArray' = [SocketInfoArray EXCEPT ![k] = e]
           \/ \E b : /\ Give(Owner(k), b)
                     /\ \E e \in SOCKETINFO : SocketInfoArray' = [SocketInfoArray EXCEPT ![k] = e],
           NEW j \in 1 .. nTotalSockets', j > k
    PROVE  /\ j \in 1 .. nTotalSockets
           /\ SocketInfoArray'[j].sock = SocketInfoArray[j].sock
           /\ Owner(j)' = Owner(j)
           /\ RecvWouldBlock(Owner(j))' = RecvWouldBlock(Owner(j))
           /\ SendWouldBlock(Owner(j))' = SendWouldBlock(Owner(j))
<1>1. /\ nTotalSockets \in Nat /\ SocketInfoArray \in Seq(SOCKETINFO)
      /\ SocketInfoArray[k].sock \in Fds /\ Owner(k) \in Clients
      /\ fdt \in [Fds -> Clients \cup Listeners \cup {Free}]
      /\ taken \in [Clients -> Nat] /\ out \in [Clients -> Seq(Bytes)]
  BY RecordFacts DEF IInv, TypeOK, SocketsTypeOK
<1>2. /\ j \in 1 .. nTotalSockets /\ SocketInfoArray'[j] = SocketInfoArray[j]
  <2>1. CASE RemoveSocketInfo(k)
    <3>1. SocketInfoArray' = [m \in 1 .. (Len(SocketInfoArray) - 1) |->
                                SocketInfoArray[IF m = k THEN Len(SocketInfoArray) ELSE m]]
      BY <2>1 DEF RemoveSocketInfo, nTotalSockets
    <3>2. /\ Len(SocketInfoArray') = Len(SocketInfoArray) - 1
          /\ \A m \in 1 .. Len(SocketInfoArray') :
                SocketInfoArray'[m] = SocketInfoArray[IF m = k THEN Len(SocketInfoArray) ELSE m]
      <4>1. k \in 1 .. Len(SocketInfoArray)
        BY DEF nTotalSockets
      <4> QED
        BY <1>1, <3>1, <4>1, Compaction
    <3> QED
      BY <1>1, <3>2 DEF nTotalSockets
  <2>2. CASE \E e \in SOCKETINFO : SocketInfoArray' = [SocketInfoArray EXCEPT ![k] = e]
    <3>1. PICK e \in SOCKETINFO : SocketInfoArray' = [SocketInfoArray EXCEPT ![k] = e]
      BY <2>2
    <3>2. k \in 1 .. Len(SocketInfoArray)
      BY DEF nTotalSockets
    <3>3. /\ Len(SocketInfoArray') = Len(SocketInfoArray)
          /\ \A m \in 1 .. Len(SocketInfoArray) :
                SocketInfoArray'[m] = IF m = k THEN e ELSE SocketInfoArray[m]
      BY <1>1, <3>1, <3>2, Replacement
    <3> QED
      BY <1>1, <3>3 DEF nTotalSockets
  <2> QED
    BY <2>1, <2>2
<1>3. /\ SocketInfoArray[j].sock \in Fds /\ Owner(j) \in Clients
      /\ SocketInfoArray[j].sock # SocketInfoArray[k].sock /\ Owner(j) # Owner(k)
  <2>1. j # k
    BY <1>1, <1>2
  <2> QED
    BY <1>2, <2>1, RecordFacts, OwnersDiffer DEF IInv, Records
<1>4. CASE RemoveSocketInfo(k)
  <2>1. /\ fdt' = [fdt EXCEPT ![SocketInfoArray[k].sock] = Free] /\ taken' = taken /\ out' = out
        /\ peer' = peer /\ sent' = sent /\ got' = got
    BY <1>4 DEF RemoveSocketInfo, Close
  <2>2. Owner(j)' = Owner(j)
    BY <1>1, <1>2, <1>3, <2>1 DEF Owner
  <2> QED
    BY <1>2, <2>1, <2>2 DEF RecvWouldBlock, SendWouldBlock, Unread, SendSpace
<1>5. CASE \E n \in Nat : Take(Owner(k), n)
  <2>1. PICK n \in Nat : taken' = [taken EXCEPT ![Owner(k)] = @ + n] /\ fdt' = fdt /\ out' = out
                         /\ peer' = peer /\ sent' = sent /\ got' = got
    BY <1>5 DEF Take
  <2>2. Owner(j)' = Owner(j) /\ taken'[Owner(j)] = taken[Owner(j)]
    BY <1>1, <1>2, <1>3, <2>1 DEF Owner
  <2> QED
    BY <1>2, <2>1, <2>2 DEF RecvWouldBlock, SendWouldBlock, Unread, SendSpace
<1>6. CASE \E b : Give(Owner(k), b)
  <2>1. PICK b : out' = [out EXCEPT ![Owner(k)] = @ \o b] /\ fdt' = fdt /\ taken' = taken
                 /\ peer' = peer /\ sent' = sent /\ got' = got
    BY <1>6 DEF Give
  <2>2. Owner(j)' = Owner(j) /\ out'[Owner(j)] = out[Owner(j)]
    BY <1>1, <1>2, <1>3, <2>1 DEF Owner
  <2> QED
    BY <1>2, <2>1, <2>2 DEF RecvWouldBlock, SendWouldBlock, Unread, SendSpace
<1> QED
  BY <1>4, <1>5, <1>6

(* recv() and send() replace the record by another one, or remove it. *)
LEMMA ScanUpdates ==
    ASSUME IInv, NEW k \in 1 .. nTotalSockets, RecvCall(k) \/ SendCall(k)
    PROVE  \/ RemoveSocketInfo(k)
           \/ \E n \in Nat : /\ n <= Unread(Owner(k))
                             /\ Take(Owner(k), n)
                             /\ \E e \in SOCKETINFO : SocketInfoArray' = [SocketInfoArray EXCEPT ![k] = e]
           \/ \E b : /\ Give(Owner(k), b)
                     /\ \E e \in SOCKETINFO : SocketInfoArray' = [SocketInfoArray EXCEPT ![k] = e]
<1> DEFINE ptr == SocketInfoArray[k]
           c == Owner(k)
<1>1. /\ ptr \in SOCKETINFO /\ ptr.buf \in Seq(Bytes) /\ ptr.recvbytes \in Nat
      /\ ptr.sendbytes \in Nat /\ c \in Clients /\ taken[c] \in Nat
  BY RecordFacts
<1>2. CASE RecvCall(k) /\ ~ RemoveSocketInfo(k)
  <2>1. PICK n \in 1 .. BUFSIZE :
           /\ RecvReturns(c, n) /\ Take(c, n)
           /\ SocketInfoArray' = [SocketInfoArray EXCEPT ![k].buf = Chunk(c, taken[c], n),
                                                         ![k].recvbytes = n]
    BY <1>2 DEF RecvCall
  <2>2. n \in Nat /\ n <= Unread(c)
    BY <2>1, SocketsAssumption DEF RecvReturns
  <2>3. Chunk(c, taken[c], n) \in Seq(Bytes)
    BY <1>1, <2>2, ChunkType
  <2> DEFINE e == [ptr EXCEPT !.buf = Chunk(c, taken[c], n), !.recvbytes = n]
  <2>4. e \in SOCKETINFO
    BY <1>1, <2>2, <2>3 DEF SOCKETINFO
  <2>5. SocketInfoArray' = [SocketInfoArray EXCEPT ![k] = e]
    BY <2>1
  <2> QED
    BY <2>1, <2>2, <2>4, <2>5
<1>3. CASE SendCall(k) /\ ~ RemoveSocketInfo(k)
  <2>1. PICK n \in 0 .. (ptr.recvbytes - ptr.sendbytes) :
           /\ Give(c, SubSeq(ptr.buf, ptr.sendbytes + 1, ptr.sendbytes + n))
           /\ SocketInfoArray' =
                IF ptr.sendbytes + n = ptr.recvbytes
                THEN [SocketInfoArray EXCEPT ![k].recvbytes = 0, ![k].sendbytes = 0]
                ELSE [SocketInfoArray EXCEPT ![k].sendbytes = @ + n]
    BY <1>3 DEF SendCall
  <2> DEFINE e == IF ptr.sendbytes + n = ptr.recvbytes
                  THEN [ptr EXCEPT !.recvbytes = 0, !.sendbytes = 0]
                  ELSE [ptr EXCEPT !.sendbytes = @ + n]
  <2>2. e \in SOCKETINFO
    <3>1. CASE ptr.sendbytes + n = ptr.recvbytes
      BY <1>1, <3>1 DEF SOCKETINFO
    <3>2. CASE ptr.sendbytes + n # ptr.recvbytes
      BY <1>1, <3>2 DEF SOCKETINFO
    <3> QED
      BY <3>1, <3>2
  <2>3. SocketInfoArray' = [SocketInfoArray EXCEPT ![k] = e]
    BY <2>1
  <2> QED
    BY <2>1, <2>2, <2>3
<1> QED
  BY <1>2, <1>3

LEMMA ScanKeeps ==
    ASSUME EInv, NEW k \in 1 .. nTotalSockets, RecvCall(k) \/ SendCall(k)
    PROVE  ReadyWhenUsed' /\ ListenerOnce' /\ ReportedInUse' /\ ArrivedFirst'
<1> USE DEF EInv
<1>1. /\ pc = "scan" /\ pc' = pc /\ i = k /\ i' = k + 1 /\ rset' = rset /\ wset' = wset
  BY DEF RecvCall, SendCall, Scanning, ScanNext
<1>2. \/ RemoveSocketInfo(k)
      \/ \E n \in Nat : /\ Take(Owner(k), n)
                        /\ \E e \in SOCKETINFO : SocketInfoArray' = [SocketInfoArray EXCEPT ![k] = e]
      \/ \E b : /\ Give(Owner(k), b)
                /\ \E e \in SOCKETINFO : SocketInfoArray' = [SocketInfoArray EXCEPT ![k] = e]
  BY ScanUpdates
<1>3. ReadyWhenUsed'
  <2>1. \A j \in 1 .. nTotalSockets' : j >= k + 1 =>
           /\ j \in 1 .. nTotalSockets /\ j >= k
           /\ SocketInfoArray'[j].sock = SocketInfoArray[j].sock
           /\ Owner(j)' = Owner(j)
           /\ RecvWouldBlock(Owner(j))' = RecvWouldBlock(Owner(j))
           /\ SendWouldBlock(Owner(j))' = SendWouldBlock(Owner(j))
    <3> SUFFICES ASSUME NEW j \in 1 .. nTotalSockets', j >= k + 1
                 PROVE  /\ j \in 1 .. nTotalSockets /\ j >= k
                        /\ SocketInfoArray'[j].sock = SocketInfoArray[j].sock
                        /\ Owner(j)' = Owner(j)
                        /\ RecvWouldBlock(Owner(j))' = RecvWouldBlock(Owner(j))
                        /\ SendWouldBlock(Owner(j))' = SendWouldBlock(Owner(j))
      OBVIOUS
    <3>1. j > k /\ j >= k
      OBVIOUS
    <3> QED
      BY <1>1, <1>2, <3>1, OthersKept
  <2> QED
    BY <1>1, <2>1, ReadyKept
<1>4. /\ fdt' \in {fdt, [fdt EXCEPT ![SocketInfoArray[k].sock] = Free]}
      /\ sent' = sent
  BY <1>2 DEF RemoveSocketInfo, Close, Take, Give
<1>5. ListenerOnce'
  BY <1>1, <1>4, SocketsAssumption, SelectAssumption
     DEF ListenerOnce, IInv, TypeOK, SocketsTypeOK
<1>6. ArrivedFirst'
  <2>1. taken' = taken \/ \E n \in Nat : n <= Unread(Owner(k)) /\ taken' = [taken EXCEPT ![Owner(k)] = @ + n]
    BY ScanUpdates DEF RemoveSocketInfo, Close, Take, Give
  <2>2. CASE taken' = taken
    BY <1>4, <2>2 DEF ArrivedFirst
  <2>3. CASE \E n \in Nat : n <= Unread(Owner(k)) /\ taken' = [taken EXCEPT ![Owner(k)] = @ + n]
    <3>1. PICK n \in Nat : n <= Unread(Owner(k)) /\ taken' = [taken EXCEPT ![Owner(k)] = @ + n]
      BY <2>3
    <3>2. taken \in [Clients -> Nat] /\ sent \in [Clients -> Nat] /\ Owner(k) \in Clients
      BY RecordFacts DEF IInv, TypeOK, SocketsTypeOK
    <3> QED
      BY <1>4, <3>1, <3>2 DEF ArrivedFirst, Unread
  <2> QED
    BY <2>1, <2>2, <2>3
<1> QED
  BY <1>1, <1>3, <1>5, <1>6 DEF ReportedInUse

LEMMA AcceptKeeps ==
    ASSUME EInv, AcceptCall
    PROVE  ReadyWhenUsed' /\ ListenerOnce' /\ ReportedInUse' /\ ArrivedFirst'
<1> USE DEF EInv
<1>1. PICK c \in Clients, fd \in Fds :
        Accept(listen_sock, c, fd) /\ SocketInfoArray' = Append(SocketInfoArray, NewSocketInfo(fd))
  BY DEF AcceptCall, AddSocketInfo
<1>2. /\ fdt[fd] = Free /\ fdt' = [fdt EXCEPT ![fd] = c]
      /\ peer' = peer /\ sent' = sent /\ taken' = taken /\ out' = out /\ got' = got
  BY <1>1 DEF Accept, LowestFree
<1>3. /\ pc = "accept" /\ pc' \in {"select", "scan"} /\ i' = i
      /\ pc' = "scan" => rset' = rset /\ wset' = wset
  BY DEF AcceptCall, AfterAccept, IInv, TypeOK, Counted
<1>4. /\ SocketInfoArray \in Seq(SOCKETINFO) /\ nTotalSockets \in Nat
      /\ fdt \in [Fds -> Clients \cup Listeners \cup {Free}]
  BY DEF IInv, TypeOK, SocketsTypeOK, nTotalSockets
<1>5. ReadyWhenUsed'
  <2>1. nTotalSockets' = nTotalSockets + 1
    BY <1>1, <1>4 DEF nTotalSockets
  <2>2. SocketInfoArray'[nTotalSockets + 1].sock = fd
    BY <1>1, <1>4 DEF nTotalSockets, NewSocketInfo
  <2>3. fd \notin rset \cup wset
    BY <1>2, <1>3 DEF ReportedInUse
  <2>4. \A k \in 1 .. nTotalSockets :
           /\ SocketInfoArray'[k].sock = SocketInfoArray[k].sock
           /\ Owner(k)' = Owner(k)
    <3> SUFFICES ASSUME NEW k \in 1 .. nTotalSockets
                 PROVE  /\ SocketInfoArray'[k].sock = SocketInfoArray[k].sock
                        /\ Owner(k)' = Owner(k)
      OBVIOUS
    <3>1. SocketInfoArray'[k] = SocketInfoArray[k]
      BY <1>1, <1>4 DEF nTotalSockets
    <3>2. SocketInfoArray[k].sock \in Fds /\ SocketInfoArray[k].sock # fd
      BY <1>2, RecordFacts, SocketsAssumption DEF IInv, Records, Connected
    <3> QED
      BY <1>2, <1>4, <3>1, <3>2 DEF Owner
  <2>5. \A k \in 1 .. nTotalSockets :
           /\ RecvWouldBlock(Owner(k))' = RecvWouldBlock(Owner(k))
           /\ SendWouldBlock(Owner(k))' = SendWouldBlock(Owner(k))
    BY <1>2, <2>4 DEF RecvWouldBlock, SendWouldBlock, Unread, SendSpace
  <2> SUFFICES ASSUME pc' = "scan", NEW k \in 1 .. nTotalSockets', k >= i
               PROVE  /\ SocketInfoArray'[k].sock \in rset => ~ RecvWouldBlock(Owner(k))'
                      /\ SocketInfoArray'[k].sock \in wset => ~ SendWouldBlock(Owner(k))'
    BY <1>3 DEF ReadyWhenUsed
  <2>6. CASE k = nTotalSockets + 1
    BY <2>2, <2>3, <2>6
  <2>7. CASE k \in 1 .. nTotalSockets
    BY <1>3, <2>4, <2>5, <2>7 DEF ReadyWhenUsed
  <2> QED
    BY <1>4, <2>1, <2>6, <2>7
<1>6. ListenerOnce'
  BY <1>2, <1>3, <1>4, SocketsAssumption, SelectAssumption DEF ListenerOnce
<1> QED
  BY <1>2, <1>3, <1>5, <1>6 DEF ReportedInUse, ArrivedFirst

LEMMA EStep == EInv /\ [Next]_vars => EInv'
<1> SUFFICES ASSUME EInv, [Next]_vars PROVE EInv'
  OBVIOUS
<1> USE DEF EInv
<1>1. IInv'
  BY StepIInv
<1>2. CASE SelectCall
  <2>1. UNCHANGED sockets /\ pc' # "exit"
    BY <1>2 DEF SelectCall
  <2> QED
    BY <1>1, <1>2, <2>1, SelectReports DEF sockets, ListenerOnce, ArrivedFirst
<1>3. CASE AcceptCall
  BY <1>1, <1>3, AcceptKeeps
<1>4. CASE AcceptFull
  <2>1. /\ fdt' = fdt /\ peer' = peer /\ sent' = sent /\ taken' = taken /\ out' = out /\ got' = got
        /\ SocketInfoArray' = SocketInfoArray /\ pc = "accept" /\ pc' \in {"select", "scan"} /\ i' = i
        /\ pc' = "scan" => rset' = rset /\ wset' = wset
    BY <1>4 DEF AcceptFull, AcceptAndClose, AfterAccept
  <2>2. \A k : /\ Owner(k)' = Owner(k)
               /\ RecvWouldBlock(Owner(k))' = RecvWouldBlock(Owner(k))
               /\ SendWouldBlock(Owner(k))' = SendWouldBlock(Owner(k))
    BY <2>1 DEF Owner, RecvWouldBlock, SendWouldBlock, Unread, SendSpace
  <2> QED
    BY <1>1, <2>1, <2>2 DEF ReadyWhenUsed, nTotalSockets, ListenerOnce, ReportedInUse, ArrivedFirst
<1>5. CASE AcceptBreaks \/ \E k \in 1 .. nTotalSockets : SendKills(k)
  <2>1. pc' = "exit" /\ fdt' = [fd \in Fds |-> Free] /\ sent' = sent /\ taken' = taken
    BY <1>5 DEF AcceptBreaks, SendKills, CloseAll
  <2> QED
    BY <1>1, <2>1, SelectAssumption, SocketsAssumption
       DEF ReadyWhenUsed, ListenerOnce, ReportedInUse, ArrivedFirst
<1>6. CASE ScanEnds
  BY <1>1, <1>6 DEF ScanEnds, sockets, ReadyWhenUsed, ListenerOnce, ReportedInUse, ArrivedFirst
<1>7. ASSUME NEW k \in 1 .. nTotalSockets, RecvCall(k) \/ SendCall(k) PROVE EInv'
  BY <1>1, <1>7, ScanKeeps
<1>8. ASSUME NEW k \in 1 .. nTotalSockets, Skip(k) PROVE EInv'
  <2>1. /\ fdt' = fdt /\ peer' = peer /\ sent' = sent /\ taken' = taken /\ out' = out /\ got' = got
        /\ SocketInfoArray' = SocketInfoArray /\ pc = "scan" /\ pc' = pc /\ i' = i + 1
        /\ rset' = rset /\ wset' = wset
    BY <1>8 DEF Skip, Scanning, ScanNext, sockets
  <2>2. \A j : /\ Owner(j)' = Owner(j)
               /\ RecvWouldBlock(Owner(j))' = RecvWouldBlock(Owner(j))
               /\ SendWouldBlock(Owner(j))' = SendWouldBlock(Owner(j))
    BY <2>1 DEF Owner, RecvWouldBlock, SendWouldBlock, Unread, SendSpace
  <2>3. i \in Nat /\ nTotalSockets \in Nat
    BY DEF IInv, TypeOK, nTotalSockets
  <2>4. \A j \in 1 .. nTotalSockets : j >= i + 1 => j >= i
    BY <2>3
  <2> QED
    BY <1>1, <2>1, <2>2, <2>4
       DEF ReadyWhenUsed, nTotalSockets, ListenerOnce, ReportedInUse, ArrivedFirst
<1>9. CASE Environment
  <2>1. PICK c \in Clients : Remote(c)
    BY <1>9 DEF Environment
  <2>2. /\ pc' = pc /\ SocketInfoArray' = SocketInfoArray /\ rset' = rset /\ wset' = wset /\ i' = i
        /\ fdt' = fdt
    BY <1>9, <2>1 DEF Environment, Remote, Connect, ClientSend, ClientRead, ClientFin, ClientReset
  <2>3. SocketsTypeOK
    BY DEF IInv, TypeOK
  <2>4. \A d \in Clients : /\ ~ RecvWouldBlock(d) => ~ RecvWouldBlock(d)'
                           /\ ~ SendWouldBlock(d) => ~ SendWouldBlock(d)'
                           /\ taken'[d] <= sent'[d]
    BY <2>1, <2>3, RemoteKeepsReady DEF ArrivedFirst
  <2>5. \A k \in 1 .. nTotalSockets : Owner(k) \in Clients /\ Owner(k)' = Owner(k)
    BY <2>2, RecordFacts DEF Owner
  <2>6. ReadyWhenUsed'
    BY <2>2, <2>4, <2>5 DEF ReadyWhenUsed, nTotalSockets
  <2> QED
    BY <1>1, <2>2, <2>4, <2>6 DEF ListenerOnce, ReportedInUse, ArrivedFirst
<1>10. CASE UNCHANGED vars
  BY <1>1, <1>10 DEF vars, sockets, ReadyWhenUsed, nTotalSockets, Owner, RecvWouldBlock,
     SendWouldBlock, Unread, SendSpace, ListenerOnce, ReportedInUse, ArrivedFirst
<1> QED
  BY <1>2, <1>3, <1>4, <1>5, <1>6, <1>7, <1>8, <1>9, <1>10 DEF Next, Server

LEMMA EInvariance == Spec => []EInv
  BY EInit, EStep, PTL DEF Spec

(* A socket that select() reported is still ready when the data loop comes *)
(* to it, for all sizes: neither recv() nor send() meets EWOULDBLOCK.      *)
THEOREM ReportsHold == Spec => []ReadyWhenUsed
<1>1. EInv => ReadyWhenUsed
  BY DEF EInv
<1> QED
  BY <1>1, EInvariance, PTL

-----------------------------------------------------------------------------
(* The refinement of EchoSpec. *)

(* The cardinality that EchoSpec speaks of. *)
LEMMA SameCardinality == \A S : Echo!Cardinality(S) = Cardinality(S)
  BY DEF Echo!Cardinality, Cardinality

(* There are as many open connections as records, and at most one for each *)
(* descriptor but the listening one.                                       *)
LEMMA OpenConnections ==
    ASSUME EInv, pc # "exit"
    PROVE  /\ Cardinality(Echo!Open) = nTotalSockets
           /\ nTotalSockets \in Nat /\ Cardinality(Fds) \in Nat
           /\ NoFreeFd => Cardinality(Echo!Open) = Cardinality(Fds) - 1
           /\ ~ NoFreeFd => Cardinality(Echo!Open) < Cardinality(Fds) - 1
<1> USE DEF EInv
<1> DEFINE used == {f \in Fds : Connected(f)}
           others == Fds \ {listenfd}
<1>1. /\ nTotalSockets \in Nat
      /\ IsFiniteSet(1 .. nTotalSockets) /\ Cardinality(1 .. nTotalSockets) = nTotalSockets
  <2>1. nTotalSockets \in Nat /\ 1 \in Int
    BY DEF IInv, TypeOK, nTotalSockets
  <2> QED
    BY <2>1, FS_Interval
<1>2. Cardinality(Echo!Open) = nTotalSockets
  <2> DEFINE f == [k \in 1 .. nTotalSockets |-> Owner(k)]
  <2>1. \A k \in 1 .. nTotalSockets : Owner(k) \in Echo!Open
    BY RecordFacts DEF Echo!Open
  <2>2. \A j, k \in 1 .. nTotalSockets : Owner(j) = Owner(k) => j = k
    BY OwnersDiffer
  <2>3. \A c \in Echo!Open : \E k \in 1 .. nTotalSockets : Owner(k) = c
    <3> SUFFICES ASSUME NEW c \in Echo!Open PROVE \E k \in 1 .. nTotalSockets : Owner(k) = c
      OBVIOUS
    <3>1. PICK g \in Fds : fdt[g] = c
      BY DEF Echo!Open, IInv, DescriptorTable
    <3>2. PICK k \in 1 .. nTotalSockets : SocketInfoArray[k].sock = g
      BY <3>1 DEF IInv, Records, Connected, Echo!Open
    <3> QED
      BY <3>1, <3>2 DEF Owner
  <2>4. f \in Bijection(1 .. nTotalSockets, Echo!Open)
    BY <2>1, <2>2, <2>3 DEF Bijection, Injection, IsInjective, Surjection
  <2> QED
    BY <1>1, <2>4, FS_Bijection DEF ExistsBijection
<1>3. /\ IsFiniteSet(Fds) /\ Cardinality(Fds) \in Nat
      /\ IsFiniteSet(others) /\ Cardinality(others) = Cardinality(Fds) - 1
  <2>1. 3 \in Int /\ NOFILE - 1 \in Int /\ listenfd \in Fds
    BY SelectAssumption, SocketsAssumption DEF listenfd, Fds
  <2>2. IsFiniteSet(3 .. (NOFILE - 1))
    BY <2>1, FS_Interval
  <2>3. IsFiniteSet(Fds)
    BY <2>2 DEF Fds
  <2> QED
    BY <2>1, <2>3, FS_RemoveElement, FS_CardinalityType
<1>4. Cardinality(used) = nTotalSockets
  <2> DEFINE f == [k \in 1 .. nTotalSockets |-> SocketInfoArray[k].sock]
  <2>1. \A k \in 1 .. nTotalSockets : SocketInfoArray[k].sock \in used
    BY RecordFacts DEF IInv, Records
  <2>2. f \in Bijection(1 .. nTotalSockets, used)
    BY <2>1 DEF Bijection, Injection, IsInjective, Surjection, IInv, Records
  <2> QED
    BY <1>1, <2>2, FS_Bijection DEF ExistsBijection
<1>5. /\ used \subseteq others /\ Cardinality(used) <= Cardinality(others)
      /\ Cardinality(used) = Cardinality(others) => used = others
  <2>1. used \subseteq others
    BY SelectAssumption, SocketsAssumption DEF IInv, DescriptorTable, Connected
  <2> HIDE DEF used, others
  <2> QED
    BY <1>3, <2>1, FS_Subset
<1>6. NoFreeFd => used = others
  BY <1>5, SelectAssumption DEF NoFreeFd, IInv, TypeOK, SocketsTypeOK, ListenerOnce, Connected
<1>7. ~ NoFreeFd => used # others
  <2> SUFFICES ASSUME NEW f \in Fds, fdt[f] = Free PROVE f \in others \ used
    BY DEF NoFreeFd
  <2> QED
    BY SelectAssumption, SocketsAssumption DEF IInv, DescriptorTable, Connected
<1> HIDE DEF used, others
<1> QED
  BY <1>1, <1>2, <1>3, <1>4, <1>5, <1>6, <1>7

(* What clients do. *)
LEMMA RemoteRefines == ASSUME EInv, Environment PROVE [Echo!Next]_(Echo!vars)
<1> USE DEF EInv, Echo!vars
<1>1. PICK c \in Clients : Remote(c)
  BY DEF Environment
<1>2. pc' = pc
  BY DEF Environment
<1>3. CASE Connect(c)
  <2>1. pc # "exit"
    BY <1>3, SelectAssumption, SocketsAssumption DEF Connect, Listening, ListenerOnce
  <2>2. Echo!Connect(c)
    BY <1>2, <1>3, <2>1 DEF Connect, Echo!Connect
  <2> QED
    BY <2>2 DEF Echo!Next
<1>4. CASE ClientSend(c)
  <2>1. Echo!Receive(c)
    BY <1>2, <1>4 DEF ClientSend, Echo!Receive
  <2> QED
    BY <2>1 DEF Echo!Next
<1>5. CASE ClientRead(c)
  BY <1>2, <1>5 DEF ClientRead
<1>6. CASE ClientFin(c)
  <2>1. Echo!HangUp(c, "fin")
    BY <1>2, <1>6 DEF ClientFin, Echo!HangUp
  <2> QED
    BY <2>1 DEF Echo!Next
<1>7. CASE ClientReset(c)
  <2>1. Echo!HangUp(c, "rst")
    BY <1>2, <1>7 DEF ClientReset, Echo!HangUp
  <2> QED
    BY <2>1 DEF Echo!Next
<1> QED
  BY <1>1, <1>3, <1>4, <1>5, <1>6, <1>7 DEF Remote

(* A connection is removed only after its client left, and not before what *)
(* arrived ahead of the end of its stream has been echoed.                 *)
LEMMA RemoveRefines ==
    ASSUME EInv, NEW k \in 1 .. nTotalSockets, RecvCall(k) \/ SendCall(k), RemoveSocketInfo(k),
           \/ SocketInfoArray[k].sock \in rset /\ (RecvEof(Owner(k)) \/ RecvFails(Owner(k)))
           \/ /\ SocketInfoArray[k].sock \in wset
              /\ SendFails(Owner(k), SocketInfoArray[k].recvbytes - SocketInfoArray[k].sendbytes)
    PROVE  Echo!Next
<1> USE DEF EInv
<1> DEFINE c == Owner(k)
<1>1. /\ c \in Clients /\ link[c] = "open" /\ taken[c] \in Nat /\ sent[c] \in Nat
      /\ Len(out[c]) \in Nat
  BY RecordFacts DEF IInv, TypeOK, SocketsTypeOK
<1>2. /\ pc = "scan" /\ pc' = pc /\ i = k
  BY DEF RecvCall, SendCall, Scanning, ScanNext
<1>3. /\ link' = [link EXCEPT ![c] = "closed"] /\ peer' = peer /\ sent' = sent /\ out' = out
  BY DEF RemoveSocketInfo, Close, Owner
<1>4. i \in Nat /\ k >= i
  BY <1>2 DEF IInv, TypeOK
<1>5. /\ SocketInfoArray[k].sock \in rset => ~ RecvWouldBlock(c)
      /\ SocketInfoArray[k].sock \in wset => ~ SendWouldBlock(c)
  BY <1>2, <1>4 DEF ReadyWhenUsed
<1>6. peer[c] = "rst" \/ (peer[c] = "fin" /\ Len(out[c]) = sent[c])
  <2>1. CASE /\ SocketInfoArray[k].sock \in rset
             /\ RecvEof(c) \/ RecvFails(c)
    <3>1. peer[c] = "rst" \/ (peer[c] = "fin" /\ Unread(c) = 0)
      BY <1>5, <2>1 DEF RecvEof, RecvFails
    <3>2. ~ Pending(k)
      BY <1>2, <1>4, <2>1 DEF IInv, EmptyWhenRead
    <3>3. taken[c] = Len(out[c])
      <4>1. Booked(SocketInfoArray[k], c, taken[c], Len(out[c]))
        BY DEF IInv, Accounts
      <4>2. SocketInfoArray[k].recvbytes \in Nat /\ SocketInfoArray[k].sendbytes \in Nat
        BY RecordFacts
      <4> QED
        BY <1>1, <3>2, <4>1, <4>2 DEF Pending, Booked
    <3> QED
      BY <1>1, <3>1, <3>3 DEF Unread
  <2>2. CASE /\ SocketInfoArray[k].sock \in wset
             /\ SendFails(c, SocketInfoArray[k].recvbytes - SocketInfoArray[k].sendbytes)
    BY <1>5, <2>2 DEF SendFails, SendWouldBlock
  <2> QED
    BY <2>1, <2>2
<1>7. Echo!Drop(c)
  BY <1>1, <1>2, <1>3, <1>6 DEF Echo!Drop, Echo!Echoed
<1> QED
  BY <1>1, <1>7 DEF Echo!Next

(* send() gives the client the bytes that come next in its stream. *)
LEMMA SendRefines ==
    ASSUME EInv, pc # "exit", pc' = pc, NEW k \in 1 .. nTotalSockets,
           NEW b \in 0 .. (SocketInfoArray[k].recvbytes - SocketInfoArray[k].sendbytes),
           Give(Owner(k), SubSeq(SocketInfoArray[k].buf, SocketInfoArray[k].sendbytes + 1,
                                 SocketInfoArray[k].sendbytes + b))
    PROVE  [Echo!Next]_(Echo!vars)
<1> USE DEF EInv
<1> DEFINE c == Owner(k)
           ptr == SocketInfoArray[k]
           bytes == SubSeq(ptr.buf, ptr.sendbytes + 1, ptr.sendbytes + b)
<1>1. /\ c \in Clients /\ link[c] = "open" /\ taken[c] \in Nat /\ sent[c] \in Nat
      /\ out \in [Clients -> Seq(Bytes)] /\ ptr.buf \in Seq(Bytes) /\ ptr.recvbytes \in Nat
      /\ ptr.sendbytes \in Nat /\ ptr.recvbytes <= Len(ptr.buf)
      /\ taken[c] <= sent[c]
  BY RecordFacts DEF IInv, TypeOK, SocketsTypeOK, ArrivedFirst
<1>2. b \in Nat /\ b <= ptr.recvbytes - ptr.sendbytes
  BY <1>1
<1>3. Booked(ptr, c, taken[c], Len(out[c]))
  BY DEF IInv, Accounts
<1>4. /\ out' = [out EXCEPT ![c] = @ \o bytes] /\ link' = link /\ peer' = peer /\ sent' = sent
  BY DEF Give
<1> HIDE DEF c, ptr
<1>5. Len(out[c]) \in Nat
  BY <1>1
<1>6. bytes = Chunk(c, Len(out[c]), b)
  <2>1. /\ c \in Clients /\ taken[c] \in Nat /\ Len(out[c]) \in Nat
        /\ ptr.buf \in Seq(Bytes) /\ ptr.recvbytes \in Nat /\ ptr.sendbytes \in Nat
        /\ Booked(ptr, c, taken[c], Len(out[c]))
        /\ b \in Nat /\ b <= ptr.recvbytes - ptr.sendbytes
    BY <1>1, <1>2, <1>3, <1>5
  <2> QED
    BY ONLY <2>1, NextBytes, ZenonT(60) DEF bytes
<1> HIDE DEF bytes
<1>7. Len(out[c]) + b <= sent[c] /\ Len(out[c]) \in Nat
  BY <1>1, <1>2, <1>3 DEF Booked
<1>8. CASE b = 0
  <2>1. out[c] \o bytes = out[c]
    <3>1. bytes \in Seq(Bytes) /\ Len(bytes) = 0
      BY <1>1, <1>2, <1>5, <1>6, <1>8, ChunkType
    <3> QED
      BY <1>1, <3>1, EmptySeq
  <2> QED
    BY <1>1, <1>4, <2>1 DEF Echo!vars
<1>9. CASE b # 0
  <2>1. b \in 1 .. (sent[c] - Len(out[c]))
    BY <1>1, <1>2, <1>7, <1>9
  <2>2. Echo!Echo(c, b)
    BY <1>1, <1>4, <1>6, <1>7 DEF Echo!Echo, Echo!Echoed, Chunk
  <2> QED
    BY <1>1, <2>1, <2>2 DEF Echo!Next, Echo!Echoed
<1> QED
  BY <1>8, <1>9

LEMMA StepRefines == ASSUME EInv, [Next]_vars PROVE [Echo!Next]_(Echo!vars)
<1> USE DEF EInv
<1>1. CASE SelectCall \/ ScanEnds \/ \E k \in 1 .. nTotalSockets : Skip(k)
  BY <1>1 DEF SelectCall, ScanEnds, Skip, Scanning, ScanNext, sockets, Echo!vars
<1>2. CASE AcceptCall
  <2>1. PICK c \in Clients, fd \in Fds : nTotalSockets < FD_SETSIZE /\ Accept(listen_sock, c, fd)
    BY <1>2 DEF AcceptCall
  <2>2. /\ pc = "accept" /\ pc' # "exit"
    BY <1>2 DEF AcceptCall, AfterAccept
  <2>3. ~ NoFreeFd
    BY <2>1 DEF Accept, LowestFree, NoFreeFd
  <2>4. Cardinality(Echo!Open) < SmallerOf(FD_SETSIZE, Cardinality(Fds) - 1)
    BY <2>1, <2>2, <2>3, OpenConnections DEF SmallerOf
  <2>5. Echo!Admit(c)
    BY <2>1, <2>2, <2>4, SameCardinality DEF Accept, Backlog, Echo!Admit
  <2> QED
    BY <2>5 DEF Echo!Next
<1>3. CASE AcceptFull
  <2>1. PICK c \in Clients : AcceptAndClose(listen_sock, c)
    BY <1>3 DEF AcceptFull
  <2>2. /\ pc = "accept" /\ pc' # "exit" /\ nTotalSockets >= FD_SETSIZE
    BY <1>3 DEF AcceptFull, AfterAccept
  <2>3. Cardinality(Echo!Open) >= SmallerOf(FD_SETSIZE, Cardinality(Fds) - 1)
    <3>1. /\ Cardinality(Echo!Open) = nTotalSockets
          /\ nTotalSockets \in Nat /\ Cardinality(Fds) \in Nat /\ FD_SETSIZE \in Nat
      BY <2>2, SelectAssumption, OpenConnections
    <3> QED
      BY <2>2, <3>1 DEF SmallerOf
  <2>4. Echo!Refuse(c)
    BY <2>1, <2>2, <2>3, SameCardinality DEF AcceptAndClose, Backlog, Echo!Refuse
  <2> QED
    BY <2>4 DEF Echo!Next
<1>4. CASE AcceptBreaks
  <2>1. pc = "accept" /\ pc' = "exit" /\ CloseAll /\ AcceptFails(listen_sock)
    BY <1>4 DEF AcceptBreaks
  <2>2. \/ Cardinality(Echo!Open) >= SmallerOf(FD_SETSIZE, Cardinality(Fds) - 1)
        \/ \E c \in Clients : link[c] \in {"backlog", "open"} /\ peer[c] = "rst"
    <3>1. CASE NoFreeFd
      <4>1. /\ Cardinality(Echo!Open) = Cardinality(Fds) - 1
            /\ Cardinality(Fds) \in Nat /\ FD_SETSIZE \in Nat
        BY <2>1, <3>1, SelectAssumption, OpenConnections
      <4> QED
        BY <4>1 DEF SmallerOf
    <3>2. CASE ~ NoFreeFd
      BY <2>1, <3>2 DEF AcceptFails, Backlog
    <3> QED
      BY <3>1, <3>2
  <2>3. Echo!Stop
    BY <2>1, <2>2, SameCardinality DEF CloseAll, Echo!Stop
  <2> QED
    BY <2>3 DEF Echo!Next
<1>5. ASSUME NEW k \in 1 .. nTotalSockets, SendKills(k) PROVE [Echo!Next]_(Echo!vars)
  <2>1. pc = "scan" /\ pc' = "exit" /\ CloseAll /\ peer[Owner(k)] = "rst"
    BY <1>5 DEF SendKills, Scanning, SendError
  <2>2. Owner(k) \in Clients /\ link[Owner(k)] = "open"
    BY RecordFacts
  <2>3. Echo!Stop
    BY <2>1, <2>2, SameCardinality DEF CloseAll, Echo!Stop
  <2> QED
    BY <2>3 DEF Echo!Next
<1>6. ASSUME NEW k \in 1 .. nTotalSockets, RecvCall(k) PROVE [Echo!Next]_(Echo!vars)
  <2>1. pc' = pc /\ SocketInfoArray[k].sock \in rset
    BY <1>6 DEF RecvCall, ScanNext
  <2>2. CASE RemoveSocketInfo(k) /\ (RecvEof(Owner(k)) \/ RecvFails(Owner(k)))
    BY <1>6, <2>1, <2>2, RemoveRefines
  <2>3. CASE \E n : Take(Owner(k), n)
    BY <2>1, <2>3 DEF Take, Echo!vars
  <2> QED
    BY <1>6, <2>2, <2>3 DEF RecvCall
<1>7. ASSUME NEW k \in 1 .. nTotalSockets, SendCall(k) PROVE [Echo!Next]_(Echo!vars)
  <2>1. pc = "scan" /\ pc' = pc /\ SocketInfoArray[k].sock \in wset
    BY <1>7 DEF SendCall, Scanning, ScanNext
  <2>2. CASE /\ RemoveSocketInfo(k)
             /\ SendFails(Owner(k), SocketInfoArray[k].recvbytes - SocketInfoArray[k].sendbytes)
    BY <1>7, <2>1, <2>2, RemoveRefines
  <2>3. CASE \E b \in 0 .. (SocketInfoArray[k].recvbytes - SocketInfoArray[k].sendbytes) :
                Give(Owner(k), SubSeq(SocketInfoArray[k].buf, SocketInfoArray[k].sendbytes + 1,
                                      SocketInfoArray[k].sendbytes + b))
    BY <2>1, <2>3, SendRefines
  <2> QED
    BY <1>7, <2>2, <2>3 DEF SendCall
<1>8. CASE Environment
  BY <1>8, RemoteRefines
<1>9. CASE UNCHANGED vars
  BY <1>9 DEF vars, sockets, Echo!vars
<1> QED
  BY <1>1, <1>2, <1>3, <1>4, <1>5, <1>6, <1>7, <1>8, <1>9 DEF Next, Server

(* The select() server is an echo server for as many clients as it has     *)
(* records and descriptors, whatever these numbers and the sizes of the    *)
(* buffers are: nothing is echoed to the wrong client, out of order or     *)
(* twice, nobody is dropped who has not left, and nobody is refused while  *)
(* there is room.                                                          *)
THEOREM RefinesEcho == Spec => ImplementsEcho
<1>1. Init => Echo!Init
  BY DEF Init, SocketsInit, Echo!Init
<1>2. EInv /\ [Next]_vars => [Echo!Next]_(Echo!vars)
  BY StepRefines
<1> QED
  BY <1>1, <1>2, EInvariance, PTL DEF Spec, ImplementsEcho, Echo!Spec
=============================================================================
