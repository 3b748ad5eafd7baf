------------------------ MODULE PollTCPServer_proofs ------------------------
(***************************************************************************)
(* Proofs about module PollTCPServer, for any set of clients and any size  *)
(* of the buffers, the descriptor table and Pollfds.                       *)
(***************************************************************************)
EXTENDS PollTCPServer, TCPSockets_proofs

(* Every open connection has one descriptor of its own. *)
DescriptorTable ==
    /\ \A f, g \in Fds : fdt[f] \in Clients /\ fdt[f] = fdt[g] => f = g
    /\ \A f \in Fds : fdt[f] \in Clients => link[fdt[f]] = "open"
    /\ \A c \in Clients : link[c] = "open" => \E f \in Fds : fdt[f] = c

(* The entries in use are those of the connected descriptors, one each,    *)
(* and each has a record.                                                  *)
Entered ==
    /\ nTotalSockets = IF pc = "exit" THEN 0 ELSE Len(SocketInfoArray) + 1
    /\ \A k \in InUse : Pollfds[k].fd \in Fds /\ fdt[Pollfds[k].fd] \in Clients
    /\ \A f \in Fds : fdt[f] \in Clients => \E k \in InUse : Pollfds[k].fd = f
    /\ \A j, k \in InUse : Pollfds[j].fd = Pollfds[k].fd => j = k

(* The books of the records and of the clients without one. *)
Accounts ==
    /\ \A c \in Clients :
          link[c] \in {"new", "backlog"} => taken[c] = 0 /\ out[c] = <<>>
    /\ \A c \in Clients : \A m \in 1 .. Len(out[c]) : out[c][m] = <<c, m>>
    /\ \A k \in InUse :
          Booked(SocketInfoArray[k], Owner(k), taken[Owner(k)], Len(out[Owner(k)]))

(* What the revents of an entry say of its record, be they those of poll() *)
(* or left by the last user: it is read from only when its buffer is       *)
(* empty, and written to, when there is something to send, only when that  *)
(* will not block.                                                         *)
EntryHolds(k) ==
    /\ "POLLIN" \in Pollfds[k].revents => ~ Pending(k)
    /\ "POLLOUT" \in Pollfds[k].revents /\ Pending(k) => ~ SendWouldBlock(Owner(k))

(* It stays so until the data loop comes to the entry. *)
EventsHold ==
    pc \in {"accept", "scan"} => \A k \in InUse : k >= i => EntryHolds(k)

(* --nready after accept() does not go below zero. *)
Counted == pc = "accept" => nready > 0

IInv == TypeOK /\ DescriptorTable /\ Entered /\ Accounts /\ EventsHold /\ Counted

-----------------------------------------------------------------------------
(* What the invariant says of one entry. *)
LEMMA EntryFacts ==
    ASSUME IInv, NEW k \in InUse
    PROVE  /\ pc # "exit" /\ nTotalSockets \in 1 .. FD_SETSIZE /\ FD_SETSIZE \in Nat
           /\ k \in Entries /\ k \in Nat /\ k # 0
           /\ nTotalSockets = Len(SocketInfoArray) + 1
           /\ k \in 1 .. Len(SocketInfoArray) /\ SocketInfoArray[k] \in SOCKETINFO
           /\ SocketInfoArray[k].buf \in Seq(Bytes)
           /\ SocketInfoArray[k].recvbytes \in Nat /\ SocketInfoArray[k].sendbytes \in Nat
           /\ Pollfds[k] \in pollfd /\ Pollfds[k].fd \in Fds
           /\ Owner(k) \in Clients /\ link[Owner(k)] = "open"
           /\ taken[Owner(k)] \in Nat /\ out[Owner(k)] \in Seq(Bytes)
           /\ Len(out[Owner(k)]) \in Nat
           /\ Booked(SocketInfoArray[k], Owner(k), taken[Owner(k)], Len(out[Owner(k)]))
<1>1. /\ SocketInfoArray \in Seq(SOCKETINFO) /\ nTotalSockets \in 0 .. FD_SETSIZE
      /\ Pollfds \in [Entries -> pollfd] /\ FD_SETSIZE \in Nat
  BY PollAssumption DEF IInv, TypeOK
<1>2. /\ pc # "exit" /\ nTotalSockets = Len(SocketInfoArray) + 1 /\ Len(SocketInfoArray) \in Nat
  BY <1>1 DEF IInv, Entered, InUse
<1>3. /\ nTotalSockets \in 1 .. FD_SETSIZE /\ k \in Entries /\ k \in Nat /\ k # 0
      /\ k \in 1 .. Len(SocketInfoArray)
  BY <1>1, <1>2 DEF InUse, Entries
<1>4. SocketInfoArray[k] \in SOCKETINFO /\ Pollfds[k] \in pollfd
  BY <1>1, <1>3
<1>5. Pollfds[k].fd \in Fds /\ Owner(k) \in Clients
  BY DEF IInv, Entered, Owner
<1>6. /\ link[Owner(k)] = "open" /\ taken[Owner(k)] \in Nat /\ out[Owner(k)] \in Seq(Bytes)
  BY <1>5 DEF IInv, TypeOK, SocketsTypeOK, DescriptorTable, Owner
<1>7. Booked(SocketInfoArray[k], Owner(k), taken[Owner(k)], Len(out[Owner(k)]))
  BY DEF IInv, Accounts
<1>8. /\ SocketInfoArray[k].buf \in Seq(Bytes)
      /\ SocketInfoArray[k].recvbytes \in Nat /\ SocketInfoArray[k].sendbytes \in Nat
  BY <1>4 DEF SOCKETINFO
<1>9. Len(out[Owner(k)]) \in Nat
  BY <1>6
<1> QED
  BY <1>1, <1>2, <1>3, <1>4, <1>5, <1>6, <1>7, <1>8, <1>9

(* Different entries belong to different clients. *)
LEMMA OwnersDiffer ==
    ASSUME IInv, NEW j \in InUse, NEW k \in InUse, j # k
    PROVE  Pollfds[j].fd # Pollfds[k].fd /\ Owner(j) # Owner(k)
<1>1. /\ Pollfds[j].fd \in Fds /\ Pollfds[k].fd \in Fds
      /\ Owner(j) \in Clients /\ Owner(k) \in Clients
  BY EntryFacts
<1> QED
  BY <1>1 DEF IInv, DescriptorTable, Entered, Owner

LEMMA InitIInv == Init => IInv
<1> SUFFICES ASSUME Init PROVE IInv
  OBVIOUS
<1>1. /\ link = [c \in Clients |-> "new"] /\ peer = [c \in Clients |-> "up"]
      /\ sent = [c \in Clients |-> 0] /\ taken = [c \in Clients |-> 0]
      /\ out = [c \in Clients |-> <<>>] /\ got = [c \in Clients |-> 0]
  BY DEF Init, SocketsInit
<1>2. fdt = [fd \in Fds |-> IF fd = listenfd THEN listen_sock ELSE Free]
  <2>1. \A fd : (\E l \in Listeners : [m \in Listeners |-> listenfd][l] = fd) <=> fd = listenfd
    BY PollAssumption
  <2>2. (CHOOSE l \in Listeners : [m \in Listeners |-> listenfd][l] = listenfd) = listen_sock
    BY PollAssumption
  <2> QED
    BY <2>1, <2>2 DEF Init, SocketsInit
<1>3. /\ listenfd \in Fds /\ listen_sock \notin Clients /\ Free \notin Clients
      /\ FD_SETSIZE \in Nat \ {0}
  BY PollAssumption, SocketsAssumption DEF listenfd, Fds
<1>4. /\ pc = "poll" /\ SocketInfoArray = <<>> /\ nTotalSockets = 1 /\ nready = 0 /\ i = 1
  BY DEF Init
<1>5. SocketsTypeOK
  <2>1. fdt \in [Fds -> Clients \cup Listeners \cup {Free}]
    BY <1>2, PollAssumption
  <2>2. out \in [Clients -> Seq(Bytes)]
    BY <1>1
  <2> QED
    BY <1>1, <2>1, <2>2 DEF SocketsTypeOK
<1>6. Pollfds \in [Entries -> pollfd]
  <2>1. /\ [fd |-> listenfd, events |-> {"POLLIN"}, revents |-> {}] \in pollfd
        /\ [fd |-> 0, events |-> {}, revents |-> {}] \in pollfd
    BY <1>3 DEF pollfd, PollEvents
  <2> QED
    BY <2>1 DEF Init
<1>7. TypeOK
  BY <1>3, <1>4, <1>5, <1>6 DEF TypeOK
<1>8. InUse = {}
  BY <1>4 DEF InUse
<1>9. \A f \in Fds : fdt[f] \notin Clients
  BY <1>2, <1>3
<1>10. DescriptorTable
  BY <1>1, <1>9 DEF DescriptorTable
<1>11. Entered
  BY <1>4, <1>8, <1>9 DEF Entered
<1>12. Accounts
  BY <1>1, <1>8 DEF Accounts
<1> QED
  BY <1>4, <1>7, <1>8, <1>10, <1>11, <1>12 DEF IInv, EventsHold, Counted

-----------------------------------------------------------------------------
(* The steps that change neither the sockets nor the records. *)

(* poll() and the end of the data loop change events and revents only. *)
LEMMA ControlStep ==
    ASSUME IInv, UNCHANGED <<sockets, nTotalSockets, SocketInfoArray>>, pc # "exit", pc' # "exit",
           Pollfds' \in [Entries -> pollfd],
           \A k \in InUse : Pollfds'[k].fd = Pollfds[k].fd,
           pc' \in {"poll", "accept", "scan"}, nready' \in Nat, i' \in Nat \ {0},
           EventsHold', Counted'
    PROVE  IInv'
<1>1. /\ link' = link /\ peer' = peer /\ sent' = sent /\ taken' = taken /\ out' = out
      /\ got' = got /\ fdt' = fdt /\ InUse' = InUse
  BY DEF sockets, InUse
<1>2. TypeOK'
  BY <1>1 DEF IInv, TypeOK, SocketsTypeOK
<1>3. DescriptorTable'
  BY <1>1 DEF IInv, DescriptorTable
<1>4. Entered'
  BY <1>1 DEF IInv, Entered
<1>5. Accounts'
  BY <1>1 DEF IInv, Accounts, Owner
<1> QED
  BY <1>2, <1>3, <1>4, <1>5 DEF IInv

LEMMA PollStep == ASSUME IInv, PollCall PROVE IInv'
<1> DEFINE events(k) == IF k = 0 THEN {"POLLIN"}
                        ELSE IF Pending(k) THEN {"POLLOUT"} ELSE {"POLLIN"}
           revents(k) == events(k) \cap ReadyEvents(k)
           ready == {k \in 0 .. (nTotalSockets - 1) : revents(k) # {}}
<1>1. /\ pc = "poll" /\ ready # {} /\ nready' = Cardinality(ready) /\ i' = 1
      /\ pc' \in {"accept", "scan"}
      /\ UNCHANGED <<sockets, nTotalSockets, SocketInfoArray>>
  BY DEF PollCall
<1>2. Pollfds' = [k \in Entries |->
                   IF k < nTotalSockets
                   THEN [Pollfds[k] EXCEPT !.events = events(k), !.revents = revents(k)]
                   ELSE Pollfds[k]]
  BY DEF PollCall
<1>3. \A k : events(k) \subseteq PollEvents /\ revents(k) \subseteq PollEvents
  BY DEF PollEvents
<1>4. nready' \in Nat /\ nready' > 0
  <2>1. nTotalSockets \in Nat /\ 0 \in Int /\ nTotalSockets - 1 \in Int
    BY PollAssumption DEF IInv, TypeOK
  <2>2. IsFiniteSet(0 .. (nTotalSockets - 1))
    BY <2>1, FS_Interval
  <2>3. ready \subseteq 0 .. (nTotalSockets - 1)
    OBVIOUS
  <2> HIDE DEF ready
  <2>4. IsFiniteSet(ready)
    BY <2>2, <2>3, FS_Subset
  <2>5. Cardinality(ready) \in Nat /\ Cardinality(ready) # 0
    <3>1. ready # {}
      BY <1>1
    <3> QED
      BY <2>4, <3>1, FS_CardinalityType, FS_EmptySet
  <2> HIDE DEF events, revents
  <2> QED
    BY <1>1, <2>5
<1> HIDE DEF ready
<1>5. \A k \in Entries : Pollfds[k] \in pollfd
  BY DEF IInv, TypeOK
<1>6. Pollfds' \in [Entries -> pollfd]
  <2>1. ASSUME NEW k \in Entries
        PROVE  [Pollfds[k] EXCEPT !.events = events(k), !.revents = revents(k)] \in pollfd
    <3> HIDE DEF events, revents
    <3> QED
      BY <1>3, <1>5 DEF pollfd
  <2> QED
    BY <1>2, <1>5, <2>1
<1>7. ASSUME NEW k \in InUse
      PROVE  /\ Pollfds'[k].fd = Pollfds[k].fd
             /\ Pollfds'[k].revents = revents(k) /\ k # 0
  <2>1. k \in Entries /\ k # 0 /\ k < nTotalSockets
    BY EntryFacts DEF InUse
  <2>2. Pollfds'[k] = [Pollfds[k] EXCEPT !.events = events(k), !.revents = revents(k)]
    BY <1>2, <2>1
  <2> HIDE DEF events, revents
  <2> QED
    BY <1>5, <2>1, <2>2 DEF pollfd
<1>8. ASSUME NEW k \in InUse
      PROVE  /\ "POLLIN" \in revents(k) => ~ Pending(k)
             /\ "POLLOUT" \in revents(k) => ~ SendWouldBlock(Owner(k))
  <2>1. k # 0
    BY <1>7
  <2>2. "POLLOUT" \in revents(k) => Writable(Owner(k))
    BY <2>1 DEF ReadyEvents
  <2>3. /\ Owner(k) \in Clients /\ Len(out[Owner(k)]) \in Nat /\ got[Owner(k)] \in Nat
        /\ SNDBUF \in Nat
    BY EntryFacts, SocketsAssumption DEF IInv, TypeOK, SocketsTypeOK
  <2> QED
    BY <2>1, <2>2, <2>3 DEF Writable, SendWouldBlock, SendSpace
<1> HIDE DEF events, revents
<1>9. EventsHold'
  <2>1. InUse' = InUse
    BY <1>1 DEF InUse
  <2>2. \A k \in InUse : /\ Pending(k)' = Pending(k)
                         /\ SendWouldBlock(Owner(k))' = SendWouldBlock(Owner(k))
    BY <1>1, <1>7 DEF Pending, SendWouldBlock, SendSpace, Owner, sockets
  <2> QED
    BY <1>7, <1>8, <2>1, <2>2 DEF EventsHold, EntryHolds
<1>10. Counted'
  BY <1>4 DEF Counted
<1>11. /\ pc # "exit" /\ pc' # "exit" /\ pc' \in {"poll", "accept", "scan"} /\ i' \in Nat \ {0}
       /\ UNCHANGED <<sockets, nTotalSockets, SocketInfoArray>>
  BY <1>1
<1>12. \A k \in InUse : Pollfds'[k].fd = Pollfds[k].fd
  BY <1>7
<1> QED
  BY <1>4, <1>6, <1>9, <1>10, <1>11, <1>12, ControlStep

LEMMA SkipStep == ASSUME IInv, NEW k \in InUse, Skip(k) PROVE IInv'
<1>1. /\ pc = "scan" /\ pc' = pc /\ nready' = nready /\ i' = i + 1
      /\ UNCHANGED <<sockets, SocketInfoArray, Pollfds, nTotalSockets>>
      /\ nready \in Nat /\ i \in Nat /\ i # 0 /\ Pollfds \in [Entries -> pollfd]
  BY DEF Skip, Scanning, ScanNext, IInv, TypeOK
<1>2. EventsHold'
  <2>1. /\ InUse' = InUse
        /\ \A j \in InUse : j >= i + 1 => j >= i
        /\ \A j \in InUse : EntryHolds(j)' = EntryHolds(j)
    BY <1>1, EntryFacts DEF InUse, EntryHolds, Pending, SendWouldBlock, SendSpace, Owner, sockets
  <2> QED
    BY <1>1, <2>1 DEF IInv, EventsHold
<1> QED
  BY <1>1, <1>2, ControlStep DEF Counted

LEMMA ScanEndsStep == ASSUME IInv, ScanEnds PROVE IInv'
<1>1. /\ pc = "scan" /\ pc' = "poll" /\ nready' = nready /\ i' = i
      /\ UNCHANGED <<sockets, SocketInfoArray, Pollfds, nTotalSockets>>
      /\ nready \in Nat /\ i \in Nat \ {0} /\ Pollfds \in [Entries -> pollfd]
  BY DEF ScanEnds, IInv, TypeOK
<1> QED
  BY <1>1, ControlStep DEF EventsHold, Counted

(* The steps of the clients. *)
LEMMA RemoteStep == ASSUME IInv, Environment PROVE IInv'
<1>1. PICK c \in Clients : Remote(c)
  BY DEF Environment
<1>2. /\ pc' = pc /\ nTotalSockets' = nTotalSockets /\ SocketInfoArray' = SocketInfoArray
      /\ Pollfds' = Pollfds /\ nready' = nready /\ i' = i /\ InUse' = InUse
  BY DEF Environment, server, InUse
<1>3. SocketsTypeOK
  BY DEF IInv, TypeOK
<1>4. /\ SocketsTypeOK' /\ taken' = taken /\ out' = out /\ fdt' = fdt
      /\ \A d \in Clients : /\ link'[d] = "open" <=> link[d] = "open"
                            /\ link'[d] \in {"new", "backlog"} => link[d] \in {"new", "backlog"}
  BY <1>1, <1>3, RemoteFrame
<1>5. TypeOK'
  BY <1>2, <1>4 DEF IInv, TypeOK
<1>6. DescriptorTable'
  BY <1>4 DEF IInv, DescriptorTable
<1>7. Entered'
  BY <1>2, <1>4 DEF IInv, Entered
<1>8. Accounts'
  BY <1>2, <1>4 DEF IInv, Accounts, Owner
<1>9. EventsHold'
  <2>1. \A d \in Clients : ~ SendWouldBlock(d) => ~ SendWouldBlock(d)'
    BY <1>1, <1>3, RemoteKeepsReady
  <2>2. \A k \in InUse : /\ Owner(k)' = Owner(k) /\ Owner(k) \in Clients
                         /\ Pending(k)' = Pending(k)
    BY <1>2, <1>4, EntryFacts DEF Owner, Pending
  <2>3. \A k \in InUse : ~ SendWouldBlock(Owner(k)) => ~ SendWouldBlock(Owner(k))'
    BY <2>1, <2>2 DEF SendWouldBlock, SendSpace
  <2> QED
    BY <1>2, <2>2, <2>3 DEF IInv, EventsHold, EntryHolds
<1> QED
  BY <1>2, <1>5, <1>6, <1>7, <1>8, <1>9 DEF IInv, Counted

-----------------------------------------------------------------------------
(* The steps that add, change or remove an entry. *)

LEMMA AfterAcceptControl ==
    ASSUME IInv, pc = "accept", AfterAccept
    PROVE  pc' \in {"poll", "scan"} /\ i' = i /\ nready' \in Nat /\ i \in Nat \ {0}
  BY DEF AfterAccept, IInv, TypeOK, Counted

(* accept() and AddSocketInfo(): the entry is not used for a record with   *)
(* something to send, so its old revents do no harm to the books.          *)
LEMMA AcceptStep == ASSUME IInv, AcceptCall PROVE IInv'
<1> DEFINE n == nTotalSockets
           old == Pollfds[n]
<1>1. PICK c \in Clients, fd \in Fds : Accept(listen_sock, c, fd) /\ AddSocketInfo(fd)
  BY DEF AcceptCall
<1>2. /\ link[c] = "backlog" /\ fdt[fd] = Free
      /\ link' = [link EXCEPT ![c] = "open"] /\ fdt' = [fdt EXCEPT ![fd] = c]
      /\ peer' = peer /\ sent' = sent /\ taken' = taken /\ out' = out /\ got' = got
  BY <1>1 DEF Accept, Backlog, LowestFree
<1>3. /\ pc = "accept" /\ pc' \in {"poll", "scan"} /\ i' = i /\ nready' \in Nat
      /\ i \in Nat \ {0}
  BY AfterAcceptControl DEF AcceptCall
<1>4. /\ FD_SETSIZE \in Nat /\ n \in Nat /\ n < FD_SETSIZE /\ n = Len(SocketInfoArray) + 1
      /\ SocketInfoArray \in Seq(SOCKETINFO) /\ Len(SocketInfoArray) \in Nat
      /\ n # 0 /\ n \in Entries
  <2>1. /\ FD_SETSIZE \in Nat /\ n \in Nat /\ n < FD_SETSIZE /\ n = Len(SocketInfoArray) + 1
        /\ SocketInfoArray \in Seq(SOCKETINFO) /\ Len(SocketInfoArray) \in Nat
    BY <1>3, PollAssumption DEF AcceptCall, IInv, TypeOK, Entered
  <2> QED
    BY <2>1 DEF Entries
<1>5. Pollfds \in [Entries -> pollfd] /\ old \in pollfd
  BY <1>4 DEF IInv, TypeOK
<1>6. /\ SocketInfoArray' = Append(SocketInfoArray, NewSocketInfo) /\ nTotalSockets' = n + 1
      /\ Pollfds' = [Pollfds EXCEPT ![n] = [old EXCEPT !.fd = fd, !.events = {"POLLIN"}]]
  BY <1>1, <1>4, <1>5 DEF AddSocketInfo
<1>7. [old EXCEPT !.fd = fd, !.events = {"POLLIN"}] \in pollfd
  BY <1>5 DEF pollfd, PollEvents
<1>8. /\ Pollfds' \in [Entries -> pollfd] /\ Pollfds'[n].fd = fd
      /\ \A k \in Entries \ {n} : Pollfds'[k] = Pollfds[k]
  <2>1. [old EXCEPT !.fd = fd, !.events = {"POLLIN"}].fd = fd
    BY <1>5 DEF pollfd
  <2> QED
    BY <1>4, <1>5, <1>6, <1>7, <2>1
<1>9. /\ NewSocketInfo \in SOCKETINFO /\ NewSocketInfo.recvbytes = 0
      /\ NewSocketInfo.sendbytes = 0 /\ NewSocketInfo.buf = <<>>
  BY DEF NewSocketInfo, SOCKETINFO
<1>10. /\ SocketInfoArray' \in Seq(SOCKETINFO) /\ Len(SocketInfoArray') = n
       /\ \A k \in 1 .. (n - 1) : SocketInfoArray'[k] = SocketInfoArray[k]
       /\ SocketInfoArray'[n] = NewSocketInfo
  BY <1>4, <1>6, <1>9
<1>11. /\ fdt' \in [Fds -> Clients \cup Listeners \cup {Free}] /\ fdt'[fd] = c
       /\ \A f \in Fds \ {fd} : fdt'[f] = fdt[f]
       /\ link' \in [Clients -> {"new", "backlog", "open", "closed"}] /\ link'[c] = "open"
       /\ \A d \in Clients \ {c} : link'[d] = link[d]
  BY <1>2 DEF IInv, TypeOK, SocketsTypeOK
<1>12. Free \notin Clients
  BY SocketsAssumption
<1> HIDE DEF n, old
<1>13. InUse = 1 .. (n - 1) /\ InUse' = InUse \cup {n} /\ n \notin InUse
  BY <1>4, <1>6 DEF InUse, n
<1>14. \A k \in InUse : /\ Pollfds'[k] = Pollfds[k] /\ SocketInfoArray'[k] = SocketInfoArray[k]
                        /\ Pollfds[k].fd \in Fds \ {fd} /\ Owner(k) \in Clients
                        /\ Owner(k)' = Owner(k)
  <2>1. \A k \in InUse : /\ Pollfds'[k] = Pollfds[k] /\ SocketInfoArray'[k] = SocketInfoArray[k]
                         /\ Pollfds[k].fd \in Fds /\ Owner(k) \in Clients
    BY <1>8, <1>10, <1>13, EntryFacts
  <2>2. \A k \in InUse : Pollfds[k].fd # fd
    BY <1>2, <1>12, <2>1 DEF Owner
  <2> QED
    BY <1>11, <2>1, <2>2 DEF Owner
<1>15. TypeOK'
  <2>1. nTotalSockets' \in 0 .. FD_SETSIZE
    BY <1>4, <1>6
  <2> QED
    BY <1>2, <1>3, <1>8, <1>10, <1>11, <2>1 DEF IInv, TypeOK, SocketsTypeOK
<1>16. DescriptorTable'
  BY <1>2, <1>11, <1>12 DEF IInv, DescriptorTable
<1>17. Entered'
  <2>1. nTotalSockets' = Len(SocketInfoArray') + 1 /\ pc' # "exit"
    BY <1>3, <1>6, <1>10
  <2>2. \A k \in InUse' : Pollfds'[k].fd \in Fds /\ fdt'[Pollfds'[k].fd] \in Clients
    BY <1>8, <1>11, <1>13, <1>14 DEF Owner
  <2>3. ASSUME NEW f \in Fds, fdt'[f] \in Clients
        PROVE  \E k \in InUse' : Pollfds'[k].fd = f
    <3>1. CASE f = fd
      BY <1>8, <1>13, <3>1
    <3>2. CASE f # fd
      <4>1. PICK k \in InUse : Pollfds[k].fd = f
        BY <1>11, <2>3, <3>2 DEF IInv, Entered
      <4> QED
        BY <1>13, <1>14, <4>1
    <3> QED
      BY <3>1, <3>2
  <2>4. \A j, k \in InUse' : Pollfds'[j].fd = Pollfds'[k].fd => j = k
    BY <1>8, <1>13, <1>14 DEF IInv, Entered
  <2> QED
    BY <2>1, <2>2, <2>3, <2>4 DEF Entered
<1>18. taken[c] = 0 /\ out[c] = <<>>
  BY <1>2 DEF IInv, Accounts
<1>19. fdt'[Pollfds'[n].fd] = c
  BY <1>8, <1>11
<1>20. Accounts'
  <2>1. \A d \in Clients : link'[d] \in {"new", "backlog"} => taken'[d] = 0 /\ out'[d] = <<>>
    BY <1>2, <1>11 DEF IInv, Accounts
  <2>2. \A d \in Clients : \A m \in 1 .. Len(out'[d]) : out'[d][m] = <<d, m>>
    BY <1>2 DEF IInv, Accounts
  <2>3. Booked(NewSocketInfo, c, 0, 0)
    BY <1>9 DEF Booked
  <2>4. Len(out[c]) = 0
    BY <1>18
  <2>5. Booked(SocketInfoArray'[n], c, taken[c], Len(out[c]))
    BY <1>10, <1>18, <2>3, <2>4
  <2>6. ASSUME NEW k \in InUse'
        PROVE  Booked(SocketInfoArray'[k], Owner(k)', taken[Owner(k)'], Len(out[Owner(k)']))
    <3>1. CASE k = n
      BY <1>19, <2>5, <3>1 DEF Owner
    <3>2. CASE k \in InUse
      BY <1>14, <3>2 DEF IInv, Accounts
    <3> QED
      BY <1>13, <3>1, <3>2
  <2> QED
    BY <1>2, <2>1, <2>2, <2>6 DEF Accounts
<1>21. EventsHold'
  <2>1. ~ (SocketInfoArray'[n].recvbytes > SocketInfoArray'[n].sendbytes)
    BY <1>9, <1>10
  <2>2. \A k \in InUse : EntryHolds(k)' = EntryHolds(k)
    BY <1>2, <1>14 DEF EntryHolds, Pending, SendWouldBlock, SendSpace
  <2>3. ASSUME NEW k \in InUse', k >= i PROVE EntryHolds(k)'
    <3>1. CASE k = n
      BY <2>1, <3>1 DEF EntryHolds, Pending
    <3>2. CASE k \in InUse
      BY <1>3, <2>2, <2>3, <3>2 DEF IInv, EventsHold
    <3> QED
      BY <1>13, <3>1, <3>2
  <2> QED
    BY <1>3, <2>3 DEF EventsHold
<1> QED
  BY <1>3, <1>15, <1>16, <1>17, <1>20, <1>21 DEF IInv, Counted

(* AddSocketInfo() has no room and the new socket is closed. *)
LEMMA AcceptFullStep == ASSUME IInv, AcceptFull PROVE IInv'
<1>1. PICK c \in Clients : AcceptAndClose(listen_sock, c)
  BY DEF AcceptFull
<1>2. /\ link[c] = "backlog" /\ link' = [link EXCEPT ![c] = "closed"] /\ peer' = peer
      /\ sent' = sent /\ taken' = taken /\ out' = out /\ got' = got /\ fdt' = fdt
      /\ SocketInfoArray' = SocketInfoArray /\ Pollfds' = Pollfds
      /\ nTotalSockets' = nTotalSockets /\ InUse' = InUse
  BY <1>1 DEF AcceptFull, AcceptAndClose, Backlog, InUse
<1>3. /\ pc = "accept" /\ pc' \in {"poll", "scan"} /\ i' = i /\ nready' \in Nat
      /\ i \in Nat \ {0}
  BY AfterAcceptControl DEF AcceptFull
<1>4. TypeOK'
  BY <1>2, <1>3 DEF IInv, TypeOK, SocketsTypeOK
<1>5. \A d \in Clients : /\ link'[d] = "open" <=> link[d] = "open"
                         /\ link'[d] \in {"new", "backlog"} => link[d] \in {"new", "backlog"}
  BY <1>2 DEF IInv, TypeOK, SocketsTypeOK
<1>6. DescriptorTable'
  BY <1>2, <1>5 DEF IInv, DescriptorTable
<1>7. Entered'
  BY <1>2, <1>3 DEF IInv, Entered
<1>8. Accounts'
  BY <1>2, <1>5 DEF IInv, Accounts, Owner
<1>9. EventsHold'
  <2>1. \A k \in InUse : EntryHolds(k)' = EntryHolds(k)
    BY <1>2 DEF EntryHolds, Pending, SendWouldBlock, SendSpace, Owner
  <2> QED
    BY <1>2, <1>3, <2>1 DEF IInv, EventsHold
<1> QED
  BY <1>3, <1>4, <1>6, <1>7, <1>8, <1>9 DEF IInv, Counted

(* The process ends. *)
LEMMA ExitStep == ASSUME IInv, Exit PROVE IInv'
<1>1. /\ link' = [c \in Clients |-> IF link[c] \in {"backlog", "open"} THEN "closed" ELSE link[c]]
      /\ fdt' = [fd \in Fds |-> Free] /\ peer' = peer /\ sent' = sent
      /\ taken' = taken /\ out' = out /\ got' = got
      /\ pc' = "exit" /\ nTotalSockets' = 0 /\ SocketInfoArray' = <<>>
      /\ Pollfds' = Pollfds /\ nready' = nready /\ i' = i
  BY DEF Exit, CloseAll
<1>2. Free \notin Clients /\ FD_SETSIZE \in Nat
  BY SocketsAssumption, PollAssumption
<1>3. InUse' = {}
  BY <1>1 DEF InUse
<1>4. TypeOK'
  <2>1. link' \in [Clients -> {"new", "backlog", "open", "closed"}]
    BY <1>1 DEF IInv, TypeOK, SocketsTypeOK
  <2>2. SocketInfoArray' \in Seq(SOCKETINFO)
    BY <1>1
  <2>3. fdt' \in [Fds -> Clients \cup Listeners \cup {Free}]
    BY <1>1
  <2> QED
    BY <1>1, <1>2, <2>1, <2>2, <2>3 DEF IInv, TypeOK, SocketsTypeOK
<1>5. \A c \in Clients : /\ link'[c] # "open"
                         /\ link'[c] \in {"new", "backlog"} => link[c] \in {"new", "backlog"}
  BY <1>1
<1>6. \A f \in Fds : fdt'[f] \notin Clients
  BY <1>1, <1>2
<1>7. DescriptorTable'
  BY <1>5, <1>6 DEF DescriptorTable
<1>8. Entered'
  BY <1>1, <1>3, <1>6 DEF Entered
<1>9. Accounts'
  BY <1>1, <1>3, <1>5 DEF IInv, Accounts
<1> QED
  BY <1>1, <1>4, <1>7, <1>8, <1>9 DEF IInv, EventsHold, Counted

(* RemoveSocketInfo() of the entry the data loop has come to. *)
LEMMA RemoveStep ==
    ASSUME IInv, NEW k \in InUse, RemoveSocketInfo(k),
           pc = "scan", i = k, i' = i + 1, UNCHANGED <<pc, nready>>
    PROVE  IInv'
<1> DEFINE last == nTotalSockets - 1
           fd == Pollfds[k].fd
           c == Owner(k)
           from(j) == IF j = k THEN last ELSE j
<1>1. /\ link' = [link EXCEPT ![c] = "closed"] /\ fdt' = [fdt EXCEPT ![fd] = Free]
      /\ peer' = peer /\ sent' = sent /\ taken' = taken /\ out' = out /\ got' = got
      /\ nTotalSockets' = last /\ Pollfds' = [Pollfds EXCEPT ![k] = Pollfds[last]]
  BY DEF RemoveSocketInfo, Close, Owner
<1>2. /\ last \in Nat /\ last = Len(SocketInfoArray) /\ last \in InUse /\ last \in Entries
      /\ k \in 1 .. last /\ k \in Entries /\ nTotalSockets \in 1 .. FD_SETSIZE
      /\ FD_SETSIZE \in Nat /\ InUse = 1 .. last /\ k \in Nat
      /\ fd \in Fds /\ c \in Clients /\ fdt[fd] = c
  <2>1. /\ last = Len(SocketInfoArray) /\ k \in 1 .. last /\ k \in Entries
        /\ nTotalSockets \in 1 .. FD_SETSIZE /\ FD_SETSIZE \in Nat /\ k \in Nat
        /\ fd \in Fds /\ c \in Clients /\ fdt[fd] = c
    BY EntryFacts DEF Owner
  <2>2. last \in Nat /\ InUse = 1 .. last /\ last \in InUse
    BY <2>1 DEF InUse
  <2> QED
    BY <2>1, <2>2, EntryFacts
<1>3. /\ SocketInfoArray' \in Seq(SOCKETINFO) /\ Len(SocketInfoArray') = last - 1
      /\ \A j \in 1 .. (last - 1) : SocketInfoArray'[j] = SocketInfoArray[from(j)]
  <2>1. SocketInfoArray \in Seq(SOCKETINFO) /\ k \in 1 .. Len(SocketInfoArray)
    BY <1>2 DEF IInv, TypeOK
  <2>2. nTotalSockets - 2 = Len(SocketInfoArray) - 1
    BY <1>2
  <2>3. SocketInfoArray' = [j \in 1 .. (Len(SocketInfoArray) - 1) |->
                              SocketInfoArray[IF j = k THEN Len(SocketInfoArray) ELSE j]]
    BY <1>2, <2>2 DEF RemoveSocketInfo
  <2> HIDE DEF last
  <2>4. /\ SocketInfoArray' \in Seq(SOCKETINFO)
        /\ Len(SocketInfoArray') = Len(SocketInfoArray) - 1
        /\ \A j \in 1 .. Len(SocketInfoArray') :
              SocketInfoArray'[j] = SocketInfoArray[IF j = k THEN Len(SocketInfoArray) ELSE j]
    BY <2>1, <2>3, Compaction
  <2> QED
    BY <1>2, <2>4
<1>4. InUse' = 1 .. (last - 1)
  BY <1>1 DEF InUse
<1> HIDE DEF last
<1>5. /\ \A j \in InUse' : from(j) \in InUse /\ from(j) # k
      /\ \A j, m \in InUse' : from(j) = from(m) => j = m
  BY <1>2, <1>4
<1>6. ASSUME NEW m \in InUse, m # k PROVE \E j \in InUse' : from(j) = m
  <2>1. CASE m = last
    <3>1. k \in InUse' /\ from(k) = m
      BY <1>2, <1>4, <1>6, <2>1
    <3> QED
      BY <3>1
  <2>2. CASE m # last
    <3>1. m \in InUse' /\ from(m) = m
      BY <1>2, <1>4, <1>6, <2>2
    <3> QED
      BY <3>1
  <2> QED
    BY <2>1, <2>2
<1> HIDE DEF fd, c
<1>7. /\ Pollfds' \in [Entries -> pollfd]
      /\ \A j \in InUse' : Pollfds'[j] = Pollfds[from(j)]
  <2>1. Pollfds \in [Entries -> pollfd] /\ \A j \in InUse' : j \in Entries
    BY <1>2, <1>4 DEF IInv, TypeOK, Entries
  <2> QED
    BY <1>1, <1>2, <2>1
<1>8. /\ fdt' \in [Fds -> Clients \cup Listeners \cup {Free}] /\ fdt'[fd] = Free
      /\ \A f \in Fds \ {fd} : fdt'[f] = fdt[f]
      /\ link' \in [Clients -> {"new", "backlog", "open", "closed"}] /\ link'[c] = "closed"
      /\ \A d \in Clients \ {c} : link'[d] = link[d]
  BY <1>1, <1>2 DEF IInv, TypeOK, SocketsTypeOK
<1>9. Free \notin Clients
  BY SocketsAssumption
<1> HIDE DEF from
<1>10. \A j \in InUse' : /\ Pollfds'[j] = Pollfds[from(j)] /\ from(j) \in InUse
                         /\ SocketInfoArray'[j] = SocketInfoArray[from(j)]
                         /\ Pollfds[from(j)].fd \in Fds \ {fd}
                         /\ Owner(from(j)) \in Clients
                         /\ fdt'[Pollfds'[j].fd] = Owner(from(j))
  <2>1. \A j \in InUse' : /\ Pollfds[from(j)].fd \in Fds /\ Pollfds[from(j)].fd # fd
                          /\ Owner(from(j)) \in Clients
    BY <1>5, EntryFacts, OwnersDiffer DEF fd
  <2> QED
    BY <1>3, <1>4, <1>5, <1>7, <1>8, <2>1 DEF Owner
<1>11. TypeOK'
  <2>1. nTotalSockets' \in 0 .. FD_SETSIZE /\ i' \in Nat \ {0}
    BY <1>1, <1>2 DEF last
  <2> QED
    BY <1>1, <1>3, <1>7, <1>8, <2>1 DEF IInv, TypeOK, SocketsTypeOK
<1>12. DescriptorTable'
  BY <1>2, <1>8, <1>9 DEF IInv, DescriptorTable
<1>13. Entered'
  <2>1. nTotalSockets' = Len(SocketInfoArray') + 1 /\ pc' # "exit"
    BY <1>1, <1>2, <1>3
  <2>2. \A j \in InUse' : Pollfds'[j].fd \in Fds /\ fdt'[Pollfds'[j].fd] \in Clients
    BY <1>10
  <2>3. ASSUME NEW f \in Fds, fdt'[f] \in Clients
        PROVE  \E j \in InUse' : Pollfds'[j].fd = f
    <3>1. f # fd /\ fdt[f] \in Clients
      BY <1>8, <1>9, <2>3
    <3>2. PICK m \in InUse : Pollfds[m].fd = f
      BY <3>1 DEF IInv, Entered
    <3>3. m # k
      BY <3>1, <3>2 DEF fd
    <3>4. PICK j \in InUse' : from(j) = m
      BY <1>6, <3>3
    <3> QED
      BY <1>10, <3>2, <3>4
  <2>4. ASSUME NEW j \in InUse', NEW m \in InUse', Pollfds'[j].fd = Pollfds'[m].fd
        PROVE  j = m
    <3>1. from(j) = from(m)
      BY <1>10, <2>4 DEF IInv, Entered
    <3> QED
      BY <1>5, <3>1
  <2> QED
    BY <2>1, <2>2, <2>3, <2>4 DEF Entered
<1>14. Accounts'
  <2>1. \A d \in Clients : link'[d] \in {"new", "backlog"} => link[d] \in {"new", "backlog"}
    BY <1>8
  <2>2. \A j \in InUse' :
          Booked(SocketInfoArray'[j], fdt'[Pollfds'[j].fd], taken[fdt'[Pollfds'[j].fd]],
                 Len(out[fdt'[Pollfds'[j].fd]]))
    BY <1>10 DEF IInv, Accounts
  <2> QED
    BY <1>1, <2>1, <2>2 DEF IInv, Accounts, Owner
<1>15. EventsHold'
  <2>1. ASSUME NEW j \in InUse', j >= k + 1
        PROVE  /\ j \in InUse /\ j >= k
               /\ Pollfds'[j] = Pollfds[j] /\ SocketInfoArray'[j] = SocketInfoArray[j]
               /\ fdt'[Pollfds'[j].fd] = Owner(j)
    <3>1. from(j) = j /\ j >= k
      BY <1>2, <1>4, <2>1 DEF from
    <3> QED
      BY <1>10, <3>1
  <2>2. ASSUME NEW j \in InUse', j >= k + 1 PROVE EntryHolds(j)'
    <3>1. EntryHolds(j)
      BY <2>1, <2>2 DEF IInv, EventsHold
    <3> QED
      BY <1>1, <2>1, <2>2, <3>1 DEF EntryHolds, Pending, SendWouldBlock, SendSpace, Owner
  <2> QED
    BY <2>2 DEF EventsHold
<1> QED
  BY <1>11, <1>12, <1>13, <1>14, <1>15 DEF IInv, Counted

(* recv() or send() changes the record the data loop has come to and the   *)
(* bytes of its client; it balances the client's books again.              *)
LEMMA UpdateStep ==
    ASSUME IInv, NEW k \in InUse, NEW new \in SOCKETINFO,
           SocketInfoArray' = [SocketInfoArray EXCEPT ![k] = new],
           taken' \in [Clients -> Nat], out' \in [Clients -> Seq(Bytes)],
           \A d \in Clients \ {Owner(k)} : taken'[d] = taken[d] /\ out'[d] = out[d],
           \A m \in 1 .. Len(out'[Owner(k)]) : out'[Owner(k)][m] = <<Owner(k), m>>,
           Booked(new, Owner(k), taken'[Owner(k)], Len(out'[Owner(k)])),
           UNCHANGED <<link, peer, sent, got, fdt, Pollfds, nTotalSockets>>,
           pc = "scan", i = k, i' = i + 1, UNCHANGED <<pc, nready>>
    PROVE  IInv'
<1> DEFINE c == Owner(k)
<1>1. /\ c \in Clients /\ link[c] = "open" /\ k \in Nat /\ InUse' = InUse
      /\ k \in 1 .. Len(SocketInfoArray) /\ SocketInfoArray \in Seq(SOCKETINFO)
  BY EntryFacts DEF IInv, TypeOK, InUse
<1>2. /\ SocketInfoArray' \in Seq(SOCKETINFO) /\ Len(SocketInfoArray') = Len(SocketInfoArray)
      /\ \A j \in 1 .. Len(SocketInfoArray) :
            SocketInfoArray'[j] = IF j = k THEN new ELSE SocketInfoArray[j]
  BY <1>1, Replacement
<1>3. \A j \in InUse : /\ j \in 1 .. Len(SocketInfoArray)
                       /\ Owner(j)' = Owner(j)
                       /\ j # k => Owner(j) \in Clients \ {c}
  BY EntryFacts, OwnersDiffer DEF Owner
<1>4. TypeOK'
  BY <1>1, <1>2 DEF IInv, TypeOK, SocketsTypeOK
<1>5. DescriptorTable'
  BY DEF IInv, DescriptorTable
<1>6. Entered'
  BY <1>1, <1>2 DEF IInv, Entered
<1>7. Accounts'
  <2>1. \A d \in Clients : link'[d] \in {"new", "backlog"} => taken'[d] = 0 /\ out'[d] = <<>>
    BY <1>1 DEF IInv, Accounts
  <2>2. \A d \in Clients : \A m \in 1 .. Len(out'[d]) : out'[d][m] = <<d, m>>
    BY DEF IInv, Accounts
  <2>3. ASSUME NEW j \in InUse
        PROVE  Booked(SocketInfoArray'[j], Owner(j), taken'[Owner(j)], Len(out'[Owner(j)]))
    <3>1. CASE j = k
      BY <1>2, <1>3, <3>1
    <3>2. CASE j # k
      <4>1. Booked(SocketInfoArray[j], Owner(j), taken[Owner(j)], Len(out[Owner(j)]))
        BY DEF IInv, Accounts
      <4> QED
        BY <1>2, <1>3, <3>2, <4>1
    <3> QED
      BY <3>1, <3>2
  <2> QED
    BY <1>1, <1>3, <2>1, <2>2, <2>3 DEF Accounts
<1>8. EventsHold'
  <2>1. ASSUME NEW j \in InUse, j >= k + 1 PROVE EntryHolds(j)'
    <3>1. j # k /\ j >= k /\ j \in Nat
      BY <1>1, <1>3, <2>1
    <3>2. EntryHolds(j)
      BY <3>1 DEF IInv, EventsHold
    <3>3. SocketInfoArray'[j] = SocketInfoArray[j] /\ out'[Owner(j)] = out[Owner(j)]
      BY <1>2, <1>3, <3>1
    <3> QED
      BY <1>3, <3>2, <3>3 DEF EntryHolds, Pending, SendWouldBlock, SendSpace
  <2> QED
    BY <1>1, <2>1 DEF EventsHold
<1> QED
  BY <1>4, <1>5, <1>6, <1>7, <1>8 DEF IInv, Counted

(* recv() of b bytes into a buffer that is empty. *)
LEMMA ReceiveStep ==
    ASSUME IInv, NEW k \in InUse, NEW b \in 1 .. BUFSIZE,
           Take(Owner(k), b), "POLLIN" \in Pollfds[k].revents,
           SocketInfoArray' = [SocketInfoArray EXCEPT
              ![k].buf = Chunk(Owner(k), taken[Owner(k)], b), ![k].recvbytes = b],
           UNCHANGED <<Pollfds, nTotalSockets>>,
           pc = "scan", i = k, i' = i + 1, UNCHANGED <<pc, nready>>
    PROVE  IInv'
<1> DEFINE c == Owner(k)
           ptr == SocketInfoArray[k]
           new == [ptr EXCEPT !.buf = Chunk(c, taken[c], b), !.recvbytes = b]
<1>1. /\ taken' = [taken EXCEPT ![c] = @ + b] /\ link' = link /\ fdt' = fdt
      /\ peer' = peer /\ sent' = sent /\ out' = out /\ got' = got
  BY DEF Take
<1>2. /\ c \in Clients /\ taken[c] \in Nat /\ b \in Nat /\ b > 0 /\ ptr \in SOCKETINFO
      /\ out[c] \in Seq(Bytes) /\ Len(out[c]) \in Nat /\ k \in Nat
      /\ ptr.recvbytes \in Nat /\ ptr.sendbytes \in Nat
      /\ Booked(ptr, c, taken[c], Len(out[c]))
  BY EntryFacts, SocketsAssumption, SMTT(30)
<1>3. ~ (ptr.recvbytes > ptr.sendbytes)
  BY <1>2 DEF IInv, EventsHold, EntryHolds, Pending
<1>4. Chunk(c, taken[c], b) \in Seq(Bytes)
  BY <1>2, ChunkType
<1>5. /\ new \in SOCKETINFO /\ new.buf = Chunk(c, taken[c], b)
      /\ new.recvbytes = b /\ new.sendbytes = ptr.sendbytes
  BY <1>2, <1>4 DEF SOCKETINFO
<1>6. SocketInfoArray' = [SocketInfoArray EXCEPT ![k] = new]
  OBVIOUS
<1> HIDE DEF c, ptr, new
<1>7. /\ taken' \in [Clients -> Nat] /\ taken'[c] = taken[c] + b
      /\ \A d \in Clients \ {c} : taken'[d] = taken[d]
      /\ out' \in [Clients -> Seq(Bytes)]
  BY <1>1, <1>2, SMTT(120) DEF IInv, TypeOK, SocketsTypeOK
<1>8. Booked(new, c, taken[c] + b, Len(out[c]))
  BY <1>2, <1>3, <1>5, BookedRecv
<1>9. \A m \in 1 .. Len(out'[c]) : out'[c][m] = <<c, m>>
  BY <1>1, <1>2 DEF IInv, Accounts
<1>10. /\ \A d \in Clients \ {c} : taken'[d] = taken[d] /\ out'[d] = out[d]
       /\ Booked(new, c, taken'[c], Len(out'[c]))
  BY <1>1, <1>7, <1>8
<1> QED
  BY <1>1, <1>5, <1>6, <1>7, <1>9, <1>10, UpdateStep DEF c

(* send() of the first b bytes that wait in the buffer. *)
LEMMA SendStep ==
    ASSUME IInv, NEW k \in InUse, NEW b \in Nat,
           b <= SocketInfoArray[k].recvbytes - SocketInfoArray[k].sendbytes,
           Give(Owner(k), SubSeq(SocketInfoArray[k].buf, SocketInfoArray[k].sendbytes + 1,
                                 SocketInfoArray[k].sendbytes + b)),
           SocketInfoArray' =
              IF SocketInfoArray[k].sendbytes + b = SocketInfoArray[k].recvbytes
              THEN [SocketInfoArray EXCEPT ![k].recvbytes = 0, ![k].sendbytes = 0]
              ELSE [SocketInfoArray EXCEPT ![k].sendbytes = @ + b],
           UNCHANGED <<Pollfds, nTotalSockets>>,
           pc = "scan", i = k, i' = i + 1, UNCHANGED <<pc, nready>>
    PROVE  IInv'
<1> DEFINE c == Owner(k)
           ptr == SocketInfoArray[k]
           bytes == SubSeq(ptr.buf, ptr.sendbytes + 1, ptr.sendbytes + b)
           new == IF ptr.sendbytes + b = ptr.recvbytes
                  THEN [ptr EXCEPT !.recvbytes = 0, !.sendbytes = 0]
                  ELSE [ptr EXCEPT !.sendbytes = @ + b]
<1>1. /\ out' = [out EXCEPT ![c] = @ \o bytes] /\ link' = link /\ fdt' = fdt
      /\ peer' = peer /\ sent' = sent /\ taken' = taken /\ got' = got
  BY DEF Give
<1>2. /\ c \in Clients /\ taken[c] \in Nat /\ ptr \in SOCKETINFO /\ out[c] \in Seq(Bytes)
      /\ ptr.buf \in Seq(Bytes) /\ ptr.recvbytes \in Nat /\ ptr.sendbytes \in Nat
      /\ Len(out[c]) \in Nat /\ b \in Nat
  BY EntryFacts
<1>3. Booked(ptr, c, taken[c], Len(out[c]))
  BY EntryFacts
<1>4. SocketInfoArray' = [SocketInfoArray EXCEPT ![k] = new]
  OBVIOUS
<1>5. b <= ptr.recvbytes - ptr.sendbytes
  OBVIOUS
<1> HIDE DEF c, ptr, new
<1>6. bytes = Chunk(c, Len(out[c]), b)
  <2>1. /\ c \in Clients /\ taken[c] \in Nat /\ Len(out[c]) \in Nat
        /\ ptr.buf \in Seq(Bytes) /\ ptr.recvbytes \in Nat /\ ptr.sendbytes \in Nat
        /\ Booked(ptr, c, taken[c], Len(out[c]))
        /\ b \in Nat /\ b <= ptr.recvbytes - ptr.sendbytes
    BY <1>2, <1>3, <1>5
  <2> QED
    BY ONLY <2>1, NextBytes, ZenonT(60) DEF bytes
<1> HIDE DEF bytes
<1>7. /\ new \in SOCKETINFO /\ new.buf = ptr.buf
      /\ \/ /\ ptr.sendbytes + b = ptr.recvbytes
            /\ new.recvbytes = 0 /\ new.sendbytes = 0
         \/ /\ ptr.sendbytes + b # ptr.recvbytes
            /\ new.recvbytes = ptr.recvbytes /\ new.sendbytes = ptr.sendbytes + b
  <2>1. CASE ptr.sendbytes + b = ptr.recvbytes
    BY <1>2, <2>1 DEF SOCKETINFO, new
  <2>2. CASE ptr.sendbytes + b # ptr.recvbytes
    BY <1>2, <2>2 DEF SOCKETINFO, new
  <2> QED
    BY <2>1, <2>2
<1>8. /\ out[c] \o bytes \in Seq(Bytes) /\ Len(out[c] \o bytes) = Len(out[c]) + b
      /\ \A m \in 1 .. (Len(out[c]) + b) : (out[c] \o bytes)[m] = <<c, m>>
  <2>1. \A m \in 1 .. Len(out[c]) : out[c][m] = <<c, m>>
    BY <1>2 DEF IInv, Accounts
  <2> QED
    BY <1>2, <1>6, <2>1, InOrder
<1>9. /\ out' \in [Clients -> Seq(Bytes)] /\ out'[c] = out[c] \o bytes
      /\ \A d \in Clients \ {c} : out'[d] = out[d]
      /\ taken' \in [Clients -> Nat]
  BY <1>1, <1>2, <1>8 DEF IInv, TypeOK, SocketsTypeOK
<1>10. \A m \in 1 .. Len(out'[c]) : out'[c][m] = <<c, m>>
  BY <1>8, <1>9
<1>11. Booked(new, c, taken'[c], Len(out'[c]))
  <2>1. Booked(new, c, taken[c], Len(out[c]) + b)
    BY <1>2, <1>3, <1>5, <1>7, BookedSend
  <2> QED
    BY <1>1, <1>8, <1>9, <2>1
<1> QED
  BY <1>1, <1>4, <1>7, <1>9, <1>10, <1>11, UpdateStep DEF c

-----------------------------------------------------------------------------
(* Every step preserves the inductive invariant. *)
LEMMA StepIInv == IInv /\ [Next]_vars => IInv'
<1> SUFFICES ASSUME IInv, [Next]_vars PROVE IInv'
  OBVIOUS
<1>1. CASE PollCall
  BY <1>1, PollStep
<1>2. CASE AcceptCall
  BY <1>2, AcceptStep
<1>3. CASE AcceptFull
  BY <1>3, AcceptFullStep
<1>4. CASE AcceptBreaks
  BY <1>4, ExitStep DEF AcceptBreaks
<1>5. CASE ScanEnds
  BY <1>5, ScanEndsStep
<1>6. ASSUME NEW k \in InUse, RecvCall(k) PROVE IInv'
  <2>1. /\ pc = "scan" /\ i = k /\ i' = i + 1 /\ UNCHANGED <<pc, nready>>
        /\ "POLLIN" \in Pollfds[k].revents
    BY <1>6 DEF RecvCall, Scanning, ScanNext
  <2>2. CASE RemoveSocketInfo(k)
    BY <2>1, <2>2, RemoveStep
  <2>3. CASE ~ RemoveSocketInfo(k)
    <3>1. PICK b \in 1 .. BUFSIZE :
            /\ Take(Owner(k), b)
            /\ SocketInfoArray' = [SocketInfoArray EXCEPT
                  ![k].buf = Chunk(Owner(k), taken[Owner(k)], b), ![k].recvbytes = b]
            /\ UNCHANGED <<Pollfds, nTotalSockets>>
      BY <1>6, <2>3 DEF RecvCall
    <3> QED
      BY <2>1, <3>1, ReceiveStep
  <2> QED
    BY <2>2, <2>3
<1>7. ASSUME NEW k \in InUse, SendCall(k) PROVE IInv'
  <2>1. pc = "scan" /\ i = k /\ i' = i + 1 /\ UNCHANGED <<pc, nready>>
    BY <1>7 DEF SendCall, Scanning, ScanNext
  <2>2. CASE RemoveSocketInfo(k)
    BY <2>1, <2>2, RemoveStep
  <2>3. CASE ~ RemoveSocketInfo(k)
    <3>1. PICK b \in 0 .. (SocketInfoArray[k].recvbytes - SocketInfoArray[k].sendbytes) :
            /\ Give(Owner(k), SubSeq(SocketInfoArray[k].buf, SocketInfoArray[k].sendbytes + 1,
                                     SocketInfoArray[k].sendbytes + b))
            /\ SocketInfoArray' =
                  IF SocketInfoArray[k].sendbytes + b = SocketInfoArray[k].recvbytes
                  THEN [SocketInfoArray EXCEPT ![k].recvbytes = 0, ![k].sendbytes = 0]
                  ELSE [SocketInfoArray EXCEPT ![k].sendbytes = @ + b]
            /\ UNCHANGED <<Pollfds, nTotalSockets>>
      BY <1>7, <2>3 DEF SendCall
    <3>2. b \in Nat /\ b <= SocketInfoArray[k].recvbytes - SocketInfoArray[k].sendbytes
      BY EntryFacts
    <3> QED
      BY <2>1, <3>1, <3>2, SendStep
  <2> QED
    BY <2>2, <2>3
<1>8. ASSUME NEW k \in InUse, SendKills(k) PROVE IInv'
  BY <1>8, ExitStep DEF SendKills
<1>9. ASSUME NEW k \in InUse, Skip(k) PROVE IInv'
  BY <1>9, SkipStep
<1>10. CASE Environment
  BY <1>10, RemoteStep
<1>11. CASE UNCHANGED vars
  <2>1. /\ link' = link /\ peer' = peer /\ sent' = sent /\ taken' = taken /\ out' = out
        /\ got' = got /\ fdt' = fdt /\ pc' = pc /\ SocketInfoArray' = SocketInfoArray
        /\ Pollfds' = Pollfds /\ nTotalSockets' = nTotalSockets /\ nready' = nready /\ i' = i
        /\ InUse' = InUse
    BY <1>11 DEF vars, sockets, server, InUse
  <2> QED
    BY <2>1 DEF IInv, TypeOK, SocketsTypeOK, DescriptorTable, Entered, Accounts, EventsHold,
                EntryHolds, Counted, Owner, Pending, SendWouldBlock, SendSpace
<1> QED
  BY <1>1, <1>2, <1>3, <1>4, <1>5, <1>6, <1>7, <1>8, <1>9, <1>10, <1>11 DEF Next, Server

(* The inductive invariant holds in every reachable state. *)
THEOREM Invariance == Spec => []IInv
  BY InitIInv, StepIInv, PTL DEF Spec

(* The variables stay in their sets: Pollfds is never indexed beyond its   *)
(* FD_SETSIZE entries.                                                     *)
THEOREM TypeCorrect == Spec => []TypeOK
<1>1. IInv => TypeOK
  BY DEF IInv
<1> QED
  BY <1>1, Invariance, PTL

(* RemoveSocketInfo() and AddSocketInfo() keep the two arrays parallel and *)
(* one entry per connection, for any number of clients and entries.        *)
THEOREM EntriesMatch == Spec => []OneEntryPerConnection
<1>1. IInv => OneEntryPerConnection
  <2> SUFFICES ASSUME IInv, pc # "exit" PROVE OneEntryPerConnection
    BY DEF OneEntryPerConnection
  <2>1. Len(SocketInfoArray) = nTotalSockets - 1
    <3>1. nTotalSockets = Len(SocketInfoArray) + 1 /\ Len(SocketInfoArray) \in Nat
      BY DEF IInv, TypeOK, Entered
    <3> QED
      BY <3>1
  <2>2. ASSUME NEW c \in Clients, link[c] = "open" PROVE \E k \in InUse : Owner(k) = c
    <3>1. PICK f \in Fds : fdt[f] = c
      BY <2>2 DEF IInv, DescriptorTable
    <3>2. PICK k \in InUse : Pollfds[k].fd = f
      BY <3>1 DEF IInv, Entered
    <3> QED
      BY <3>1, <3>2 DEF Owner
  <2>3. \A k \in InUse : Owner(k) \in Clients /\ link[Owner(k)] = "open"
    BY EntryFacts
  <2> QED
    BY <2>1, <2>2, <2>3 DEF IInv, Entered, OneEntryPerConnection, Connected
<1> QED
  BY <1>1, Invariance, PTL

(* What the buffer of an entry still has to send is what the server took   *)
(* from the client of the same entry and has not given back, for buffers   *)
(* of any size, however recv() and send() cut the stream, and whatever the *)
(* revents of a new entry say.                                             *)
THEOREM BufferMatches == Spec => []BufferIsBacklog
<1>1. IInv => BufferIsBacklog
  <2> SUFFICES ASSUME IInv, NEW k \in InUse
               PROVE  SubSeq(SocketInfoArray[k].buf, SocketInfoArray[k].sendbytes + 1,
                             SocketInfoArray[k].recvbytes)
                        = Chunk(Owner(k), Len(out[Owner(k)]),
                                taken[Owner(k)] - Len(out[Owner(k)]))
    BY DEF BufferIsBacklog
  <2> DEFINE ptr == SocketInfoArray[k]
             c == Owner(k)
             len == ptr.recvbytes - ptr.sendbytes
  <2>1. /\ c \in Clients /\ taken[c] \in Nat /\ Len(out[c]) \in Nat /\ ptr.buf \in Seq(Bytes)
        /\ ptr.recvbytes \in Nat /\ ptr.sendbytes \in Nat
        /\ Booked(ptr, c, taken[c], Len(out[c]))
    BY EntryFacts
  <2> HIDE DEF ptr, c
  <2>2. /\ len \in Nat /\ len <= ptr.recvbytes - ptr.sendbytes
        /\ ptr.sendbytes + len = ptr.recvbytes /\ taken[c] - Len(out[c]) = len
    BY <2>1 DEF Booked
  <2> HIDE DEF len
  <2>3. SubSeq(ptr.buf, ptr.sendbytes + 1, ptr.sendbytes + len) = Chunk(c, Len(out[c]), len)
    BY ONLY <2>1, <2>2, NextBytes, ZenonT(60)
  <2> QED
    BY <2>2, <2>3 DEF ptr, c
<1> QED
  BY <1>1, Invariance, PTL

-----------------------------------------------------------------------------
(* A removal in the data loop, be it the answer to an event of poll() or   *)
(* to one that the entry's last user left, comes when everything that had  *)
(* arrived has been given back.                                            *)
LEMMA RemovedIsDone ==
    ASSUME IInv, NEW k \in InUse, pc = "scan", i = k,
           \/ /\ "POLLIN" \in Pollfds[k].revents
              /\ RecvEof(Owner(k)) \/ RecvFails(Owner(k))
           \/ /\ "POLLOUT" \in Pollfds[k].revents
              /\ SendFails(Owner(k), SocketInfoArray[k].recvbytes - SocketInfoArray[k].sendbytes)
    PROVE  peer[Owner(k)] = "rst" \/ out[Owner(k)] = Stream(Owner(k), sent[Owner(k)])
<1> DEFINE c == Owner(k)
           ptr == SocketInfoArray[k]
<1>1. /\ c \in Clients /\ taken[c] \in Nat /\ sent[c] \in Nat /\ out[c] \in Seq(Bytes)
      /\ Len(out[c]) \in Nat /\ got[c] \in Nat /\ SNDBUF \in Nat /\ k \in Nat
      /\ ptr.recvbytes \in Nat /\ ptr.sendbytes \in Nat
      /\ Booked(ptr, c, taken[c], Len(out[c]))
  BY EntryFacts, SocketsAssumption DEF IInv, TypeOK, SocketsTypeOK
<1>2. EntryHolds(k)
  BY <1>1 DEF IInv, EventsHold
<1>3. \A m \in 1 .. Len(out[c]) : out[c][m] = <<c, m>>
  BY <1>1 DEF IInv, Accounts
<1> SUFFICES ASSUME peer[c] # "rst" PROVE out[c] = Stream(c, sent[c])
  OBVIOUS
<1>4. /\ "POLLIN" \in Pollfds[k].revents
      /\ Unread(c) = 0
  <2>1. CASE /\ "POLLIN" \in Pollfds[k].revents
             /\ RecvEof(c) \/ RecvFails(c)
    BY <2>1 DEF RecvEof, RecvFails, RecvWouldBlock
  <2>2. CASE /\ "POLLOUT" \in Pollfds[k].revents
             /\ SendFails(c, ptr.recvbytes - ptr.sendbytes)
    <3>1. ptr.recvbytes - ptr.sendbytes > 0 /\ SendSpace(c) <= 0
      BY <2>2 DEF SendFails
    <3>2. Pending(k) /\ SendWouldBlock(c)
      BY <1>1, <3>1 DEF Pending, SendWouldBlock
    <3> QED
      BY <1>2, <2>2, <3>2 DEF EntryHolds
  <2> QED
    BY <2>1, <2>2
<1>5. ~ Pending(k)
  BY <1>2, <1>4 DEF EntryHolds
<1> HIDE DEF c, ptr
<1>6. Len(out[c]) = taken[c]
  <2>1. ~ (ptr.recvbytes > ptr.sendbytes)
    BY <1>5 DEF Pending, ptr
  <2> QED
    BY <1>1, <2>1 DEF Booked
<1>7. Len(out[c]) = sent[c]
  BY <1>1, <1>4, <1>6 DEF Unread
<1> QED
  BY <1>1, <1>3, <1>7, WholeStream

(* A connection that the data loop closes, also by mistake, had got back   *)
(* all that had arrived from it, or was reset: for all sizes, an event     *)
(* left over from another connection costs a client its connection but     *)
(* none of its bytes.                                                      *)
THEOREM NothingLost == Spec => ClosedLosesNothing
<1> DEFINE A == \A c \in Clients :
                  (link[c] = "open" /\ link'[c] = "closed" /\ pc' # "exit")
                     => peer[c] = "rst" \/ out[c] = Stream(c, sent[c])
<1>1. IInv /\ [Next]_vars => A
  <2> SUFFICES ASSUME IInv, [Next]_vars, NEW c \in Clients,
                      link[c] = "open", link'[c] = "closed", pc' # "exit"
               PROVE  peer[c] = "rst" \/ out[c] = Stream(c, sent[c])
    OBVIOUS
  <2>1. link \in [Clients -> {"new", "backlog", "open", "closed"}] /\ SocketsTypeOK
    BY DEF IInv, TypeOK, SocketsTypeOK
  <2>2. ASSUME NEW k \in InUse, RemoveSocketInfo(k) PROVE c = Owner(k)
    BY <2>1, <2>2, EntryFacts DEF RemoveSocketInfo, Close, Owner
  <2>3. ASSUME NEW k \in InUse, RecvCall(k) PROVE peer[c] = "rst" \/ out[c] = Stream(c, sent[c])
    <3>1. RemoveSocketInfo(k) /\ (RecvEof(Owner(k)) \/ RecvFails(Owner(k)))
      BY <2>3 DEF RecvCall, Take
    <3> QED
      BY <2>2, <2>3, <3>1, RemovedIsDone DEF RecvCall, Scanning
  <2>4. ASSUME NEW k \in InUse, SendCall(k) PROVE peer[c] = "rst" \/ out[c] = Stream(c, sent[c])
    <3>1. /\ RemoveSocketInfo(k)
          /\ SendFails(Owner(k), SocketInfoArray[k].recvbytes - SocketInfoArray[k].sendbytes)
      BY <2>4 DEF SendCall, Give
    <3> QED
      BY <2>2, <2>4, <3>1, RemovedIsDone DEF SendCall, Scanning
  <2>5. CASE AcceptCall
    BY <2>1, <2>5 DEF AcceptCall, Accept
  <2>6. CASE AcceptFull
    BY <2>1, <2>6 DEF AcceptFull, AcceptAndClose, Backlog
  <2>7. CASE AcceptBreaks \/ \E k \in InUse : SendKills(k)
    BY <2>7 DEF AcceptBreaks, SendKills, Exit
  <2>8. CASE PollCall \/ ScanEnds \/ (\E k \in InUse : Skip(k)) \/ UNCHANGED vars
    BY <2>8 DEF PollCall, ScanEnds, Skip, vars, sockets
  <2>9. CASE Environment
    BY <2>1, <2>9, RemoteFrame DEF Environment
  <2> QED
    BY <2>3, <2>4, <2>5, <2>6, <2>7, <2>8, <2>9 DEF Next, Server
<1> QED
  BY <1>1, Invariance, PTL DEF Spec, ClosedLosesNothing

-----------------------------------------------------------------------------
(* The echo service.  On top of IInv, which says that the buffers hold     *)
(* what is owed, this needs to know what a stale event may do to recv().   *)

(* An entry that the data loop will read from has something to report, or  *)
(* its client is new and nothing has been taken from it.                   *)
EntryReady(k) ==
    "POLLIN" \in Pollfds[k].revents =>
       ~ RecvWouldBlock(Owner(k)) \/ taken[Owner(k)] = 0
ReadyOrNew == pc \in {"accept", "scan"} => \A k \in InUse : k >= i => EntryReady(k)

(* The listening socket has one descriptor, none once the process ended. *)
ListenerOnce ==
    /\ \A f \in Fds : fdt[f] = listen_sock => f = listenfd
    /\ pc # "exit" => fdt[listenfd] = listen_sock
    /\ pc = "exit" => \A f \in Fds : fdt[f] = Free

ArrivedFirst == \A c \in Clients : taken[c] <= sent[c]

EInv == IInv /\ ReadyOrNew /\ ListenerOnce /\ ArrivedFirst

LEMMA EInit == Init => EInv
<1> SUFFICES ASSUME Init PROVE EInv
  OBVIOUS
<1>1. IInv
  BY InitIInv
<1>2. ReadyOrNew
  BY DEF Init, ReadyOrNew
<1>3. ListenerOnce
  <2>1. \A fd : (\E l \in Listeners : [m \in Listeners |-> listenfd][l] = fd) <=> fd = listenfd
    BY PollAssumption
  <2>2. (CHOOSE l \in Listeners : [m \in Listeners |-> listenfd][l] = listenfd) = listen_sock
    BY PollAssumption
  <2>3. fdt = [fd \in Fds |-> IF fd = listenfd THEN listen_sock ELSE Free]
    BY <2>1, <2>2 DEF Init, SocketsInit
  <2>4. listenfd \in Fds /\ Free # listen_sock /\ pc = "poll"
    BY PollAssumption, SocketsAssumption DEF listenfd, Fds, Init
  <2> QED
    BY <2>3, <2>4 DEF ListenerOnce
<1>4. ArrivedFirst
  BY DEF Init, SocketsInit, ArrivedFirst
<1> QED
  BY <1>1, <1>2, <1>3, <1>4 DEF EInv

(* poll() reports what is ready. *)
LEMMA PollReports == ASSUME EInv, PollCall PROVE ReadyOrNew'
<1> USE DEF EInv
<1>1. /\ Pollfds \in [Entries -> pollfd] /\ nTotalSockets' = nTotalSockets
      /\ UNCHANGED sockets /\ InUse' = InUse
  BY DEF IInv, TypeOK, PollCall, InUse
<1> SUFFICES ASSUME NEW k \in InUse, "POLLIN" \in Pollfds'[k].revents
             PROVE  ~ RecvWouldBlock(Owner(k))'
  BY <1>1 DEF ReadyOrNew, EntryReady
<1>2. k \in Entries /\ k < nTotalSockets /\ k # 0 /\ Pollfds[k] \in pollfd /\ pc # "exit"
      /\ nTotalSockets \in Nat /\ Owner(k) \in Clients
  BY EntryFacts DEF InUse
<1>3. Pollfds'[k].fd = Pollfds[k].fd /\ Pollfds'[k].revents \subseteq ReadyEvents(k)
  BY <1>2 DEF PollCall, pollfd
<1>4. Readable(Owner(k))
  BY <1>2, <1>3 DEF ReadyEvents
<1>5. Owner(k)' = Owner(k)
  BY <1>1, <1>3 DEF Owner, sockets
<1>6. sent[Owner(k)] \in Nat /\ taken[Owner(k)] \in Nat
  BY <1>2 DEF IInv, TypeOK, SocketsTypeOK
<1> QED
  BY <1>1, <1>4, <1>5, <1>6 DEF Readable, RecvWouldBlock, Unread, sockets

(* A step of the data loop leaves the entries after it, and their clients, *)
(* alone.                                                                  *)
LEMMA OthersKept ==
    ASSUME IInv, NEW k \in InUse, UNCHANGED <<peer, sent>>,
           \/ RemoveSocketInfo(k)
           \/ /\ \E n : taken' = [taken EXCEPT ![Owner(k)] = n]
              /\ UNCHANGED <<fdt, Pollfds, nTotalSockets>>
           \/ UNCHANGED <<taken, fdt, Pollfds, nTotalSockets>>,
           NEW j \in InUse', j > k, EntryReady(j)
    PROVE  j \in InUse /\ EntryReady(j)'
<1>1. /\ nTotalSockets \in Nat /\ k \in Nat /\ k \in Entries /\ k \in InUse
      /\ Pollfds \in [Entries -> pollfd] /\ Pollfds[k].fd \in Fds /\ Owner(k) \in Clients
      /\ fdt \in [Fds -> Clients \cup Listeners \cup {Free}] /\ taken \in [Clients -> Nat]
  BY EntryFacts DEF IInv, TypeOK, SocketsTypeOK
<1>2. j \in InUse
  BY <1>1 DEF InUse, RemoveSocketInfo
<1>3. /\ j # k /\ j \in Entries /\ Pollfds[j].fd \in Fds /\ Owner(j) \in Clients
      /\ Pollfds[j].fd # Pollfds[k].fd /\ Owner(j) # Owner(k)
  <2>1. j # k
    BY <1>1, <1>2 DEF InUse
  <2> QED
    BY <1>2, <2>1, EntryFacts, OwnersDiffer
<1>4. Pollfds'[j] = Pollfds[j] /\ fdt'[Pollfds[j].fd] = fdt[Pollfds[j].fd]
      /\ taken'[Owner(j)] = taken[Owner(j)]
  <2>1. CASE RemoveSocketInfo(k)
    BY <1>1, <1>3, <2>1 DEF RemoveSocketInfo, Close
  <2>2. CASE ~ RemoveSocketInfo(k)
    BY <1>1, <1>3, <2>2
  <2> QED
    BY <2>1, <2>2
<1>5. Owner(j)' = Owner(j)
  BY <1>4 DEF Owner
<1> QED
  BY <1>2, <1>4, <1>5 DEF EntryReady, RecvWouldBlock, Unread

LEMMA ScanKeeps ==
    ASSUME EInv, NEW k \in InUse, RecvCall(k) \/ SendCall(k)
    PROVE  ReadyOrNew' /\ ListenerOnce' /\ ArrivedFirst'
<1> USE DEF EInv
<1>1. pc = "scan" /\ pc' = pc /\ i = k /\ i' = k + 1
  BY DEF RecvCall, SendCall, Scanning, ScanNext
<1>2. /\ k \in Nat /\ Owner(k) \in Clients /\ Pollfds[k].fd \in Fds
      /\ taken \in [Clients -> Nat] /\ sent \in [Clients -> Nat]
      /\ fdt \in [Fds -> Clients \cup Listeners \cup {Free}]
      /\ nTotalSockets \in Nat
  BY EntryFacts DEF IInv, TypeOK, SocketsTypeOK
<1>3. \/ RemoveSocketInfo(k)
      \/ \E n \in 1 .. BUFSIZE : /\ RecvReturns(Owner(k), n) /\ Take(Owner(k), n)
                                 /\ UNCHANGED <<Pollfds, nTotalSockets>>
      \/ /\ \E b : Give(Owner(k), b)
         /\ UNCHANGED <<Pollfds, nTotalSockets>>
  BY DEF RecvCall, SendCall
<1>4. /\ UNCHANGED <<peer, sent>>
      /\ \/ RemoveSocketInfo(k)
         \/ /\ \E n : taken' = [taken EXCEPT ![Owner(k)] = n]
            /\ UNCHANGED <<fdt, Pollfds, nTotalSockets>>
         \/ UNCHANGED <<taken, fdt, Pollfds, nTotalSockets>>
  <2>1. CASE RemoveSocketInfo(k)
    BY <2>1 DEF RemoveSocketInfo, Close
  <2>2. CASE \E n \in 1 .. BUFSIZE : /\ RecvReturns(Owner(k), n) /\ Take(Owner(k), n)
                                     /\ UNCHANGED <<Pollfds, nTotalSockets>>
    <3>1. PICK n : Take(Owner(k), n) /\ UNCHANGED <<Pollfds, nTotalSockets>>
      BY <2>2
    <3>2. taken' = [taken EXCEPT ![Owner(k)] = taken[Owner(k)] + n]
      BY <3>1 DEF Take
    <3> QED
      BY <3>1, <3>2 DEF Take
  <2>3. CASE (\E b : Give(Owner(k), b)) /\ UNCHANGED <<Pollfds, nTotalSockets>>
    BY <2>3 DEF Give
  <2> QED
    BY <1>3, <2>1, <2>2, <2>3
<1>5. ReadyOrNew'
  <2> SUFFICES ASSUME NEW j \in InUse', j >= k + 1 PROVE EntryReady(j)'
    BY <1>1 DEF ReadyOrNew
  <2>1. j \in Nat /\ j > k /\ j \in InUse
    BY <1>2, <1>4 DEF InUse, RemoveSocketInfo
  <2>2. EntryReady(j)
    BY <1>1, <1>2, <2>1 DEF ReadyOrNew
  <2> QED
    BY <1>4, <2>1, <2>2, OthersKept
<1>6. ListenerOnce'
  <2>1. fdt' \in {fdt, [fdt EXCEPT ![Pollfds[k].fd] = Free]}
    BY <1>4 DEF RemoveSocketInfo, Close
  <2>2. /\ Pollfds[k].fd # listenfd /\ listenfd \in Fds /\ Free # listen_sock
    BY <1>1, <1>2, PollAssumption, SocketsAssumption DEF ListenerOnce, Owner, listenfd, Fds
  <2> QED
    BY <1>1, <1>2, <2>1, <2>2 DEF ListenerOnce
<1>7. ArrivedFirst'
  <2>1. CASE taken' = taken
    BY <1>4, <2>1 DEF ArrivedFirst
  <2>2. CASE \E n \in 1 .. BUFSIZE : RecvReturns(Owner(k), n) /\ Take(Owner(k), n)
    <3>1. PICK n \in 1 .. BUFSIZE : RecvReturns(Owner(k), n) /\ Take(Owner(k), n)
      BY <2>2
    <3>2. n \in Nat /\ n <= sent[Owner(k)] - taken[Owner(k)]
      BY <3>1, SocketsAssumption DEF RecvReturns, Unread
    <3>3. taken' = [taken EXCEPT ![Owner(k)] = @ + n] /\ sent' = sent
      BY <3>1 DEF Take
    <3> QED
      BY <1>2, <3>2, <3>3 DEF ArrivedFirst
  <2> QED
    BY <1>3, <2>1, <2>2 DEF RemoveSocketInfo, Close, Give
<1> QED
  BY <1>5, <1>6, <1>7

(* The entry of a new connection may have revents of its last user, but    *)
(* nothing has been taken from its client.                                 *)
LEMMA AcceptKeeps ==
    ASSUME EInv, AcceptCall
    PROVE  ReadyOrNew' /\ ListenerOnce' /\ ArrivedFirst'
<1> USE DEF EInv
<1>1. PICK c \in Clients, fd \in Fds : Accept(listen_sock, c, fd) /\ AddSocketInfo(fd)
  BY DEF AcceptCall
<1>2. /\ link[c] = "backlog" /\ fdt[fd] = Free /\ fdt' = [fdt EXCEPT ![fd] = c]
      /\ peer' = peer /\ sent' = sent /\ taken' = taken
  BY <1>1 DEF Accept, Backlog, LowestFree
<1>3. pc = "accept" /\ pc' \in {"poll", "scan"} /\ i' = i
  BY AfterAcceptControl DEF AcceptCall
<1>4. PICK n \in Nat : n = nTotalSockets
  BY DEF IInv, TypeOK
<1>5. /\ n \in Entries /\ Pollfds \in [Entries -> pollfd] /\ InUse' = InUse \cup {n}
      /\ fdt \in [Fds -> Clients \cup Listeners \cup {Free}]
      /\ \A j \in InUse : j \in Entries /\ j # n
  <2>1. /\ n < FD_SETSIZE /\ FD_SETSIZE \in Nat
        /\ n = Len(SocketInfoArray) + 1 /\ Len(SocketInfoArray) \in Nat
    BY <1>3, <1>4, PollAssumption DEF AcceptCall, IInv, TypeOK, Entered
  <2>2. nTotalSockets' = n + 1
    BY <1>1, <1>4 DEF AddSocketInfo
  <2> QED
    BY <1>4, <2>1, <2>2 DEF Entries, InUse, IInv, TypeOK, SocketsTypeOK
<1>6. /\ \A j \in InUse : Pollfds'[j] = Pollfds[j] /\ Owner(j)' = Owner(j)
      /\ Owner(n)' = c
  <2>1. /\ \A j \in Entries \ {n} : Pollfds'[j] = Pollfds[j]
        /\ Pollfds'[n].fd = fd
    BY <1>1, <1>4, <1>5 DEF AddSocketInfo, pollfd
  <2>2. ASSUME NEW j \in InUse PROVE Pollfds[j].fd \in Fds /\ Pollfds[j].fd # fd
    BY <1>2, EntryFacts, SocketsAssumption DEF Owner
  <2> QED
    BY <1>2, <1>5, <2>1, <2>2 DEF Owner
<1>7. ReadyOrNew'
  <2>1. taken[c] = 0
    BY <1>2 DEF IInv, Accounts
  <2>2. ASSUME NEW j \in InUse, j >= i PROVE EntryReady(j)'
    <3>1. EntryReady(j)
      BY <1>3, <2>2 DEF ReadyOrNew
    <3> QED
      BY <1>2, <1>6, <3>1 DEF EntryReady, RecvWouldBlock, Unread
  <2>3. EntryReady(n)'
    BY <1>2, <1>6, <2>1 DEF EntryReady
  <2> QED
    BY <1>3, <1>5, <2>2, <2>3 DEF ReadyOrNew
<1>8. ListenerOnce'
  <2>1. c # listen_sock /\ c # Free /\ Free # listen_sock /\ listenfd \in Fds
    BY PollAssumption, SocketsAssumption DEF listenfd, Fds
  <2> QED
    BY <1>2, <1>3, <1>5, <2>1 DEF ListenerOnce
<1> QED
  BY <1>2, <1>7, <1>8 DEF ArrivedFirst

LEMMA EStep == EInv /\ [Next]_vars => EInv'
<1> SUFFICES ASSUME EInv, [Next]_vars PROVE EInv'
  OBVIOUS
<1> USE DEF EInv
<1>1. IInv'
  BY StepIInv
<1>2. ASSUME UNCHANGED <<peer, sent, taken, fdt, Pollfds, nTotalSockets>>, i' = i,
             pc' \in {"accept", "scan"} => pc \in {"accept", "scan"},
             pc' = "exit" <=> pc = "exit"
      PROVE  EInv'
  <2>1. \A k \in InUse : EntryReady(k)' = EntryReady(k)
    BY <1>2 DEF EntryReady, Owner, RecvWouldBlock, Unread
  <2>2. InUse' = InUse
    BY <1>2 DEF InUse
  <2> QED
    BY <1>1, <1>2, <2>1, <2>2 DEF ReadyOrNew, ListenerOnce, ArrivedFirst
<1>3. CASE PollCall
  BY <1>1, <1>3, PollReports DEF PollCall, sockets, ListenerOnce, ArrivedFirst
<1>4. CASE AcceptCall
  BY <1>1, <1>4, AcceptKeeps
<1>5. CASE AcceptFull
  <2>1. pc = "accept" /\ pc' \in {"poll", "scan"} /\ i' = i
    BY <1>5, AfterAcceptControl DEF AcceptFull
  <2> QED
    BY <1>2, <1>5, <2>1 DEF AcceptFull, AcceptAndClose
<1>6. ASSUME Exit PROVE EInv'
  <2>1. pc' = "exit" /\ taken' = taken /\ sent' = sent /\ fdt' = [fd \in Fds |-> Free]
    BY <1>6 DEF Exit, CloseAll
  <2> QED
    BY <1>1, <2>1, PollAssumption, SocketsAssumption DEF ReadyOrNew, ListenerOnce, ArrivedFirst
<1>7. ASSUME NEW k \in InUse, RecvCall(k) \/ SendCall(k) PROVE EInv'
  BY <1>1, <1>7, ScanKeeps
<1>8. ASSUME NEW k \in InUse, Skip(k) PROVE EInv'
  <2>1. /\ UNCHANGED <<pc, peer, sent, taken, fdt, Pollfds, nTotalSockets>> /\ i' = i + 1
        /\ pc = "scan" /\ i \in Nat
    BY <1>8 DEF Skip, Scanning, ScanNext, sockets, IInv, TypeOK
  <2>2. \A j \in InUse : j >= i + 1 => EntryReady(j)
    BY <2>1 DEF ReadyOrNew, InUse
  <2>3. \A j \in InUse : EntryReady(j)' = EntryReady(j)
    BY <2>1 DEF EntryReady, Owner, RecvWouldBlock, Unread
  <2>4. InUse' = InUse
    BY <2>1 DEF InUse
  <2> QED
    BY <1>1, <2>1, <2>2, <2>3, <2>4 DEF ReadyOrNew, ListenerOnce, ArrivedFirst
<1>9. CASE ScanEnds
  BY <1>2, <1>9 DEF ScanEnds, sockets
<1>10. CASE Environment
  <2>1. PICK c \in Clients : Remote(c)
    BY <1>10 DEF Environment
  <2>2. SocketsTypeOK
    BY DEF IInv, TypeOK
  <2>3. /\ UNCHANGED <<pc, Pollfds, nTotalSockets, i>> /\ taken' = taken /\ fdt' = fdt
        /\ InUse' = InUse
    BY <1>10, <2>1, <2>2, RemoteFrame DEF Environment, server, InUse
  <2>4. \A d \in Clients : /\ ~ RecvWouldBlock(d) => ~ RecvWouldBlock(d)'
                           /\ taken'[d] <= sent'[d]
    BY <2>1, <2>2, RemoteKeepsReady DEF ArrivedFirst
  <2>5. \A k \in InUse : Owner(k) \in Clients /\ Owner(k)' = Owner(k)
    BY <2>3, EntryFacts DEF Owner
  <2>6. \A k \in InUse : EntryReady(k) => EntryReady(k)'
    <3> SUFFICES ASSUME NEW k \in InUse, EntryReady(k) PROVE EntryReady(k)'
      OBVIOUS
    <3>1. ~ RecvWouldBlock(Owner(k)) => ~ RecvWouldBlock(Owner(k))'
      BY <2>4, <2>5 DEF RecvWouldBlock, Unread
    <3> QED
      BY <2>3, <2>5, <3>1 DEF EntryReady
  <2> QED
    BY <1>1, <2>3, <2>4, <2>6 DEF ReadyOrNew, ListenerOnce, ArrivedFirst
<1>11. CASE UNCHANGED vars
  BY <1>2, <1>11 DEF vars, sockets, server
<1> QED
  BY <1>3, <1>4, <1>5, <1>6, <1>7, <1>8, <1>9, <1>10, <1>11
     DEF Next, Server, AcceptBreaks, SendKills

LEMMA EInvariance == Spec => []EInv
  BY EInit, EStep, PTL DEF Spec

-----------------------------------------------------------------------------
(* The steps as steps of EchoSpec. *)

LEMMA SameCardinality == \A S : Echo!Cardinality(S) = Cardinality(S)
  BY DEF Echo!Cardinality, Cardinality

(* There are as many open connections as entries but the first, and at     *)
(* most one for each descriptor but the listening one.                     *)
LEMMA OpenConnections ==
    ASSUME EInv, pc # "exit"
    PROVE  /\ Cardinality(Echo!Open) = nTotalSockets - 1
           /\ nTotalSockets \in Nat \ {0} /\ Cardinality(Fds) \in Nat
           /\ NoFreeFd => Cardinality(Echo!Open) = Cardinality(Fds) - 1
           /\ ~ NoFreeFd => Cardinality(Echo!Open) < Cardinality(Fds) - 1
<1> USE DEF EInv
<1> DEFINE used == {f \in Fds : Connected(f)}
           others == Fds \ {listenfd}
           n == nTotalSockets - 1
<1>1. /\ n \in Nat /\ nTotalSockets \in Nat \ {0} /\ InUse = 1 .. n
      /\ IsFiniteSet(InUse) /\ Cardinality(InUse) = n
  <2>1. /\ n \in Nat /\ nTotalSockets \in Nat \ {0} /\ 1 \in Int
    BY DEF IInv, TypeOK, Entered
  <2> QED
    BY <2>1, FS_Interval DEF InUse
<1> HIDE DEF n
<1>2. Cardinality(Echo!Open) = n
  <2> DEFINE f == [k \in InUse |-> Owner(k)]
  <2>1. \A k \in InUse : Owner(k) \in Echo!Open
    BY EntryFacts DEF Echo!Open
  <2>2. \A j, k \in InUse : Owner(j) = Owner(k) => j = k
    BY OwnersDiffer
  <2>3. \A c \in Echo!Open : \E k \in InUse : Owner(k) = c
    <3> SUFFICES ASSUME NEW c \in Echo!Open PROVE \E k \in InUse : Owner(k) = c
      OBVIOUS
    <3>1. PICK g \in Fds : fdt[g] = c
      BY DEF Echo!Open, IInv, DescriptorTable
    <3>2. PICK k \in InUse : Pollfds[k].fd = g
      BY <3>1 DEF IInv, Entered, Echo!Open
    <3> QED
      BY <3>1, <3>2 DEF Owner
  <2>4. f \in Bijection(InUse, Echo!Open)
    BY <2>1, <2>2, <2>3 DEF Bijection, Injection, IsInjective, Surjection
  <2> QED
    BY <1>1, <2>4, FS_Bijection DEF ExistsBijection
<1>3. /\ IsFiniteSet(Fds) /\ Cardinality(Fds) \in Nat
      /\ IsFiniteSet(others) /\ Cardinality(others) = Cardinality(Fds) - 1
  <2>1. 3 \in Int /\ NOFILE - 1 \in Int /\ listenfd \in Fds
    BY PollAssumption, SocketsAssumption DEF listenfd, Fds
  <2>2. IsFiniteSet(3 .. (NOFILE - 1))
    BY <2>1, FS_Interval
  <2>3. IsFiniteSet(Fds)
    BY <2>2 DEF Fds
  <2> QED
    BY <2>1, <2>3, FS_RemoveElement, FS_CardinalityType
<1>4. Cardinality(used) = n
  <2> DEFINE f == [k \in InUse |-> Pollfds[k].fd]
  <2>1. \A k \in InUse : Pollfds[k].fd \in used
    BY EntryFacts DEF Owner, Connected
  <2>2. /\ \A j, k \in InUse : Pollfds[j].fd = Pollfds[k].fd => j = k
        /\ \A g \in used : \E k \in InUse : Pollfds[k].fd = g
    BY DEF IInv, Entered, Connected
  <2>3. f \in Bijection(InUse, used)
    BY <2>1, <2>2 DEF Bijection, Injection, IsInjective, Surjection
  <2> QED
    BY <1>1, <2>3, FS_Bijection DEF ExistsBijection
<1>5. /\ used \subseteq others /\ Cardinality(used) <= Cardinality(others)
      /\ Cardinality(used) = Cardinality(others) => used = others
  <2>1. used \subseteq others
    BY PollAssumption, SocketsAssumption DEF ListenerOnce, Connected
  <2> HIDE DEF used, others
  <2> QED
    BY <1>3, <2>1, FS_Subset
<1>6. NoFreeFd => used = others
  BY <1>5, PollAssumption DEF NoFreeFd, IInv, TypeOK, SocketsTypeOK, ListenerOnce, Connected
<1>7. ~ NoFreeFd => used # others
  <2> SUFFICES ASSUME NEW f \in Fds, fdt[f] = Free PROVE f \in others \ used
    BY DEF NoFreeFd
  <2> QED
    BY PollAssumption, SocketsAssumption DEF ListenerOnce, Connected
<1> HIDE DEF used, others
<1> QED
  BY <1>1, <1>2, <1>3, <1>4, <1>5, <1>6, <1>7 DEF n

(* What clients do. *)
LEMMA RemoteRefines == ASSUME EInv, Environment PROVE [Echo!Next]_(Echo!vars)
<1> USE DEF EInv, Echo!vars
<1>1. PICK c \in Clients : Remote(c)
  BY DEF Environment
<1>2. pc' = pc
  BY DEF Environment, server
<1>3. CASE Connect(c)
  <2>1. pc # "exit"
    BY <1>3, PollAssumption, SocketsAssumption DEF Connect, Listening, ListenerOnce
  <2>2. Echo!Connect(c)
    BY <1>2, <1>3, <2>1 DEF Connect, Echo!Connect
  <2> QED
    BY <2>2 DEF Echo!Next
<1>4. CASE ClientSend(c)
  <2>1. Echo!Receive(c)
    BY <1>2, <1>4 DEF ClientSend, Echo!Receive
  <2> QED
    BY <2>1 DEF Echo!Next
<1>5. CASE ClientRead(c)
  BY <1>2, <1>5 DEF ClientRead
<1>6. CASE ClientFin(c)
  <2>1. Echo!HangUp(c, "fin")
    BY <1>2, <1>6 DEF ClientFin, Echo!HangUp
  <2> QED
    BY <2>1 DEF Echo!Next
<1>7. CASE ClientReset(c)
  <2>1. Echo!HangUp(c, "rst")
    BY <1>2, <1>7 DEF ClientReset, Echo!HangUp
  <2> QED
    BY <2>1 DEF Echo!Next
<1> QED
  BY <1>1, <1>3, <1>4, <1>5, <1>6, <1>7 DEF Remote

(* A client that is removed has left and got back what arrived ahead of    *)
(* the end of its stream, or it has not sent anything.                     *)
LEMMA RemoveRefines ==
    ASSUME EInv, NEW k \in InUse, RemoveSocketInfo(k), pc = "scan", pc' = pc, i = k,
           \/ /\ "POLLIN" \in Pollfds[k].revents
              /\ RecvEof(Owner(k)) \/ RecvFails(Owner(k))
           \/ /\ "POLLOUT" \in Pollfds[k].revents
              /\ SendFails(Owner(k), SocketInfoArray[k].recvbytes - SocketInfoArray[k].sendbytes)
    PROVE  Echo!Next \/ \E c \in Clients : DropsStale(c)
<1> USE DEF EInv
<1> DEFINE c == Owner(k)
           ptr == SocketInfoArray[k]
<1>1. /\ c \in Clients /\ link[c] = "open" /\ taken[c] \in Nat /\ sent[c] \in Nat
      /\ Len(out[c]) \in Nat /\ k \in Nat /\ peer[c] \in {"up", "fin", "rst"}
      /\ ptr.recvbytes \in Nat /\ ptr.sendbytes \in Nat
  BY EntryFacts DEF IInv, TypeOK, SocketsTypeOK
<1>2. /\ link' = [link EXCEPT ![c] = "closed"] /\ peer' = peer /\ sent' = sent /\ out' = out
  BY DEF RemoveSocketInfo, Close, Owner
<1>3. peer[c] = "rst" \/ Len(out[c]) = sent[c]
  <2>1. peer[c] = "rst" \/ out[c] = Stream(c, sent[c])
    BY RemovedIsDone
  <2>2. Len(Stream(c, sent[c])) = sent[c]
    BY <1>1 DEF Stream
  <2> QED
    BY <2>1, <2>2
<1>4. CASE peer[c] # "up"
  <2>1. Echo!Drop(c)
    BY <1>1, <1>2, <1>3, <1>4 DEF Echo!Drop, Echo!Echoed
  <2> QED
    BY <1>1, <2>1 DEF Echo!Next
<1>5. CASE peer[c] = "up"
  <2>1. EntryHolds(k) /\ EntryReady(k)
    BY <1>1 DEF IInv, EventsHold, ReadyOrNew
  <2>2. "POLLIN" \in Pollfds[k].revents /\ RecvWouldBlock(c)
    <3>1. CASE SendFails(c, ptr.recvbytes - ptr.sendbytes) /\ "POLLOUT" \in Pollfds[k].revents
      <4>1. Pending(k) /\ SendWouldBlock(c)
        BY <1>1, <1>5, <3>1 DEF SendFails, Pending, SendWouldBlock
      <4> QED
        BY <2>1, <3>1, <4>1 DEF EntryHolds
    <3>2. CASE "POLLIN" \in Pollfds[k].revents /\ (RecvEof(c) \/ RecvFails(c))
      BY <1>5, <3>2 DEF RecvEof, RecvFails
    <3> QED
      BY <3>1, <3>2
  <2>3. taken[c] = 0
    BY <2>1, <2>2 DEF EntryReady
  <2>4. sent[c] = 0
    BY <1>1, <2>2, <2>3 DEF RecvWouldBlock, Unread
  <2>5. DropsStale(c)
    BY <1>1, <1>2, <1>5, <2>4 DEF DropsStale
  <2> QED
    BY <1>1, <2>5
<1> QED
  BY <1>4, <1>5

(* send() gives the client the bytes that come next in its stream. *)
LEMMA SendRefines ==
    ASSUME EInv, pc # "exit", pc' = pc, NEW k \in InUse,
           NEW b \in 0 .. (SocketInfoArray[k].recvbytes - SocketInfoArray[k].sendbytes),
           Give(Owner(k), SubSeq(SocketInfoArray[k].buf, SocketInfoArray[k].sendbytes + 1,
                                 SocketInfoArray[k].sendbytes + b))
    PROVE  [Echo!Next]_(Echo!vars)
<1> USE DEF EInv
<1> DEFINE c == Owner(k)
           ptr == SocketInfoArray[k]
           bytes == SubSeq(ptr.buf, ptr.sendbytes + 1, ptr.sendbytes + b)
<1>1. /\ c \in Clients /\ link[c] = "open" /\ taken[c] \in Nat /\ sent[c] \in Nat
      /\ out \in [Clients -> Seq(Bytes)] /\ ptr.buf \in Seq(Bytes) /\ ptr.recvbytes \in Nat
      /\ ptr.sendbytes \in Nat /\ taken[c] <= sent[c]
      /\ Booked(ptr, c, taken[c], Len(out[c]))
  BY EntryFacts DEF IInv, TypeOK, SocketsTypeOK, ArrivedFirst
<1>2. b \in Nat /\ b <= ptr.recvbytes - ptr.sendbytes
  BY <1>1
<1>3. /\ out' = [out EXCEPT ![c] = @ \o bytes] /\ link' = link /\ peer' = peer /\ sent' = sent
  BY DEF Give
<1> HIDE DEF c, ptr
<1>4. Len(out[c]) \in Nat
  BY <1>1
<1>5. bytes = Chunk(c, Len(out[c]), b)
  <2>1. /\ c \in Clients /\ taken[c] \in Nat /\ Len(out[c]) \in Nat
        /\ ptr.buf \in Seq(Bytes) /\ ptr.recvbytes \in Nat /\ ptr.sendbytes \in Nat
        /\ Booked(ptr, c, taken[c], Len(out[c]))
        /\ b \in Nat /\ b <= ptr.recvbytes - ptr.sendbytes
    BY <1>1, <1>2, <1>4
  <2> QED
    BY ONLY <2>1, NextBytes, ZenonT(60) DEF bytes
<1> HIDE DEF bytes
<1>6. Len(out[c]) + b <= sent[c]
  BY <1>1, <1>2, <1>4 DEF Booked
<1>7. CASE b = 0
  <2>1. out[c] \o bytes = out[c]
    <3>1. bytes \in Seq(Bytes) /\ Len(bytes) = 0
      BY <1>1, <1>2, <1>4, <1>5, <1>7, ChunkType
    <3> QED
      BY <1>1, <3>1, EmptySeq
  <2> QED
    BY <1>1, <1>3, <2>1 DEF Echo!vars
<1>8. CASE b # 0
  <2>1. b \in 1 .. (sent[c] - Len(out[c]))
    BY <1>1, <1>2, <1>4, <1>6, <1>8
  <2>2. Echo!Echo(c, b)
    BY <1>1, <1>3, <1>5, <1>6 DEF Echo!Echo, Echo!Echoed, Chunk
  <2> QED
    BY <1>1, <2>1, <2>2 DEF Echo!Next, Echo!Echoed
<1> QED
  BY <1>7, <1>8

LEMMA StepRefines ==
    ASSUME EInv, [Next]_vars
    PROVE  [Echo!Next \/ \E c \in Clients : DropsStale(c)]_(Echo!vars)
<1> USE DEF EInv
<1>1. CASE PollCall \/ ScanEnds \/ \E k \in InUse : Skip(k)
  BY <1>1 DEF PollCall, ScanEnds, Skip, Scanning, ScanNext, sockets, Echo!vars
<1>2. CASE AcceptCall
  <2>1. PICK c \in Clients, fd \in Fds : nTotalSockets < FD_SETSIZE /\ Accept(listen_sock, c, fd)
    BY <1>2 DEF AcceptCall
  <2>2. pc = "accept" /\ pc' # "exit"
    BY <1>2 DEF AcceptCall, AfterAccept
  <2>3. ~ NoFreeFd
    BY <2>1 DEF Accept, LowestFree, NoFreeFd
  <2>4. Cardinality(Echo!Open) < SmallerOf(FD_SETSIZE - 1, Cardinality(Fds) - 1)
    <3>1. /\ Cardinality(Echo!Open) = nTotalSockets - 1 /\ nTotalSockets \in Nat
          /\ Cardinality(Echo!Open) < Cardinality(Fds) - 1 /\ FD_SETSIZE \in Nat
      BY <2>2, <2>3, OpenConnections, PollAssumption
    <3> QED
      BY <2>1, <3>1 DEF SmallerOf
  <2>5. Echo!Admit(c)
    BY <2>1, <2>2, <2>4, SameCardinality DEF Accept, Backlog, Echo!Admit
  <2> QED
    BY <2>5 DEF Echo!Next
<1>3. CASE AcceptFull
  <2>1. PICK c \in Clients : AcceptAndClose(listen_sock, c)
    BY <1>3 DEF AcceptFull
  <2>2. pc = "accept" /\ pc' # "exit" /\ nTotalSockets >= FD_SETSIZE
    BY <1>3 DEF AcceptFull, AfterAccept
  <2>3. Cardinality(Echo!Open) >= SmallerOf(FD_SETSIZE - 1, Cardinality(Fds) - 1)
    <3>1. /\ Cardinality(Echo!Open) = nTotalSockets - 1
          /\ nTotalSockets \in Nat /\ Cardinality(Fds) \in Nat /\ FD_SETSIZE \in Nat
      BY <2>2, PollAssumption, OpenConnections
    <3> QED
      BY <2>2, <3>1 DEF SmallerOf
  <2>4. Echo!Refuse(c)
    BY <2>1, <2>2, <2>3, SameCardinality DEF AcceptAndClose, Backlog, Echo!Refuse
  <2> QED
    BY <2>4 DEF Echo!Next
<1>4. CASE AcceptBreaks
  <2>1. pc = "accept" /\ pc' = "exit" /\ CloseAll /\ AcceptFails(listen_sock)
    BY <1>4 DEF AcceptBreaks, Exit
  <2>2. \/ Cardinality(Echo!Open) >= SmallerOf(FD_SETSIZE - 1, Cardinality(Fds) - 1)
        \/ \E c \in Clients : link[c] \in {"backlog", "open"} /\ peer[c] = "rst"
    <3>1. CASE NoFreeFd
      <4>1. /\ Cardinality(Echo!Open) = Cardinality(Fds) - 1
            /\ Cardinality(Fds) \in Nat /\ FD_SETSIZE \in Nat
        BY <2>1, <3>1, PollAssumption, OpenConnections
      <4> QED
        BY <4>1 DEF SmallerOf
    <3>2. CASE ~ NoFreeFd
      BY <2>1, <3>2 DEF AcceptFails, Backlog
    <3> QED
      BY <3>1, <3>2
  <2>3. Echo!Stop
    BY <2>1, <2>2, SameCardinality DEF CloseAll, Echo!Stop
  <2> QED
    BY <2>3 DEF Echo!Next
<1>5. ASSUME NEW k \in InUse, SendKills(k) PROVE Echo!Next
  <2>1. pc = "scan" /\ pc' = "exit" /\ CloseAll /\ peer[Owner(k)] = "rst"
    BY <1>5 DEF SendKills, Scanning, SendError, Exit
  <2>2. Owner(k) \in Clients /\ link[Owner(k)] = "open"
    BY EntryFacts
  <2>3. Echo!Stop
    BY <2>1, <2>2, SameCardinality DEF CloseAll, Echo!Stop
  <2> QED
    BY <2>3 DEF Echo!Next
<1>6. ASSUME NEW k \in InUse, RecvCall(k)
      PROVE  [Echo!Next \/ \E c \in Clients : DropsStale(c)]_(Echo!vars)
  <2>1. pc = "scan" /\ pc' = pc /\ i = k /\ "POLLIN" \in Pollfds[k].revents
    BY <1>6 DEF RecvCall, Scanning, ScanNext
  <2>2. CASE RemoveSocketInfo(k) /\ (RecvEof(Owner(k)) \/ RecvFails(Owner(k)))
    BY <2>1, <2>2, RemoveRefines
  <2>3. CASE \E n : Take(Owner(k), n)
    BY <2>1, <2>3 DEF Take, Echo!vars
  <2> QED
    BY <1>6, <2>2, <2>3 DEF RecvCall
<1>7. ASSUME NEW k \in InUse, SendCall(k)
      PROVE  [Echo!Next \/ \E c \in Clients : DropsStale(c)]_(Echo!vars)
  <2>1. pc = "scan" /\ pc' = pc /\ i = k /\ "POLLOUT" \in Pollfds[k].revents
    BY <1>7 DEF SendCall, Scanning, ScanNext
  <2>2. CASE /\ RemoveSocketInfo(k)
             /\ SendFails(Owner(k), SocketInfoArray[k].recvbytes - SocketInfoArray[k].sendbytes)
    BY <2>1, <2>2, RemoveRefines
  <2>3. CASE \E b \in 0 .. (SocketInfoArray[k].recvbytes - SocketInfoArray[k].sendbytes) :
                Give(Owner(k), SubSeq(SocketInfoArray[k].buf, SocketInfoArray[k].sendbytes + 1,
                                      SocketInfoArray[k].sendbytes + b))
    BY <2>1, <2>3, SendRefines
  <2> QED
    BY <1>7, <2>2, <2>3 DEF SendCall
<1>8. CASE Environment
  BY <1>8, RemoteRefines
<1>9. CASE UNCHANGED vars
  BY <1>9 DEF vars, sockets, server, Echo!vars
<1> QED
  BY <1>1, <1>2, <1>3, <1>4, <1>5, <1>6, <1>7, <1>8, <1>9 DEF Next, Server

(* For all sizes, the poll() server is an echo server for as many clients  *)
(* as its arrays and descriptors have room for, but for one thing: an      *)
(* event left over from the last user of an entry may close a client       *)
(* before its first byte has arrived.  Nobody else is dropped who has not  *)
(* left, and nothing is lost, doubled or sent to somebody else.            *)
THEOREM RefinesUnlessStale == Spec => EchoesUnlessStale
<1>1. Init => Echo!Init
  BY DEF Init, SocketsInit, Echo!Init
<1>2. EInv /\ [Next]_vars => [Echo!Next \/ \E c \in Clients : DropsStale(c)]_(Echo!vars)
  BY StepRefines
<1> QED
  BY <1>1, <1>2, EInvariance, PTL DEF Spec, EchoesUnlessStale
=============================================================================
