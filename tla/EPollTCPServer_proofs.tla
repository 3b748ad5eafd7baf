------------------------ MODULE EPollTCPServer_proofs -----------------------
(***************************************************************************)
(* Proofs about module EPollTCPServer, for any set of clients and any size *)
(* of the buffers and the descriptor table.                                *)
(***************************************************************************)
EXTENDS EPollTCPServer, TCPSockets_proofs

Sockets == Fds \ {listenfd}

(* The listening socket keeps its descriptor, and every open connection    *)
(* has one of its own.                                                     *)
DescriptorTable ==
    /\ fdt[listenfd] = (IF pc = "exit" THEN Free ELSE listen_sock)
    /\ \A f, g \in Sockets : fdt[f] \in Clients /\ fdt[f] = fdt[g] => f = g
    /\ \A f \in Sockets : fdt[f] \in Clients => link[fdt[f]] = "open"
    /\ \A f \in Sockets : fdt[f] \notin Clients => fdt[f] = Free
    /\ \A c \in Clients : link[c] = "open" => \E f \in Sockets : fdt[f] = c

(* The books of the connections and of the clients without one. *)
Accounts ==
    /\ \A c \in Clients :
          link[c] \in {"new", "backlog"} => taken[c] = 0 /\ out[c] = <<>>
    /\ \A c \in Clients : \A m \in 1 .. Len(out[c]) : out[c][m] = <<c, m>>
    /\ \A f \in Sockets : Connected(f) =>
          Booked(info[f], fdt[f], taken[fdt[f]], Len(out[fdt[f]]))

ArrivedFirst == \A c \in Clients : taken[c] <= sent[c]

IInv == /\ TypeOK /\ DescriptorTable /\ Accounts /\ ArrivedFirst
        /\ InterestFollowsBuffer /\ EventsStayValid

-----------------------------------------------------------------------------
(* What the invariant says of one connection. *)
LEMMA SocketFacts ==
    ASSUME IInv, NEW f \in Sockets, Connected(f)
    PROVE  /\ f \in Fds /\ f # listenfd /\ fdt[f] \in Clients /\ link[fdt[f]] = "open"
           /\ info[f] \in SOCKETINFO /\ info[f].buf \in Seq(Bytes)
           /\ info[f].recvbytes \in Nat /\ info[f].sendbytes \in Nat
           /\ taken[fdt[f]] \in Nat /\ sent[fdt[f]] \in Nat /\ got[fdt[f]] \in Nat
           /\ out[fdt[f]] \in Seq(Bytes) /\ Len(out[fdt[f]]) \in Nat
           /\ Booked(info[f], fdt[f], taken[fdt[f]], Len(out[fdt[f]]))
           /\ interest[f] = IF info[f].recvbytes > info[f].sendbytes THEN "EPOLLOUT" ELSE "EPOLLIN"
<1>1. /\ f \in Fds /\ f # listenfd /\ fdt[f] \in Clients /\ link[fdt[f]] = "open"
  BY DEF Sockets, Connected, IInv, DescriptorTable
<1>2. /\ info[f] \in SOCKETINFO /\ taken[fdt[f]] \in Nat /\ sent[fdt[f]] \in Nat
      /\ got[fdt[f]] \in Nat /\ out[fdt[f]] \in Seq(Bytes)
  BY <1>1 DEF IInv, TypeOK, SocketsTypeOK
<1>3. /\ info[f].buf \in Seq(Bytes) /\ info[f].recvbytes \in Nat /\ info[f].sendbytes \in Nat
      /\ Len(out[fdt[f]]) \in Nat
  BY <1>2 DEF SOCKETINFO
<1>4. Booked(info[f], fdt[f], taken[fdt[f]], Len(out[fdt[f]]))
  BY DEF IInv, Accounts
<1>5. interest[f] = IF info[f].recvbytes > info[f].sendbytes THEN "EPOLLOUT" ELSE "EPOLLIN"
  BY DEF IInv, InterestFollowsBuffer, Sockets
<1> QED
  BY <1>1, <1>2, <1>3, <1>4, <1>5

LEMMA ListenerApart == /\ listenfd \in Fds /\ listen_sock \notin Clients /\ Free \notin Clients
                       /\ listen_sock # Free
  BY EPollAssumption, SocketsAssumption DEF listenfd, Fds

LEMMA NewInfo == /\ NewSocketInfo \in SOCKETINFO /\ NewSocketInfo.buf = <<>>
                 /\ NewSocketInfo.recvbytes = 0 /\ NewSocketInfo.sendbytes = 0
  BY DEF NewSocketInfo, SOCKETINFO

LEMMA InitIInv == Init => IInv
<1> SUFFICES ASSUME Init PROVE IInv
  OBVIOUS
<1>1. /\ link = [c \in Clients |-> "new"] /\ peer = [c \in Clients |-> "up"]
      /\ sent = [c \in Clients |-> 0] /\ taken = [c \in Clients |-> 0]
      /\ out = [c \in Clients |-> <<>>] /\ got = [c \in Clients |-> 0]
  BY DEF Init, SocketsInit
<1>2. /\ fdt \in [Fds -> Clients \cup Listeners \cup {Free}]
      /\ \A f \in Fds : fdt[f] = IF f = listenfd THEN listen_sock ELSE Free
  <2> DEFINE listenFd == [l \in Listeners |-> IF l = listen_sock THEN listenfd ELSE 0]
  <2>1. fdt = [fd \in Fds |-> IF \E l \in Listeners : listenFd[l] = fd
                              THEN CHOOSE l \in Listeners : listenFd[l] = fd ELSE Free]
    BY DEF Init, SocketsInit
  <2>2. \A fd \in Fds : fd # 0
    BY SocketsAssumption DEF Fds
  <2>3. \A fd \in Fds, l \in Listeners : listenFd[l] = fd <=> (l = listen_sock /\ fd = listenfd)
    BY <2>2 DEF listenfd
  <2>4. listen_sock \in Listeners
    BY EPollAssumption
  <2> HIDE DEF listenFd
  <2>5. ASSUME NEW f \in Fds PROVE fdt[f] = IF f = listenfd THEN listen_sock ELSE Free
    <3>1. CASE f = listenfd
      <4>1. listenFd[listen_sock] = f /\ \A l \in Listeners : listenFd[l] = f => l = listen_sock
        BY <2>3, <2>4, <3>1
      <4>2. (CHOOSE l \in Listeners : listenFd[l] = f) = listen_sock
        BY <2>4, <4>1
      <4> QED
        BY <2>1, <2>4, <3>1, <4>1, <4>2
    <3>2. CASE f # listenfd
      BY <2>1, <2>3, <3>2
    <3> QED
      BY <3>1, <3>2
  <2>6. fdt \in [Fds -> Clients \cup Listeners \cup {Free}]
    BY <2>1, <2>4, <2>5
  <2> QED
    BY <2>5, <2>6
<1>3. /\ pc = "wait" /\ info = [fd \in Fds |-> NewSocketInfo] /\ events = {}
      /\ nready = 0 /\ i = 0
      /\ interest = [fd \in Fds |-> IF fd = listenfd THEN "EPOLLIN" ELSE "none"]
  BY DEF Init
<1>4. SocketsTypeOK
  <2>1. out \in [Clients -> Seq(Bytes)]
    BY <1>1
  <2> QED
    BY <1>1, <1>2, <2>1 DEF SocketsTypeOK
<1>5. TypeOK
  BY <1>3, <1>4, NewInfo DEF TypeOK
<1>6. \A f \in Sockets : ~ Connected(f) /\ fdt[f] = Free
  BY <1>2, ListenerApart DEF Sockets, Connected
<1>7. DescriptorTable
  BY <1>1, <1>2, <1>3, <1>6, ListenerApart DEF DescriptorTable, Connected
<1>8. Accounts
  BY <1>1, <1>6 DEF Accounts
<1>9. InterestFollowsBuffer
  BY <1>3, <1>6 DEF InterestFollowsBuffer, Sockets
<1> QED
  BY <1>1, <1>3, <1>5, <1>7, <1>8, <1>9 DEF IInv, ArrivedFirst, EventsStayValid

-----------------------------------------------------------------------------
(* The steps that leave the sockets and the interest list alone. *)

LEMMA ControlStep ==
    ASSUME IInv, UNCHANGED <<sockets, interest, info>>, pc # "exit",
           pc' \in {"wait", "batch"}, events' \subseteq Fds, nready' \in Nat, i' \in Nat,
           EventsStayValid'
    PROVE  IInv'
<1>1. /\ link' = link /\ peer' = peer /\ sent' = sent /\ taken' = taken /\ out' = out
      /\ got' = got /\ fdt' = fdt /\ interest' = interest /\ info' = info
  BY DEF sockets
<1>2. TypeOK'
  BY <1>1 DEF IInv, TypeOK, SocketsTypeOK
<1>3. DescriptorTable'
  BY <1>1 DEF IInv, DescriptorTable
<1>4. Accounts' /\ ArrivedFirst'
  BY <1>1 DEF IInv, Accounts, ArrivedFirst, Connected
<1>5. InterestFollowsBuffer'
  BY <1>1 DEF IInv, InterestFollowsBuffer, Connected
<1> QED
  BY <1>2, <1>3, <1>4, <1>5 DEF IInv

(* epoll_wait() reports what is ready. *)
LEMMA WaitStep == ASSUME IInv, EPollWait PROVE IInv'
<1> DEFINE ready == {fd \in Fds : Ready(fd)}
<1>1. /\ pc = "wait" /\ events' = ready /\ nready' = Cardinality(ready) /\ i' = 0 /\ pc' = "batch"
      /\ UNCHANGED <<sockets, interest, info>>
  BY DEF EPollWait
<1>2. Cardinality(ready) \in Nat
  <2>1. 3 \in Int /\ NOFILE - 1 \in Int
    BY SocketsAssumption
  <2>2. IsFiniteSet(3 .. (NOFILE - 1))
    BY <2>1, FS_Interval
  <2>3. IsFiniteSet(ready)
    BY <2>2, FS_Subset DEF Fds
  <2> QED
    BY <2>3, FS_CardinalityType
<1>3. ASSUME NEW f \in ready \ {listenfd}
      PROVE  /\ Connected(f)
             /\ interest[f] = "EPOLLIN" => ~ RecvWouldBlock(fdt[f])
             /\ interest[f] = "EPOLLOUT" => ~ SendWouldBlock(fdt[f])
  <2>1. f \in Sockets /\ Ready(f)
    BY DEF Sockets
  <2>2. \/ interest[f] = "EPOLLIN" /\ Readable(fdt[f])
        \/ interest[f] = "EPOLLOUT" /\ Writable(fdt[f])
    BY <2>1 DEF Ready, Sockets
  <2>3. Connected(f)
    BY <2>1, <2>2 DEF IInv, InterestFollowsBuffer, Sockets
  <2>4. /\ sent[fdt[f]] \in Nat /\ taken[fdt[f]] \in Nat /\ Len(out[fdt[f]]) \in Nat
        /\ got[fdt[f]] \in Nat /\ SNDBUF \in Nat
    BY <2>1, <2>3, SocketFacts, SocketsAssumption
  <2> QED
    BY <2>2, <2>3, <2>4 DEF Readable, Writable, RecvWouldBlock, SendWouldBlock, Unread, SendSpace
<1>4. EventsStayValid'
  BY <1>1, <1>3 DEF EventsStayValid, Connected, RecvWouldBlock, SendWouldBlock, Unread,
                    SendSpace, sockets
<1>5. ready \subseteq Fds
  OBVIOUS
<1> HIDE DEF ready
<1> QED
  BY <1>1, <1>2, <1>4, <1>5, ControlStep

LEMMA BatchEndsStep == ASSUME IInv, BatchEnds PROVE IInv'
<1>1. /\ pc = "batch" /\ pc' = "wait" /\ events' = {}
      /\ nready' \in Nat /\ i' \in Nat /\ UNCHANGED <<sockets, interest, info>>
  BY DEF BatchEnds, IInv, TypeOK
<1> QED
  BY <1>1, ControlStep DEF EventsStayValid

(* The steps of the clients. *)
LEMMA RemoteStep == ASSUME IInv, Environment PROVE IInv'
<1>1. PICK c \in Clients : Remote(c)
  BY DEF Environment
<1>2. /\ pc' = pc /\ interest' = interest /\ info' = info /\ events' = events
      /\ nready' = nready /\ i' = i
  BY DEF Environment, server
<1>3. SocketsTypeOK
  BY DEF IInv, TypeOK
<1>4. /\ SocketsTypeOK' /\ taken' = taken /\ out' = out /\ fdt' = fdt
      /\ \A d \in Clients : /\ link'[d] = "open" <=> link[d] = "open"
                            /\ link'[d] \in {"new", "backlog"} => link[d] \in {"new", "backlog"}
  BY <1>1, <1>3, RemoteFrame
<1>5. \A d \in Clients : /\ ~ SendWouldBlock(d) => ~ SendWouldBlock(d)'
                         /\ ~ RecvWouldBlock(d) => ~ RecvWouldBlock(d)'
                         /\ taken'[d] <= sent'[d]
  BY <1>1, <1>3, RemoteKeepsReady DEF IInv, ArrivedFirst
<1>6. TypeOK'
  BY <1>2, <1>4 DEF IInv, TypeOK
<1>7. DescriptorTable'
  BY <1>2, <1>4 DEF IInv, DescriptorTable
<1>8. Accounts' /\ ArrivedFirst'
  BY <1>2, <1>4, <1>5 DEF IInv, Accounts, ArrivedFirst, Connected
<1>9. InterestFollowsBuffer'
  BY <1>2, <1>4 DEF IInv, InterestFollowsBuffer, Connected
<1>10. EventsStayValid'
  <2>1. ASSUME NEW f \in events \ {listenfd}, pc = "batch"
        PROVE  /\ Connected(f)'
               /\ interest'[f] = "EPOLLIN" => ~ RecvWouldBlock(fdt[f])'
               /\ interest'[f] = "EPOLLOUT" => ~ SendWouldBlock(fdt[f])'
    <3>1. /\ Connected(f)
          /\ interest[f] = "EPOLLIN" => ~ RecvWouldBlock(fdt[f])
          /\ interest[f] = "EPOLLOUT" => ~ SendWouldBlock(fdt[f])
      BY <2>1 DEF IInv, EventsStayValid
    <3>2. fdt'[f] = fdt[f] /\ fdt[f] \in Clients
      BY <1>4, <3>1 DEF Connected
    <3> QED
      BY <1>2, <1>5, <3>1, <3>2 DEF Connected, RecvWouldBlock, SendWouldBlock, Unread, SendSpace
  <2> QED
    BY <1>2, <2>1 DEF EventsStayValid
<1> QED
  BY <1>6, <1>7, <1>8, <1>9, <1>10 DEF IInv

-----------------------------------------------------------------------------
(* The steps of an accept(), and of the end of the process. *)

(* accept() gives the new socket the lowest free descriptor: no event of   *)
(* the batch names it, because an event names an open connection.          *)
LEMMA AcceptStep == ASSUME IInv, AcceptCall PROVE IInv'
<1>1. PICK c \in Clients, fd \in Fds : Accept(listen_sock, c, fd) /\ RegisterEvent(fd, "EPOLLIN")
  BY DEF AcceptCall
<1>2. /\ link[c] = "backlog" /\ fdt[fd] = Free
      /\ link' = [link EXCEPT ![c] = "open"] /\ fdt' = [fdt EXCEPT ![fd] = c]
      /\ peer' = peer /\ sent' = sent /\ taken' = taken /\ out' = out /\ got' = got
      /\ info' = [info EXCEPT ![fd] = NewSocketInfo]
      /\ interest' = [interest EXCEPT ![fd] = "EPOLLIN"]
  BY <1>1 DEF Accept, Backlog, LowestFree, RegisterEvent
<1>3. /\ pc = "batch" /\ pc' \in {"batch", "wait"} /\ nready' \in Nat /\ i' \in Nat
      /\ events' \subseteq events
  <2>1. i \in Nat /\ nready \in Nat /\ i < nready
    BY DEF AcceptCall, Event, IInv, TypeOK
  <2> QED
    BY <2>1 DEF AcceptCall, Event
<1>4. fd \in Sockets
  BY <1>2, <1>3, ListenerApart DEF Sockets, IInv, DescriptorTable
<1>5. /\ fdt' \in [Fds -> Clients \cup Listeners \cup {Free}] /\ fdt'[fd] = c
      /\ \A f \in Fds \ {fd} : fdt'[f] = fdt[f]
      /\ link' \in [Clients -> {"new", "backlog", "open", "closed"}] /\ link'[c] = "open"
      /\ \A d \in Clients \ {c} : link'[d] = link[d]
  BY <1>2 DEF IInv, TypeOK, SocketsTypeOK
<1>6. /\ info' \in [Fds -> SOCKETINFO] /\ info'[fd] = NewSocketInfo
      /\ \A f \in Fds \ {fd} : info'[f] = info[f]
      /\ interest' \in [Fds -> {"none", "EPOLLIN", "EPOLLOUT"}] /\ interest'[fd] = "EPOLLIN"
      /\ \A f \in Fds \ {fd} : interest'[f] = interest[f]
  BY <1>2, NewInfo DEF IInv, TypeOK
<1>7. \A f \in Fds : fdt[f] # c
  <2>1. \A f \in Sockets : fdt[f] # c
    BY <1>2 DEF IInv, DescriptorTable
  <2> QED
    BY <1>3, <2>1, ListenerApart DEF IInv, DescriptorTable, Sockets
<1>8. fd \notin events
  BY <1>2, <1>3, <1>4, ListenerApart DEF IInv, EventsStayValid, Connected, Sockets
<1>9. TypeOK'
  BY <1>2, <1>3, <1>5, <1>6 DEF IInv, TypeOK, SocketsTypeOK
<1>10. DescriptorTable'
  <2>1. fdt'[listenfd] = listen_sock /\ pc' # "exit"
    BY <1>3, <1>4, <1>5, ListenerApart DEF IInv, DescriptorTable, Sockets
  <2>2. \A f, g \in Sockets : fdt'[f] \in Clients /\ fdt'[f] = fdt'[g] => f = g
    BY <1>5, <1>7 DEF IInv, DescriptorTable, Sockets
  <2>3. \A f \in Sockets : /\ fdt'[f] \in Clients => link'[fdt'[f]] = "open"
                           /\ fdt'[f] \notin Clients => fdt'[f] = Free
    BY <1>5 DEF IInv, DescriptorTable, Sockets
  <2>4. ASSUME NEW d \in Clients, link'[d] = "open" PROVE \E f \in Sockets : fdt'[f] = d
    <3>1. CASE d = c
      BY <1>4, <1>5, <3>1
    <3>2. CASE d # c
      <4>1. PICK f \in Sockets : fdt[f] = d
        BY <1>5, <2>4, <3>2 DEF IInv, DescriptorTable
      <4> QED
        BY <1>2, <1>5, <4>1, ListenerApart DEF Sockets
    <3> QED
      BY <3>1, <3>2
  <2> QED
    BY <2>1, <2>2, <2>3, <2>4 DEF DescriptorTable
<1>11. Accounts'
  <2>1. taken[c] = 0 /\ out[c] = <<>> /\ Len(out[c]) = 0
    BY <1>2 DEF IInv, Accounts
  <2>2. \A d \in Clients : link'[d] \in {"new", "backlog"} => taken'[d] = 0 /\ out'[d] = <<>>
    BY <1>2, <1>5 DEF IInv, Accounts
  <2>3. Booked(NewSocketInfo, c, taken[c], Len(out[c]))
    BY <2>1, NewInfo DEF Booked
  <2>4. ASSUME NEW f \in Sockets, fdt'[f] \in Clients
        PROVE  Booked(info'[f], fdt'[f], taken[fdt'[f]], Len(out[fdt'[f]]))
    <3>1. CASE f = fd
      BY <1>5, <1>6, <2>3, <3>1
    <3>2. CASE f # fd
      <4>1. f \in Fds \ {fd}
        BY <3>2 DEF Sockets
      <4> QED
        BY <1>5, <1>6, <2>4, <4>1 DEF IInv, Accounts, Connected
    <3> QED
      BY <3>1, <3>2
  <2> QED
    BY <1>2, <2>2, <2>4 DEF IInv, Accounts, Connected
<1>12. ArrivedFirst'
  BY <1>2 DEF IInv, ArrivedFirst
<1>13. InterestFollowsBuffer'
  <2>1. ASSUME NEW f \in Fds \ {listenfd}
        PROVE  interest'[f] = (IF fdt'[f] \notin Clients THEN "none"
                               ELSE IF info'[f].recvbytes > info'[f].sendbytes
                               THEN "EPOLLOUT" ELSE "EPOLLIN")
    <3>1. CASE f = fd
      BY <1>5, <1>6, <3>1, NewInfo
    <3>2. CASE f # fd
      BY <1>5, <1>6, <3>2 DEF IInv, InterestFollowsBuffer, Connected
    <3> QED
      BY <3>1, <3>2
  <2> QED
    BY <2>1 DEF InterestFollowsBuffer, Connected
<1>14. EventsStayValid'
  <2>1. ASSUME NEW f \in events' \ {listenfd}
        PROVE  /\ Connected(f)'
               /\ interest'[f] = "EPOLLIN" => ~ RecvWouldBlock(fdt[f])'
               /\ interest'[f] = "EPOLLOUT" => ~ SendWouldBlock(fdt[f])'
    <3>1. f \in events \ {listenfd} /\ f \in Fds \ {fd}
      BY <1>3, <1>8 DEF IInv, TypeOK
    <3>2. /\ Connected(f)
          /\ interest[f] = "EPOLLIN" => ~ RecvWouldBlock(fdt[f])
          /\ interest[f] = "EPOLLOUT" => ~ SendWouldBlock(fdt[f])
      BY <1>3, <3>1 DEF IInv, EventsStayValid
    <3>3. fdt'[f] = fdt[f] /\ interest'[f] = interest[f]
      BY <1>5, <1>6, <3>1
    <3> QED
      BY <1>2, <3>2, <3>3 DEF Connected, RecvWouldBlock, SendWouldBlock, Unread, SendSpace
  <2> QED
    BY <2>1 DEF EventsStayValid
<1> QED
  BY <1>9, <1>10, <1>11, <1>12, <1>13, <1>14 DEF IInv

(* The process ends. *)
LEMMA ExitStep == ASSUME IInv, Exit PROVE IInv'
<1>1. /\ link' = [c \in Clients |-> IF link[c] \in {"backlog", "open"} THEN "closed" ELSE link[c]]
      /\ fdt' = [fd \in Fds |-> Free] /\ peer' = peer /\ sent' = sent
      /\ taken' = taken /\ out' = out /\ got' = got
      /\ pc' = "exit" /\ interest' = [fd \in Fds |-> "none"]
      /\ info' = [fd \in Fds |-> NewSocketInfo]
      /\ events' = events /\ nready' = nready /\ i' = i
  BY DEF Exit, CloseAll
<1>2. TypeOK'
  <2>1. link' \in [Clients -> {"new", "backlog", "open", "closed"}]
    BY <1>1 DEF IInv, TypeOK, SocketsTypeOK
  <2>2. /\ fdt' \in [Fds -> Clients \cup Listeners \cup {Free}]
        /\ info' \in [Fds -> SOCKETINFO] /\ interest' \in [Fds -> {"none", "EPOLLIN", "EPOLLOUT"}]
    BY <1>1, NewInfo
  <2> QED
    BY <1>1, <2>1, <2>2 DEF IInv, TypeOK, SocketsTypeOK
<1>3. \A c \in Clients : /\ link'[c] # "open"
                         /\ link'[c] \in {"new", "backlog"} => link[c] \in {"new", "backlog"}
  BY <1>1
<1>4. \A f \in Fds : fdt'[f] = Free /\ fdt'[f] \notin Clients /\ interest'[f] = "none"
  BY <1>1, ListenerApart
<1>5. DescriptorTable'
  BY <1>1, <1>3, <1>4, ListenerApart DEF DescriptorTable, Sockets
<1>6. Accounts'
  BY <1>1, <1>3, <1>4 DEF IInv, Accounts, Connected, Sockets
<1>7. ArrivedFirst'
  BY <1>1 DEF IInv, ArrivedFirst
<1>8. InterestFollowsBuffer'
  BY <1>4 DEF InterestFollowsBuffer, Connected
<1> QED
  BY <1>1, <1>2, <1>5, <1>6, <1>7, <1>8 DEF IInv, EventsStayValid

-----------------------------------------------------------------------------
(* The steps of one socket. *)

(* EPOLL_CTL_DEL, close() and delete: the descriptor is free again, and    *)
(* with its event gone no event of the batch names it.                     *)
LEMMA RemoveStep ==
    ASSUME IInv, NEW fd \in Sockets, Event(fd), Connected(fd), Forget(fd), EventDone(fd)
    PROVE  IInv'
<1> DEFINE c == fdt[fd]
<1>1. /\ link' = [link EXCEPT ![c] = "closed"] /\ fdt' = [fdt EXCEPT ![fd] = Free]
      /\ peer' = peer /\ sent' = sent /\ taken' = taken /\ out' = out /\ got' = got
      /\ info' = [info EXCEPT ![fd] = NewSocketInfo]
      /\ interest' = [interest EXCEPT ![fd] = "none"]
  BY DEF Forget, Close
<1>2. /\ pc = "batch" /\ pc' = pc /\ nready' = nready /\ i' = i + 1 /\ i \in Nat
      /\ events' = events \ {fd}
  BY DEF Event, EventDone, IInv, TypeOK
<1>3. c \in Clients /\ fd \in Fds /\ fd # listenfd
  BY SocketFacts
<1> HIDE DEF c
<1>4. /\ fdt' \in [Fds -> Clients \cup Listeners \cup {Free}] /\ fdt'[fd] = Free
      /\ \A f \in Fds \ {fd} : fdt'[f] = fdt[f]
      /\ link' \in [Clients -> {"new", "backlog", "open", "closed"}] /\ link'[c] = "closed"
      /\ \A d \in Clients \ {c} : link'[d] = link[d]
  BY <1>1, <1>3 DEF IInv, TypeOK, SocketsTypeOK
<1>5. /\ info' \in [Fds -> SOCKETINFO] /\ \A f \in Fds \ {fd} : info'[f] = info[f]
      /\ interest' \in [Fds -> {"none", "EPOLLIN", "EPOLLOUT"}] /\ interest'[fd] = "none"
      /\ \A f \in Fds \ {fd} : interest'[f] = interest[f]
  BY <1>1, <1>3, NewInfo DEF IInv, TypeOK
<1>6. \A f \in Sockets \ {fd} : fdt[f] # c
  BY <1>3 DEF IInv, DescriptorTable, c
<1>7. TypeOK'
  BY <1>1, <1>2, <1>4, <1>5 DEF IInv, TypeOK, SocketsTypeOK
<1>8. DescriptorTable'
  <2>1. fdt'[listenfd] = listen_sock /\ pc' # "exit"
    BY <1>2, <1>3, <1>4, ListenerApart DEF IInv, DescriptorTable
  <2>2. \A f, g \in Sockets : fdt'[f] \in Clients /\ fdt'[f] = fdt'[g] => f = g
    BY <1>4, ListenerApart DEF IInv, DescriptorTable, Sockets
  <2>3. \A f \in Sockets : /\ fdt'[f] \in Clients => link'[fdt'[f]] = "open"
                           /\ fdt'[f] \notin Clients => fdt'[f] = Free
    BY <1>4, <1>6, ListenerApart DEF IInv, DescriptorTable, Sockets
  <2>4. ASSUME NEW d \in Clients, link'[d] = "open" PROVE \E f \in Sockets : fdt'[f] = d
    <3>1. d # c /\ link[d] = "open"
      BY <1>4, <2>4
    <3>2. PICK f \in Sockets : fdt[f] = d
      BY <3>1 DEF IInv, DescriptorTable
    <3> QED
      BY <1>4, <3>1, <3>2 DEF Sockets, c
  <2> QED
    BY <2>1, <2>2, <2>3, <2>4 DEF DescriptorTable
<1>9. Accounts'
  <2>1. \A d \in Clients : link'[d] \in {"new", "backlog"} => taken'[d] = 0 /\ out'[d] = <<>>
    BY <1>1, <1>4 DEF IInv, Accounts
  <2>2. ASSUME NEW f \in Sockets, fdt'[f] \in Clients
        PROVE  Booked(info'[f], fdt'[f], taken[fdt'[f]], Len(out[fdt'[f]]))
    <3>1. f \in Fds \ {fd}
      BY <1>4, <2>2, ListenerApart DEF Sockets
    <3> QED
      BY <1>4, <1>5, <2>2, <3>1 DEF IInv, Accounts, Connected
  <2> QED
    BY <1>1, <2>1, <2>2 DEF IInv, Accounts, Connected
<1>10. ArrivedFirst'
  BY <1>1 DEF IInv, ArrivedFirst
<1>11. InterestFollowsBuffer'
  <2>1. ASSUME NEW f \in Fds \ {listenfd}
        PROVE  interest'[f] = (IF fdt'[f] \notin Clients THEN "none"
                               ELSE IF info'[f].recvbytes > info'[f].sendbytes
                               THEN "EPOLLOUT" ELSE "EPOLLIN")
    <3>1. CASE f = fd
      BY <1>4, <1>5, <3>1, ListenerApart
    <3>2. CASE f # fd
      BY <1>4, <1>5, <3>2 DEF IInv, InterestFollowsBuffer, Connected
    <3> QED
      BY <3>1, <3>2
  <2> QED
    BY <2>1 DEF InterestFollowsBuffer, Connected
<1>12. EventsStayValid'
  <2>1. ASSUME NEW f \in events' \ {listenfd}
        PROVE  /\ Connected(f)'
               /\ interest'[f] = "EPOLLIN" => ~ RecvWouldBlock(fdt[f])'
               /\ interest'[f] = "EPOLLOUT" => ~ SendWouldBlock(fdt[f])'
    <3>1. f \in events \ {listenfd} /\ f \in Fds \ {fd}
      BY <1>2 DEF IInv, TypeOK
    <3>2. /\ Connected(f)
          /\ interest[f] = "EPOLLIN" => ~ RecvWouldBlock(fdt[f])
          /\ interest[f] = "EPOLLOUT" => ~ SendWouldBlock(fdt[f])
      BY <1>2, <3>1 DEF IInv, EventsStayValid
    <3>3. fdt'[f] = fdt[f] /\ interest'[f] = interest[f]
      BY <1>4, <1>5, <3>1
    <3> QED
      BY <1>1, <3>2, <3>3 DEF Connected, RecvWouldBlock, SendWouldBlock, Unread, SendSpace
  <2> QED
    BY <2>1 DEF EventsStayValid
<1> QED
  BY <1>7, <1>8, <1>9, <1>10, <1>11, <1>12 DEF IInv

(* recv() or send() changes the record of one socket and the bytes of its  *)
(* client; it balances the client's books again and keeps the interest in  *)
(* step with the buffer.                                                   *)
LEMMA UpdateStep ==
    ASSUME IInv, NEW fd \in Sockets, Connected(fd), NEW new \in SOCKETINFO,
           NEW what \in {"EPOLLIN", "EPOLLOUT"},
           what = IF new.recvbytes > new.sendbytes THEN "EPOLLOUT" ELSE "EPOLLIN",
           info' = [info EXCEPT ![fd] = new],
           interest' = [interest EXCEPT ![fd] = what],
           taken' \in [Clients -> Nat], out' \in [Clients -> Seq(Bytes)],
           \A d \in Clients \ {fdt[fd]} : taken'[d] = taken[d] /\ out'[d] = out[d],
           \A m \in 1 .. Len(out'[fdt[fd]]) : out'[fdt[fd]][m] = <<fdt[fd], m>>,
           taken'[fdt[fd]] <= sent[fdt[fd]],
           Booked(new, fdt[fd], taken'[fdt[fd]], Len(out'[fdt[fd]])),
           UNCHANGED <<link, peer, sent, got, fdt>>,
           Event(fd), EventDone(fd)
    PROVE  IInv'
<1> DEFINE c == fdt[fd]
<1>1. /\ c \in Clients /\ link[c] = "open" /\ fd \in Fds
  BY SocketFacts
<1>2. /\ pc = "batch" /\ pc' = pc /\ nready' = nready /\ i' = i + 1 /\ i \in Nat
      /\ events' = events \ {fd}
  BY DEF Event, EventDone, IInv, TypeOK
<1>3. /\ info' \in [Fds -> SOCKETINFO] /\ info'[fd] = new
      /\ \A f \in Fds \ {fd} : info'[f] = info[f]
      /\ interest' \in [Fds -> {"none", "EPOLLIN", "EPOLLOUT"}] /\ interest'[fd] = what
      /\ \A f \in Fds \ {fd} : interest'[f] = interest[f]
  BY <1>1 DEF IInv, TypeOK
<1>4. \A f \in Sockets \ {fd} : fdt[f] # c
  BY <1>1 DEF IInv, DescriptorTable
<1>5. TypeOK'
  BY <1>2, <1>3 DEF IInv, TypeOK, SocketsTypeOK
<1>6. DescriptorTable'
  BY <1>2 DEF IInv, DescriptorTable
<1>7. Accounts'
  <2>1. \A d \in Clients : link'[d] \in {"new", "backlog"} => taken'[d] = 0 /\ out'[d] = <<>>
    BY <1>1 DEF IInv, Accounts
  <2>2. \A d \in Clients : \A m \in 1 .. Len(out'[d]) : out'[d][m] = <<d, m>>
    BY DEF IInv, Accounts
  <2>3. ASSUME NEW f \in Sockets, fdt[f] \in Clients
        PROVE  Booked(info'[f], fdt[f], taken'[fdt[f]], Len(out'[fdt[f]]))
    <3>1. CASE f = fd
      BY <1>3, <3>1
    <3>2. CASE f # fd
      <4>1. Booked(info[f], fdt[f], taken[fdt[f]], Len(out[fdt[f]]))
        BY <2>3 DEF IInv, Accounts, Connected
      <4>2. fdt[f] \in Clients \ {c} /\ f \in Fds \ {fd}
        BY <1>4, <2>3, <3>2 DEF Sockets
      <4> QED
        BY <1>3, <4>1, <4>2
    <3> QED
      BY <3>1, <3>2
  <2> QED
    BY <2>1, <2>2, <2>3 DEF Accounts, Connected
<1>8. ArrivedFirst'
  BY DEF IInv, ArrivedFirst
<1>9. InterestFollowsBuffer'
  <2>1. ASSUME NEW f \in Fds \ {listenfd}
        PROVE  interest'[f] = (IF fdt[f] \notin Clients THEN "none"
                               ELSE IF info'[f].recvbytes > info'[f].sendbytes
                               THEN "EPOLLOUT" ELSE "EPOLLIN")
    <3>1. CASE f = fd
      BY <1>1, <1>3, <3>1
    <3>2. CASE f # fd
      BY <1>3, <3>2 DEF IInv, InterestFollowsBuffer, Connected
    <3> QED
      BY <3>1, <3>2
  <2> QED
    BY <2>1 DEF InterestFollowsBuffer, Connected
<1>10. EventsStayValid'
  <2>1. ASSUME NEW f \in events' \ {listenfd}
        PROVE  /\ Connected(f)'
               /\ interest'[f] = "EPOLLIN" => ~ RecvWouldBlock(fdt[f])'
               /\ interest'[f] = "EPOLLOUT" => ~ SendWouldBlock(fdt[f])'
    <3>1. f \in events \ {listenfd} /\ f \in Fds \ {fd} /\ f \in Sockets \ {fd}
      BY <1>2 DEF IInv, TypeOK, Sockets
    <3>2. /\ Connected(f)
          /\ interest[f] = "EPOLLIN" => ~ RecvWouldBlock(fdt[f])
          /\ interest[f] = "EPOLLOUT" => ~ SendWouldBlock(fdt[f])
      BY <1>2, <3>1 DEF IInv, EventsStayValid
    <3>3. /\ interest'[f] = interest[f] /\ taken'[fdt[f]] = taken[fdt[f]]
          /\ out'[fdt[f]] = out[fdt[f]]
      BY <1>3, <1>4, <3>1, <3>2 DEF Connected
    <3> QED
      BY <3>2, <3>3 DEF Connected, RecvWouldBlock, SendWouldBlock, Unread, SendSpace
  <2> QED
    BY <2>1 DEF EventsStayValid
<1> QED
  BY <1>5, <1>6, <1>7, <1>8, <1>9, <1>10 DEF IInv

(* recv() of b bytes into the empty buffer; the interest becomes EPOLLOUT. *)
LEMMA ReceiveStep ==
    ASSUME IInv, NEW fd \in Sockets, Connected(fd), NEW b \in 1 .. BUFSIZE,
           interest[fd] = "EPOLLIN", RecvReturns(fdt[fd], b), Take(fdt[fd], b),
           info' = [info EXCEPT ![fd].buf = Chunk(fdt[fd], taken[fdt[fd]], b),
                                ![fd].recvbytes = b],
           interest' = IF b > info[fd].sendbytes
                       THEN [interest EXCEPT ![fd] = "EPOLLOUT"] ELSE interest,
           Event(fd), EventDone(fd)
    PROVE  IInv'
<1> DEFINE c == fdt[fd]
           ptr == info[fd]
           new == [ptr EXCEPT !.buf = Chunk(c, taken[c], b), !.recvbytes = b]
<1>1. /\ taken' = [taken EXCEPT ![c] = @ + b] /\ out' = out /\ link' = link /\ fdt' = fdt
      /\ peer' = peer /\ sent' = sent /\ got' = got
  BY DEF Take
<1>2. /\ c \in Clients /\ taken[c] \in Nat /\ sent[c] \in Nat /\ b \in Nat /\ b > 0
      /\ ptr \in SOCKETINFO /\ out[c] \in Seq(Bytes) /\ Len(out[c]) \in Nat
      /\ ptr.recvbytes \in Nat /\ ptr.sendbytes \in Nat
      /\ Booked(ptr, c, taken[c], Len(out[c]))
      /\ interest[fd] = IF ptr.recvbytes > ptr.sendbytes THEN "EPOLLOUT" ELSE "EPOLLIN"
  BY SocketFacts, SocketsAssumption
<1>3. ~ (ptr.recvbytes > ptr.sendbytes) /\ ptr.sendbytes = 0
  <2>1. ~ (ptr.recvbytes > ptr.sendbytes)
    BY <1>2
  <2> QED
    BY <1>2, <2>1 DEF Booked
<1>4. Chunk(c, taken[c], b) \in Seq(Bytes)
  BY <1>2, ChunkType
<1>5. /\ new \in SOCKETINFO /\ new.buf = Chunk(c, taken[c], b)
      /\ new.recvbytes = b /\ new.sendbytes = ptr.sendbytes
  BY <1>2, <1>4 DEF SOCKETINFO
<1>6. info' = [info EXCEPT ![fd] = new]
  OBVIOUS
<1>7. interest' = [interest EXCEPT ![fd] = "EPOLLOUT"]
  BY <1>2, <1>3
<1> HIDE DEF c, ptr, new
<1>8. "EPOLLOUT" = IF new.recvbytes > new.sendbytes THEN "EPOLLOUT" ELSE "EPOLLIN"
  BY <1>2, <1>3, <1>5
<1>9. /\ taken' \in [Clients -> Nat] /\ taken'[c] = taken[c] + b
      /\ \A d \in Clients \ {c} : taken'[d] = taken[d]
      /\ out' \in [Clients -> Seq(Bytes)]
  BY <1>1, <1>2 DEF IInv, TypeOK, SocketsTypeOK
<1>10. Booked(new, c, taken[c] + b, Len(out[c]))
  BY <1>2, <1>3, <1>5, BookedRecv
<1>11. \A m \in 1 .. Len(out'[c]) : out'[c][m] = <<c, m>>
  BY <1>1, <1>2 DEF IInv, Accounts
<1>12. taken'[c] <= sent[c]
  <2>1. b <= sent[c] - taken[c]
    BY DEF RecvReturns, Unread, c
  <2> QED
    BY <1>2, <1>9, <2>1
<1>13. /\ \A d \in Clients \ {c} : taken'[d] = taken[d] /\ out'[d] = out[d]
       /\ Booked(new, c, taken'[c], Len(out'[c]))
  BY <1>1, <1>9, <1>10
<1> QED
  BY <1>1, <1>5, <1>6, <1>7, <1>8, <1>9, <1>11, <1>12, <1>13, UpdateStep DEF c

(* send() of the first b bytes that wait in the buffer; the interest goes  *)
(* back to EPOLLIN when they were all.                                     *)
LEMMA SendStep ==
    ASSUME IInv, NEW fd \in Sockets, Connected(fd), NEW b \in Nat,
           interest[fd] = "EPOLLOUT",
           b <= info[fd].recvbytes - info[fd].sendbytes,
           Give(fdt[fd], SubSeq(info[fd].buf, info[fd].sendbytes + 1, info[fd].sendbytes + b)),
           IF info[fd].sendbytes + b = info[fd].recvbytes
           THEN /\ info' = [info EXCEPT ![fd].recvbytes = 0, ![fd].sendbytes = 0]
                /\ interest' = [interest EXCEPT ![fd] = "EPOLLIN"]
           ELSE /\ info' = [info EXCEPT ![fd].sendbytes = @ + b]
                /\ interest' = interest,
           Event(fd), EventDone(fd)
    PROVE  IInv'
<1> DEFINE c == fdt[fd]
           ptr == info[fd]
           bytes == SubSeq(ptr.buf, ptr.sendbytes + 1, ptr.sendbytes + b)
           new == IF ptr.sendbytes + b = ptr.recvbytes
                  THEN [ptr EXCEPT !.recvbytes = 0, !.sendbytes = 0]
                  ELSE [ptr EXCEPT !.sendbytes = @ + b]
           what == IF ptr.sendbytes + b = ptr.recvbytes THEN "EPOLLIN" ELSE "EPOLLOUT"
<1>1. /\ out' = [out EXCEPT ![c] = @ \o bytes] /\ link' = link /\ fdt' = fdt
      /\ peer' = peer /\ sent' = sent /\ taken' = taken /\ got' = got
  BY DEF Give
<1>2. /\ c \in Clients /\ taken[c] \in Nat /\ ptr \in SOCKETINFO /\ out[c] \in Seq(Bytes)
      /\ ptr.buf \in Seq(Bytes) /\ ptr.recvbytes \in Nat /\ ptr.sendbytes \in Nat
      /\ Len(out[c]) \in Nat /\ b \in Nat /\ fd \in Fds
      /\ Booked(ptr, c, taken[c], Len(out[c]))
  BY SocketFacts
<1>3. info' = [info EXCEPT ![fd] = new]
  OBVIOUS
<1>4. interest' = [interest EXCEPT ![fd] = what]
  <2>1. interest \in [Fds -> {"none", "EPOLLIN", "EPOLLOUT"}]
    BY DEF IInv, TypeOK
  <2> QED
    BY <1>2, <2>1
<1>5. b <= ptr.recvbytes - ptr.sendbytes
  OBVIOUS
<1> HIDE DEF c, ptr, new
<1>6. bytes = Chunk(c, Len(out[c]), b)
  <2>1. /\ c \in Clients /\ taken[c] \in Nat /\ Len(out[c]) \in Nat
        /\ ptr.buf \in Seq(Bytes) /\ ptr.recvbytes \in Nat /\ ptr.sendbytes \in Nat
        /\ Booked(ptr, c, taken[c], Len(out[c]))
        /\ b \in Nat /\ b <= ptr.recvbytes - ptr.sendbytes
    BY <1>2, <1>5
  <2> QED
    BY ONLY <2>1, NextBytes, ZenonT(60) DEF bytes
<1> HIDE DEF bytes
<1>7. /\ new \in SOCKETINFO /\ new.buf = ptr.buf
      /\ \/ /\ ptr.sendbytes + b = ptr.recvbytes
            /\ new.recvbytes = 0 /\ new.sendbytes = 0
         \/ /\ ptr.sendbytes + b # ptr.recvbytes
            /\ new.recvbytes = ptr.recvbytes /\ new.sendbytes = ptr.sendbytes + b
  <2>1. CASE ptr.sendbytes + b = ptr.recvbytes
    BY <1>2, <2>1 DEF SOCKETINFO, new
  <2>2. CASE ptr.sendbytes + b # ptr.recvbytes
    BY <1>2, <2>2 DEF SOCKETINFO, new
  <2> QED
    BY <2>1, <2>2
<1>8. /\ what \in {"EPOLLIN", "EPOLLOUT"}
      /\ what = IF new.recvbytes > new.sendbytes THEN "EPOLLOUT" ELSE "EPOLLIN"
  <2>1. CASE ptr.sendbytes + b = ptr.recvbytes
    <3>1. what = "EPOLLIN" /\ new.recvbytes = 0 /\ new.sendbytes = 0
      BY <1>7, <2>1
    <3> QED
      BY <3>1
  <2>2. CASE ptr.sendbytes + b # ptr.recvbytes
    <3>1. /\ what = "EPOLLOUT" /\ new.recvbytes = ptr.recvbytes
          /\ new.sendbytes = ptr.sendbytes + b
      BY <1>7, <2>2
    <3>2. ptr.recvbytes \in Nat /\ ptr.sendbytes \in Nat /\ b \in Nat
      BY <1>2
    <3>3. ptr.recvbytes > ptr.sendbytes + b
      BY ONLY <1>5, <2>2, <3>2
    <3> QED
      BY <3>1, <3>3
  <2> QED
    BY <2>1, <2>2
<1> HIDE DEF what
<1>9. /\ out[c] \o bytes \in Seq(Bytes) /\ Len(out[c] \o bytes) = Len(out[c]) + b
      /\ \A m \in 1 .. (Len(out[c]) + b) : (out[c] \o bytes)[m] = <<c, m>>
  <2>1. \A m \in 1 .. Len(out[c]) : out[c][m] = <<c, m>>
    BY <1>2 DEF IInv, Accounts
  <2> QED
    BY <1>2, <1>6, <2>1, InOrder, ZenonT(60)
<1>10. /\ out' \in [Clients -> Seq(Bytes)] /\ out'[c] = out[c] \o bytes
       /\ \A d \in Clients \ {c} : out'[d] = out[d]
       /\ taken' \in [Clients -> Nat]
  BY <1>1, <1>2, <1>9 DEF IInv, TypeOK, SocketsTypeOK
<1>11. \A m \in 1 .. Len(out'[c]) : out'[c][m] = <<c, m>>
  BY <1>9, <1>10
<1>12. Booked(new, c, taken'[c], Len(out'[c]))
  <2>1. Booked(new, c, taken[c], Len(out[c]) + b)
    BY <1>2, <1>5, <1>7, BookedSend
  <2> QED
    BY <1>1, <1>9, <1>10, <2>1
<1>13. taken'[c] <= sent[c]
  BY <1>1, <1>2 DEF IInv, ArrivedFirst
<1> QED
  BY <1>1, <1>3, <1>4, <1>7, <1>8, <1>10, <1>11, <1>12, <1>13, UpdateStep DEF c

-----------------------------------------------------------------------------
(* Every step preserves the inductive invariant. *)
LEMMA StepIInv == IInv /\ [Next]_vars => IInv'
<1> SUFFICES ASSUME IInv, [Next]_vars PROVE IInv'
  OBVIOUS
<1>1. CASE EPollWait
  BY <1>1, WaitStep
<1>2. CASE AcceptCall
  BY <1>2, AcceptStep
<1>3. CASE AcceptBreaks
  BY <1>3, ExitStep DEF AcceptBreaks
<1>4. CASE BatchEnds
  BY <1>4, BatchEndsStep
<1>5. ASSUME NEW fd \in Fds, Event(fd), fd # listenfd PROVE fd \in Sockets /\ Connected(fd)
  BY <1>5 DEF Event, IInv, EventsStayValid, Sockets
<1>6. ASSUME NEW fd \in Fds, RecvCall(fd) PROVE IInv'
  <2>1. /\ Event(fd) /\ EventDone(fd) /\ interest[fd] = "EPOLLIN"
        /\ fd \in Sockets /\ Connected(fd)
    BY <1>5, <1>6 DEF RecvCall
  <2>2. CASE Forget(fd)
    BY <2>1, <2>2, RemoveStep
  <2>3. CASE ~ Forget(fd)
    <3>1. PICK b \in 1 .. BUFSIZE :
            /\ RecvReturns(fdt[fd], b)
            /\ Take(fdt[fd], b)
            /\ info' = [info EXCEPT ![fd].buf = Chunk(fdt[fd], taken[fdt[fd]], b),
                                    ![fd].recvbytes = b]
            /\ interest' = IF b > info[fd].sendbytes
                           THEN [interest EXCEPT ![fd] = "EPOLLOUT"] ELSE interest
      BY <1>6, <2>3 DEF RecvCall
    <3> QED
      BY <2>1, <3>1, ReceiveStep
  <2> QED
    BY <2>2, <2>3
<1>7. ASSUME NEW fd \in Fds, SendCall(fd) PROVE IInv'
  <2>1. /\ Event(fd) /\ EventDone(fd) /\ interest[fd] = "EPOLLOUT"
        /\ fd \in Sockets /\ Connected(fd)
    BY <1>5, <1>7 DEF SendCall
  <2>2. CASE Forget(fd)
    BY <2>1, <2>2, RemoveStep
  <2>3. CASE ~ Forget(fd)
    <3>1. PICK b \in 0 .. (info[fd].recvbytes - info[fd].sendbytes) :
            /\ Give(fdt[fd], SubSeq(info[fd].buf, info[fd].sendbytes + 1, info[fd].sendbytes + b))
            /\ IF info[fd].sendbytes + b = info[fd].recvbytes
               THEN /\ info' = [info EXCEPT ![fd].recvbytes = 0, ![fd].sendbytes = 0]
                    /\ interest' = [interest EXCEPT ![fd] = "EPOLLIN"]
               ELSE /\ info' = [info EXCEPT ![fd].sendbytes = @ + b]
                    /\ interest' = interest
      BY <1>7, <2>3 DEF SendCall
    <3>2. b \in Nat /\ b <= info[fd].recvbytes - info[fd].sendbytes
      BY <2>1, SocketFacts
    <3> QED
      BY <2>1, <3>1, <3>2, SendStep
  <2> QED
    BY <2>2, <2>3
<1>8. ASSUME NEW fd \in Fds, SendKills(fd) PROVE IInv'
  BY <1>8, ExitStep DEF SendKills
<1>9. CASE Environment
  BY <1>9, RemoteStep
<1>10. CASE UNCHANGED vars
  <2>1. /\ link' = link /\ peer' = peer /\ sent' = sent /\ taken' = taken /\ out' = out
        /\ got' = got /\ fdt' = fdt /\ pc' = pc /\ info' = info /\ interest' = interest
        /\ events' = events /\ nready' = nready /\ i' = i
    BY <1>10 DEF vars, sockets, server
  <2> QED
    BY <2>1 DEF IInv, TypeOK, SocketsTypeOK, DescriptorTable, Accounts, ArrivedFirst,
                InterestFollowsBuffer, EventsStayValid, Connected, RecvWouldBlock,
                SendWouldBlock, Unread, SendSpace
<1> QED
  BY <1>1, <1>2, <1>3, <1>4, <1>6, <1>7, <1>8, <1>9, <1>10 DEF Next, Server

(* The inductive invariant holds in every reachable state. *)
THEOREM Invariance == Spec => []IInv
  BY InitIInv, StepIInv, PTL DEF Spec

(* The variables stay in their sets: the loop's bound, which an accept()   *)
(* lowers, never falls below zero.                                         *)
THEOREM TypeCorrect == Spec => []TypeOK
<1>1. IInv => TypeOK
  BY DEF IInv
<1> QED
  BY <1>1, Invariance, PTL

(* ModifyEvent() keeps the kernel's interest list in step with the buffers *)
(* for any number of clients, descriptors and bytes: a socket is watched   *)
(* for EPOLLOUT exactly while its buffer has something to send.            *)
THEOREM InterestFollows == Spec => []InterestFollowsBuffer
<1>1. IInv => InterestFollowsBuffer
  BY DEF IInv
<1> QED
  BY <1>1, Invariance, PTL

(* No event of a batch goes stale before the loop comes to it, although    *)
(* earlier events of the same batch close sockets and free descriptors     *)
(* that accept() hands out again.                                          *)
THEOREM EventsValid == Spec => []EventsStayValid
<1>1. IInv => EventsStayValid
  BY DEF IInv
<1> QED
  BY <1>1, Invariance, PTL

-----------------------------------------------------------------------------
(* The server implements the echo service of EchoSpec, for all sizes. *)

LEMMA SameCardinality == \A S : Echo!Cardinality(S) = Cardinality(S)
  BY DEF Echo!Cardinality, Cardinality

(* There are as many open connections as descriptors in use, the listening *)
(* socket's left out.                                                      *)
LEMMA OpenConnections ==
    ASSUME IInv, pc # "exit"
    PROVE  /\ Cardinality(Fds) \in Nat
           /\ NoFreeFd => Cardinality(Echo!Open) = Cardinality(Fds) - 1
           /\ ~ NoFreeFd => Cardinality(Echo!Open) < Cardinality(Fds) - 1
<1> DEFINE used == {f \in Sockets : Connected(f)}
<1>1. /\ IsFiniteSet(Fds) /\ Cardinality(Fds) \in Nat
      /\ IsFiniteSet(Sockets) /\ Cardinality(Sockets) = Cardinality(Fds) - 1
  <2>1. 3 \in Int /\ NOFILE - 1 \in Int /\ listenfd \in Fds
    BY EPollAssumption, SocketsAssumption DEF listenfd, Fds
  <2>2. IsFiniteSet(3 .. (NOFILE - 1))
    BY <2>1, FS_Interval
  <2>3. IsFiniteSet(Fds)
    BY <2>2 DEF Fds
  <2> QED
    BY <2>1, <2>3, FS_RemoveElement, FS_CardinalityType DEF Sockets
<1>2. /\ IsFiniteSet(used) /\ Cardinality(used) \in Nat
      /\ Cardinality(used) <= Cardinality(Sockets)
      /\ Cardinality(used) = Cardinality(Sockets) => used = Sockets
  <2>1. used \subseteq Sockets
    OBVIOUS
  <2> HIDE DEF used
  <2> QED
    BY <1>1, <2>1, FS_Subset, FS_CardinalityType
<1>3. Cardinality(Echo!Open) = Cardinality(used)
  <2> DEFINE owner == [f \in used |-> fdt[f]]
  <2>1. \A f \in used : fdt[f] \in Echo!Open
    BY DEF Echo!Open, IInv, DescriptorTable, Connected
  <2>2. \A f, g \in used : fdt[f] = fdt[g] => f = g
    BY DEF IInv, DescriptorTable, Connected
  <2>3. \A c \in Echo!Open : \E f \in used : fdt[f] = c
    BY DEF Echo!Open, IInv, DescriptorTable, Connected
  <2> HIDE DEF used
  <2>4. owner \in Bijection(used, Echo!Open)
    BY <2>1, <2>2, <2>3 DEF Bijection, Injection, IsInjective, Surjection
  <2> QED
    BY <1>2, <2>4, FS_Bijection DEF ExistsBijection
<1>4. NoFreeFd => used = Sockets
  BY DEF NoFreeFd, IInv, DescriptorTable, Connected, Sockets
<1>5. ~ NoFreeFd => used # Sockets
  <2> SUFFICES ASSUME NEW f \in Fds, fdt[f] = Free PROVE f \in Sockets \ used
    BY DEF NoFreeFd
  <2> QED
    BY ListenerApart DEF IInv, DescriptorTable, Connected, Sockets
<1> HIDE DEF used
<1> QED
  BY <1>1, <1>2, <1>3, <1>4, <1>5

(* What clients do. *)
LEMMA RemoteRefines == ASSUME IInv, Environment PROVE [Echo!Next]_(Echo!vars)
<1> USE DEF Echo!vars
<1>1. PICK c \in Clients : Remote(c)
  BY DEF Environment
<1>2. pc' = pc
  BY DEF Environment, server
<1>3. CASE Connect(c)
  <2>1. pc # "exit"
    <3> SUFFICES ASSUME pc = "exit" PROVE FALSE
      OBVIOUS
    <3>1. PICK f \in Fds : fdt[f] = Dials[c]
      BY <1>3 DEF Connect, Listening
    <3>2. Dials[c] \in Listeners /\ Dials[c] \notin Clients /\ Dials[c] # Free
      BY SocketsAssumption
    <3> QED
      BY <3>1, <3>2 DEF IInv, DescriptorTable, Sockets
  <2>2. Echo!Connect(c)
    BY <1>2, <1>3, <2>1 DEF Connect, Echo!Connect
  <2> QED
    BY <2>2 DEF Echo!Next
<1>4. CASE ClientSend(c)
  <2>1. Echo!Receive(c)
    BY <1>2, <1>4 DEF ClientSend, Echo!Receive
  <2> QED
    BY <2>1 DEF Echo!Next
<1>5. CASE ClientRead(c)
  BY <1>2, <1>5 DEF ClientRead
<1>6. CASE ClientFin(c)
  <2>1. Echo!HangUp(c, "fin")
    BY <1>2, <1>6 DEF ClientFin, Echo!HangUp
  <2> QED
    BY <2>1 DEF Echo!Next
<1>7. CASE ClientReset(c)
  <2>1. Echo!HangUp(c, "rst")
    BY <1>2, <1>7 DEF ClientReset, Echo!HangUp
  <2> QED
    BY <2>1 DEF Echo!Next
<1> QED
  BY <1>1, <1>3, <1>4, <1>5, <1>6, <1>7 DEF Remote

(* A connection is given up only after its client left, and not before     *)
(* what arrived ahead of the end of its stream has been echoed.            *)
LEMMA ForgetRefines ==
    ASSUME IInv, NEW fd \in Sockets, Event(fd), Connected(fd), Forget(fd), pc' = pc,
           \/ interest[fd] = "EPOLLIN" /\ (RecvEof(fdt[fd]) \/ RecvFails(fdt[fd]))
           \/ /\ interest[fd] = "EPOLLOUT"
              /\ SendFails(fdt[fd], info[fd].recvbytes - info[fd].sendbytes)
    PROVE  Echo!Next
<1> DEFINE c == fdt[fd]
<1>1. /\ c \in Clients /\ link[c] = "open" /\ taken[c] \in Nat /\ sent[c] \in Nat
      /\ Len(out[c]) \in Nat
  BY SocketFacts
<1>2. pc = "batch" /\ fd \in events /\ fd # listenfd
  BY SocketFacts DEF Event
<1>3. /\ link' = [link EXCEPT ![c] = "closed"] /\ peer' = peer /\ sent' = sent /\ out' = out
  BY DEF Forget, Close
<1>4. /\ interest[fd] = "EPOLLIN" => ~ RecvWouldBlock(c)
      /\ interest[fd] = "EPOLLOUT" => ~ SendWouldBlock(c)
  BY <1>2 DEF IInv, EventsStayValid
<1>5. peer[c] = "rst" \/ (peer[c] = "fin" /\ Len(out[c]) = sent[c])
  <2>1. CASE /\ interest[fd] = "EPOLLIN"
             /\ RecvEof(c) \/ RecvFails(c)
    <3>1. peer[c] = "rst" \/ (peer[c] = "fin" /\ Unread(c) = 0)
      BY <1>4, <2>1 DEF RecvEof, RecvFails
    <3>2. taken[c] = Len(out[c])
      <4>1. /\ Booked(info[fd], c, taken[c], Len(out[c]))
            /\ info[fd].recvbytes \in Nat /\ info[fd].sendbytes \in Nat
        BY SocketFacts
      <4>2. ~ (info[fd].recvbytes > info[fd].sendbytes)
        BY <2>1, SocketFacts
      <4> QED
        BY <1>1, <4>1, <4>2 DEF Booked
    <3> QED
      BY <1>1, <3>1, <3>2 DEF Unread
  <2>2. CASE /\ interest[fd] = "EPOLLOUT"
             /\ SendFails(c, info[fd].recvbytes - info[fd].sendbytes)
    BY <1>4, <2>2 DEF SendFails, SendWouldBlock
  <2> QED
    BY <2>1, <2>2
<1>6. Echo!Drop(c)
  BY <1>1, <1>2, <1>3, <1>5 DEF Echo!Drop, Echo!Echoed
<1> QED
  BY <1>1, <1>6 DEF Echo!Next

(* send() gives the client the bytes that come next in its stream. *)
LEMMA SendRefines ==
    ASSUME IInv, pc # "exit", pc' = pc, NEW fd \in Sockets, Connected(fd),
           NEW b \in 0 .. (info[fd].recvbytes - info[fd].sendbytes),
           Give(fdt[fd], SubSeq(info[fd].buf, info[fd].sendbytes + 1, info[fd].sendbytes + b))
    PROVE  [Echo!Next]_(Echo!vars)
<1> DEFINE c == fdt[fd]
           ptr == info[fd]
           bytes == SubSeq(ptr.buf, ptr.sendbytes + 1, ptr.sendbytes + b)
<1>1. /\ c \in Clients /\ link[c] = "open" /\ taken[c] \in Nat /\ sent[c] \in Nat
      /\ out \in [Clients -> Seq(Bytes)] /\ ptr.buf \in Seq(Bytes) /\ ptr.recvbytes \in Nat
      /\ ptr.sendbytes \in Nat /\ Len(out[c]) \in Nat /\ taken[c] <= sent[c]
      /\ Booked(ptr, c, taken[c], Len(out[c]))
  BY SocketFacts DEF IInv, TypeOK, SocketsTypeOK, ArrivedFirst
<1>2. b \in Nat /\ b <= ptr.recvbytes - ptr.sendbytes
  BY <1>1
<1>3. /\ out' = [out EXCEPT ![c] = @ \o bytes] /\ link' = link /\ peer' = peer /\ sent' = sent
  BY DEF Give
<1> HIDE DEF c, ptr
<1>4. bytes = Chunk(c, Len(out[c]), b)
  <2>1. /\ c \in Clients /\ taken[c] \in Nat /\ Len(out[c]) \in Nat
        /\ ptr.buf \in Seq(Bytes) /\ ptr.recvbytes \in Nat /\ ptr.sendbytes \in Nat
        /\ Booked(ptr, c, taken[c], Len(out[c]))
        /\ b \in Nat /\ b <= ptr.recvbytes - ptr.sendbytes
    BY <1>1, <1>2
  <2> QED
    BY ONLY <2>1, NextBytes, ZenonT(60) DEF bytes
<1> HIDE DEF bytes
<1>5. Len(out[c]) + b <= sent[c]
  BY <1>1, <1>2 DEF Booked
<1>6. CASE b = 0
  <2>1. out[c] \o bytes = out[c]
    <3>1. bytes \in Seq(Bytes) /\ Len(bytes) = 0
      BY <1>1, <1>2, <1>4, <1>6, ChunkType
    <3> QED
      BY <1>1, <3>1, EmptySeq
  <2> QED
    BY <1>1, <1>3, <2>1 DEF Echo!vars
<1>7. CASE b # 0
  <2>1. b \in 1 .. (sent[c] - Len(out[c]))
    BY <1>1, <1>2, <1>5, <1>7
  <2>2. Echo!Echo(c, b)
    BY <1>1, <1>3, <1>4, <1>5 DEF Echo!Echo, Echo!Echoed, Chunk
  <2> QED
    BY <1>1, <2>1, <2>2 DEF Echo!Next, Echo!Echoed
<1> QED
  BY <1>6, <1>7

LEMMA StepRefines == ASSUME IInv, [Next]_vars PROVE [Echo!Next]_(Echo!vars)
<1>1. CASE EPollWait \/ BatchEnds
  BY <1>1 DEF EPollWait, BatchEnds, sockets, Echo!vars
<1>2. CASE AcceptCall
  <2>1. PICK c \in Clients, fd \in Fds : Accept(listen_sock, c, fd)
    BY <1>2 DEF AcceptCall
  <2>2. pc = "batch" /\ pc' # "exit"
    BY <1>2 DEF AcceptCall, Event
  <2>3. ~ NoFreeFd
    BY <2>1 DEF Accept, LowestFree, NoFreeFd
  <2>4. Cardinality(Echo!Open) < Cardinality(Fds) - 1
    BY <2>2, <2>3, OpenConnections
  <2>5. Echo!Admit(c)
    BY <2>1, <2>2, <2>4, SameCardinality DEF Accept, Backlog, Echo!Admit
  <2> QED
    BY <2>5 DEF Echo!Next
<1>3. CASE AcceptBreaks
  <2>1. pc = "batch" /\ pc' = "exit" /\ CloseAll /\ AcceptFails(listen_sock)
    BY <1>3 DEF AcceptBreaks, Event, Exit
  <2>2. \/ Cardinality(Echo!Open) >= Cardinality(Fds) - 1
        \/ \E c \in Clients : link[c] \in {"backlog", "open"} /\ peer[c] = "rst"
    <3>1. CASE NoFreeFd
      BY <2>1, <3>1, OpenConnections
    <3>2. CASE ~ NoFreeFd
      BY <2>1, <3>2 DEF AcceptFails, Backlog
    <3> QED
      BY <3>1, <3>2
  <2>3. Echo!Stop
    BY <2>1, <2>2, SameCardinality DEF CloseAll, Echo!Stop
  <2> QED
    BY <2>3 DEF Echo!Next
<1>4. ASSUME NEW fd \in Fds, Event(fd), fd # listenfd PROVE fd \in Sockets /\ Connected(fd)
  BY <1>4 DEF Event, IInv, EventsStayValid, Sockets
<1>5. ASSUME NEW fd \in Fds, SendKills(fd) PROVE [Echo!Next]_(Echo!vars)
  <2>1. pc = "batch" /\ pc' = "exit" /\ CloseAll /\ peer[fdt[fd]] = "rst"
    BY <1>5 DEF SendKills, Event, SendError, Exit
  <2>2. fdt[fd] \in Clients /\ link[fdt[fd]] = "open"
    <3>1. fd \in Sockets /\ Connected(fd)
      BY <1>4, <1>5 DEF SendKills
    <3> QED
      BY <3>1, SocketFacts
  <2>3. Echo!Stop
    BY <2>1, <2>2, SameCardinality DEF CloseAll, Echo!Stop
  <2> QED
    BY <2>3 DEF Echo!Next
<1>6. ASSUME NEW fd \in Fds, RecvCall(fd) PROVE [Echo!Next]_(Echo!vars)
  <2>1. /\ Event(fd) /\ pc' = pc /\ interest[fd] = "EPOLLIN"
        /\ fd \in Sockets /\ Connected(fd)
    BY <1>4, <1>6 DEF RecvCall, EventDone
  <2>2. CASE Forget(fd) /\ (RecvEof(fdt[fd]) \/ RecvFails(fdt[fd]))
    BY <2>1, <2>2, ForgetRefines
  <2>3. CASE \E n : Take(fdt[fd], n)
    BY <2>1, <2>3 DEF Take, Echo!vars
  <2> QED
    BY <1>6, <2>2, <2>3 DEF RecvCall
<1>7. ASSUME NEW fd \in Fds, SendCall(fd) PROVE [Echo!Next]_(Echo!vars)
  <2>1. /\ Event(fd) /\ pc' = pc /\ pc = "batch" /\ interest[fd] = "EPOLLOUT"
        /\ fd \in Sockets /\ Connected(fd)
    BY <1>4, <1>7 DEF SendCall, EventDone, Event
  <2>2. CASE Forget(fd) /\ SendFails(fdt[fd], info[fd].recvbytes - info[fd].sendbytes)
    BY <2>1, <2>2, ForgetRefines
  <2>3. CASE \E b \in 0 .. (info[fd].recvbytes - info[fd].sendbytes) :
                Give(fdt[fd], SubSeq(info[fd].buf, info[fd].sendbytes + 1,
                                     info[fd].sendbytes + b))
    BY <2>1, <2>3, SendRefines
  <2> QED
    BY <1>7, <2>2, <2>3 DEF SendCall
<1>8. CASE Environment
  BY <1>8, RemoteRefines
<1>9. CASE UNCHANGED vars
  BY <1>9 DEF vars, sockets, server, Echo!vars
<1> QED
  BY <1>1, <1>2, <1>3, <1>5, <1>6, <1>7, <1>8, <1>9 DEF Next, Server

(* The epoll server is an echo server for as many clients as it has        *)
(* descriptors, whatever their number and the sizes of the buffers are:    *)
(* nothing is echoed to the wrong client, out of order or twice, and       *)
(* nobody is dropped who has not left.                                     *)
THEOREM RefinesEcho == Spec => ImplementsEcho
<1>1. Init => Echo!Init
  BY DEF Init, SocketsInit, Echo!Init
<1>2. IInv /\ [Next]_vars => [Echo!Next]_(Echo!vars)
  BY StepRefines
<1> QED
  BY <1>1, <1>2, Invariance, PTL DEF Spec, ImplementsEcho, Echo!Spec
=============================================================================
