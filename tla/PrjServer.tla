------------------------------ MODULE PrjServer -----------------------------
(***************************************************************************)
(* The chat server of the book's project: Linux/Chapter14/PrjServer.cpp    *)
(* and, with IgnoresNfds and SetCapacity = FD_SETSIZE,                     *)
(* Windows/Chapter14/PrjServer.                                            *)
(*                                                                         *)
(* One thread accepts over IPv4 and IPv6, collects messages of BUFSIZE     *)
(* bytes and sends each to all clients with a blocking send().  One action *)
(* per system call with the code up to the next one.                       *)
(***************************************************************************)
EXTENDS TCPSockets

CONSTANTS
    listen_sock4, listen_sock6,
    FD_SETSIZE,    \* size of SocketInfoArray
    SetCapacity,   \* descriptors an fd_set can hold: FD_SETSIZE on Windows
    IgnoresNfds,   \* Windows: select() does not look at its first argument
    Garbage,       \* a byte read from freed memory
    Steady         \* clients that keep reading (fairness only)

ASSUME PrjAssumption ==
    /\ Listeners = {listen_sock4, listen_sock6}
    /\ listen_sock4 # listen_sock6
    /\ NOFILE > 4
    /\ FD_SETSIZE \in Nat
    /\ SetCapacity \in Nat
    /\ IgnoresNfds \in BOOLEAN
    /\ SNDBUF >= BUFSIZE
    /\ Steady \subseteq Clients

VARIABLES
    pc,                \* "select", "accept4", "accept6", "scan", "send", "exit"
    SocketInfoArray,   \* the SOCKETINFO records 1 .. nTotalSockets
    rset,
    i, j,              \* indices of the data loop and of the broadcast loop
    ptr,               \* the sender's record during a broadcast
    log,               \* history: the messages broadcast so far
    joined             \* history: Len(log) when the client was added

server == <<pc, SocketInfoArray, rset, i, j, ptr, log, joined>>
vars == <<sockets, server>>

listenfd4 == 3
listenfd6 == 4
nTotalSockets == Len(SocketInfoArray)
SOCKETINFO == [sock: Fds, buf: Seq(Bytes), recvbytes: Nat]
NoSender == [sock |-> 0, buf |-> <<>>, freed |-> FALSE]

Owner(k) == fdt[SocketInfoArray[k].sock]

Init ==
    /\ SocketsInit([l \in Listeners |->
                      IF l = listen_sock4 THEN listenfd4 ELSE listenfd6])
    /\ pc = "select"
    /\ SocketInfoArray = <<>>
    /\ rset = {}
    /\ i = 1
    /\ j = 1
    /\ ptr = NoSender
    /\ log = <<>>
    /\ joined = [c \in Clients |-> 0]

-----------------------------------------------------------------------------
(* Socket records. *)

AddSocketInfo(c, fd) ==
    /\ SocketInfoArray' =
         Append(SocketInfoArray, [sock |-> fd, buf |-> <<>>, recvbytes |-> 0])
    /\ joined' = [joined EXCEPT ![c] = Len(log)]

(* Mutation: the last record is dropped instead of being moved. *)
RemoveLastSocketInfo(k) ==
    /\ Close(SocketInfoArray[k].sock)
    /\ SocketInfoArray' = SubSeq(SocketInfoArray, 1, nTotalSockets - 1)

(* The last record takes the place of the removed one. *)
RemoveSocketInfo(k) ==
    /\ Close(SocketInfoArray[k].sock)
    /\ SocketInfoArray' =
         [m \in 1 .. (nTotalSockets - 1) |->
             SocketInfoArray[IF m = k THEN nTotalSockets ELSE m]]

GetMaxFDPlus1(s) ==
    LET fds == {s} \cup {SocketInfoArray[k].sock : k \in 1 .. nTotalSockets}
    IN  1 + CHOOSE fd \in fds : \A g \in fds : g <= fd

-----------------------------------------------------------------------------
(* The main loop. *)

(* FD_SET on a full fd_set is ignored, and AddSocketInfo() does not count  *)
(* the descriptors that come before those of the records.                  *)
InSet(k, before) == before + k <= SetCapacity
FdSet(before) == {SocketInfoArray[k].sock : k \in {m \in 1 .. nTotalSockets : InSet(m, before)}}

(* Mutation: the IPv6 listener is not put into the set. *)
ReadSetIPv4 == {listenfd4} \cup FdSet(1)

(* The listening sockets come first. *)
ReadSet == {listenfd4, listenfd6} \cup FdSet(2)

ReadyForRead(fd) ==
    CASE fd = listenfd4 -> Acceptable(listen_sock4)
      [] fd = listenfd6 -> Acceptable(listen_sock6)
      [] OTHER -> Connected(fd) /\ Readable(fdt[fd])

(* select() examines the descriptors below GetMaxFDPlus1(listen_sock4):    *)
(* listen_sock6 is not among them until a client has a higher descriptor.  *)
SelectCall ==
    LET examined == {fd \in Fds : IgnoresNfds \/ fd < GetMaxFDPlus1(listenfd4)}
        r == {fd \in ReadSet \cap examined : ReadyForRead(fd)}
    IN  /\ pc = "select"
        /\ r # {}
        /\ rset' = r
        /\ pc' = IF listenfd4 \in r THEN "accept4"
                 ELSE IF listenfd6 \in r THEN "accept6" ELSE "scan"
        /\ i' = 1
        /\ UNCHANGED <<sockets, SocketInfoArray, j, ptr, log, joined>>

AfterAccept ==
    /\ pc' = IF pc = "accept4" /\ listenfd6 \in rset THEN "accept6" ELSE "scan"
    /\ UNCHANGED <<rset, i, j, ptr, log>>

ListenerAtHand == IF pc = "accept4" THEN listen_sock4 ELSE listen_sock6

AcceptCall ==
    /\ pc \in {"accept4", "accept6"}
    /\ nTotalSockets < FD_SETSIZE
    /\ \E c \in Clients, fd \in Fds :
          Accept(ListenerAtHand, c, fd) /\ AddSocketInfo(c, fd)
    /\ AfterAccept

(* AddSocketInfo() fails: the new socket is closed. *)
AcceptFull ==
    /\ pc \in {"accept4", "accept6"}
    /\ nTotalSockets >= FD_SETSIZE
    /\ \E c \in Clients : AcceptAndClose(ListenerAtHand, c)
    /\ UNCHANGED <<SocketInfoArray, joined>>
    /\ AfterAccept

Exit ==
    /\ pc' = "exit"
    /\ CloseAll
    /\ SocketInfoArray' = <<>>
    /\ UNCHANGED <<rset, i, j, ptr, log, joined>>

(* accept() fails: break, and main() returns. *)
AcceptBreaks ==
    /\ pc \in {"accept4", "accept6"}
    /\ AcceptFails(ListenerAtHand)
    /\ Exit

Scanning(k) == pc = "scan" /\ i = k /\ k <= nTotalSockets

(* Mutation: recv(sock, buf, ...) for recv(sock, buf + recvbytes, ...). *)
AssembledAtStart(info, c, n) ==
    Chunk(c, taken[c], n) \o SubSeq(info.buf, n + 1, info.recvbytes)

(* The message so far: what was there and the n bytes that recv() adds. *)
Assembled(info, c, n) ==
    SubSeq(info.buf, 1, info.recvbytes) \o Chunk(c, taken[c], n)

(* recv() of what the message still lacks.  A complete message starts the  *)
(* broadcast.                                                              *)
RecvCall(k) ==
    LET info == SocketInfoArray[k]
        c == Owner(k)
    IN  /\ Scanning(k)
        /\ info.sock \in rset
        /\ UNCHANGED <<rset, joined>>
        /\ \/ \E n \in 1 .. (BUFSIZE - info.recvbytes) :
                 LET buf == Assembled(info, c, n)
                     full == info.recvbytes + n = BUFSIZE
                 IN  /\ RecvReturns(c, n)
                     /\ Take(c, n)
                     /\ SocketInfoArray' =
                          [SocketInfoArray EXCEPT
                             ![k].buf = buf,
                             ![k].recvbytes = IF full THEN 0 ELSE @ + n]
                     /\ IF full
                        THEN /\ pc' = "send"
                             /\ j' = 1
                             /\ ptr' = [sock |-> info.sock, buf |-> buf, freed |-> FALSE]
                             /\ log' = Append(log, buf)
                             /\ i' = i
                        ELSE i' = i + 1 /\ UNCHANGED <<pc, j, ptr, log>>
           \/ /\ RecvEof(c) \/ RecvError(c)
              /\ RemoveSocketInfo(k)
              /\ i' = i + 1
              /\ UNCHANGED <<pc, j, ptr, log>>

Skip(k) ==
    /\ Scanning(k)
    /\ SocketInfoArray[k].sock \notin rset
    /\ i' = i + 1
    /\ UNCHANGED <<sockets, pc, SocketInfoArray, rset, j, ptr, log, joined>>

ScanEnds ==
    /\ pc = "scan"
    /\ i > nTotalSockets
    /\ pc' = "select"
    /\ rset' = {}
    /\ UNCHANGED <<sockets, SocketInfoArray, i, j, ptr, log, joined>>

(* Mutation: send(..., ptr->recvbytes, 0), but recvbytes is 0 again. *)
ContentsByCount == {<<>>}

(* What send() finds in ptr->buf: the message or, once the sender's record *)
(* was deleted, whatever the freed memory holds.                           *)
Contents == {ptr.buf} \cup {[k \in 1 .. BUFSIZE |-> Garbage] : freed \in {ptr.freed} \cap {TRUE}}

(* Mutation: a client that does not read is put out. *)
SendCallImpatient(k) ==
    /\ pc = "send"
    /\ j = k
    /\ k <= nTotalSockets
    /\ \/ /\ peer[Owner(k)] # "rst" /\ BUFSIZE <= SendSpace(Owner(k))
          /\ \E bytes \in Contents : Give(Owner(k), bytes)
          /\ j' = j + 1
          /\ UNCHANGED <<SocketInfoArray, ptr>>
       \/ /\ SendFails(Owner(k), BUFSIZE)
          /\ RemoveSocketInfo(k)
          /\ j' = j
          /\ ptr' = [ptr EXCEPT !.freed = @ \/ SocketInfoArray[k].sock = ptr.sock]
    /\ UNCHANGED <<pc, rset, i, log, joined>>

(* send() blocks until the kernel has taken the whole message. *)
SendCall(k) ==
    LET c == Owner(k)
    IN  /\ pc = "send"
        /\ j = k
        /\ k <= nTotalSockets
        /\ \/ /\ peer[c] # "rst"
              /\ BUFSIZE <= SendSpace(c)
              /\ \E bytes \in Contents : Give(c, bytes)
              /\ j' = j + 1
              /\ UNCHANGED <<SocketInfoArray, ptr>>
           \/ /\ SendError(c)
              /\ RemoveSocketInfo(k)
              /\ j' = j
              /\ ptr' = [ptr EXCEPT !.freed = @ \/ SocketInfoArray[k].sock = ptr.sock]
        /\ UNCHANGED <<pc, rset, i, log, joined>>

(* SIGPIPE is not handled. *)
SendKills(k) ==
    /\ SigPipe
    /\ pc = "send"
    /\ j = k
    /\ k <= nTotalSockets
    /\ SendError(Owner(k))
    /\ Exit

SendEnds ==
    /\ pc = "send"
    /\ j > nTotalSockets
    /\ pc' = "scan"
    /\ i' = i + 1
    /\ ptr' = NoSender
    /\ UNCHANGED <<sockets, SocketInfoArray, rset, j, log, joined>>

Server ==
    \/ SelectCall \/ AcceptCall \/ AcceptFull \/ AcceptBreaks \/ ScanEnds \/ SendEnds
    \/ \E k \in 1 .. nTotalSockets :
          RecvCall(k) \/ Skip(k) \/ SendCall(k) \/ SendKills(k)

Environment == (\E c \in Clients : Remote(c)) /\ UNCHANGED server

Next == Server \/ Environment

Spec == Init /\ [][Next]_vars

Fairness ==
    /\ WF_vars(Server)
    /\ \A c \in Steady : WF_vars(ClientRead(c) /\ UNCHANGED server)

FairSpec == Spec /\ Fairness

-----------------------------------------------------------------------------
(* Properties. *)

ChatBytes == Bytes \cup {Garbage}

TypeOK ==
    /\ link \in [Clients -> {"new", "backlog", "open", "closed"}]
    /\ peer \in [Clients -> {"up", "fin", "rst"}]
    /\ out \in [Clients -> Seq(ChatBytes)]
    /\ fdt \in [Fds -> Clients \cup Listeners \cup {Free}]
    /\ pc \in {"select", "accept4", "accept6", "scan", "send", "exit"}
    /\ SocketInfoArray \in Seq(SOCKETINFO)
    /\ \A k \in 1 .. nTotalSockets : SocketInfoArray[k].recvbytes < BUFSIZE
    /\ rset \subseteq Fds
    /\ i \in Nat \ {0} /\ j \in Nat \ {0}
    /\ ptr \in [sock: Fds \cup {0}, buf: Seq(Bytes), freed: BOOLEAN]
    /\ log \in Seq(Seq(Bytes))
    /\ joined \in [Clients -> Nat]

(* How many of the first m broadcasts were messages of c. *)
Broadcasts(c, m) == Cardinality({x \in 1 .. m : log[x][1][1] = c})

(* Messages are never torn or mixed: what is broadcast is always a whole   *)
(* message of BUFSIZE bytes of a single client, however its bytes arrived, *)
(* and every client's messages are broadcast in the order it sent them.    *)
WholeMessages ==
    \A m \in 1 .. Len(log) : \E c \in Clients :
       log[m] = Chunk(c, BUFSIZE * Broadcasts(c, m - 1), BUFSIZE)

(* What c was sent, message by message. *)
Received(c) == Len(out[c]) \div BUFSIZE
Message(c, q) == SubSeq(out[c], (q - 1) * BUFSIZE + 1, q * BUFSIZE)

(* All clients see the same messages in the same order, from the moment    *)
(* they were added: message q of c is message joined[c] + q of the server, *)
(* or what has become of it after its buffer was freed.  Nothing is left   *)
(* out: outside a broadcast every connected client has had them all, in a  *)
(* broadcast those before index j have and the others lack the last one.   *)
CommonOrder ==
    /\ \A c \in Clients : \A q \in 1 .. Received(c) :
          Message(c, q) \in {log[joined[c] + q], [k \in 1 .. BUFSIZE |-> Garbage]}
    /\ \A k \in 1 .. nTotalSockets :
          joined[Owner(k)] + Received(Owner(k)) =
             IF pc = "send" /\ k >= j THEN Len(log) - 1 ELSE Len(log)

(* Every client connected at the time is sent the data of the message.     *)
DeliveredIntact ==
    \A c \in Clients : \A q \in 1 .. Received(c) :
       Message(c, q) = log[joined[c] + q]

(* recv() and the records: every record is an open connection of its own,  *)
(* and the server never calls a blocking recv() on a socket with nothing   *)
(* to return, although broadcasts and removals move the records about      *)
(* while the data loop runs.                                               *)
NeverStuckInRecv ==
    /\ \A k \in 1 .. nTotalSockets :
          /\ Connected(SocketInfoArray[k].sock)
          /\ SocketInfoArray[k].sock \in rset /\ k > i => ~ RecvWouldBlock(Owner(k))
          /\ SocketInfoArray[k].sock \in rset /\ k = i /\ pc = "scan"
                => ~ RecvWouldBlock(Owner(k))
    /\ \A k, m \in 1 .. nTotalSockets :
          SocketInfoArray[k].sock = SocketInfoArray[m].sock => k = m

(* The clients see a chat room: ChatRoom with the connections as places    *)
(* and the stream each client was sent as the messages it was told.  A     *)
(* seat is a record of SocketInfoArray; the doors close when accept()      *)
(* finds no descriptor besides the standard three and the listeners'.      *)
Text == [c \in Clients |-> [n \in Nat |-> Chunk(c, BUFSIZE * (n - 1), BUFSIZE)]]
Place == [c \in Clients |-> CASE link[c] = "open" -> "inside"
                              [] link[c] = "closed" -> "gone"
                              [] OTHER -> "outside"]
Away == {c \in Clients : peer[c] # "up"}
Said == [c \in Clients |-> taken[c] \div BUFSIZE]
Spoken == [m \in 1 .. Len(log) |-> [from |-> log[m][1][1], text |-> log[m]]]
Told == [c \in Clients |-> [q \in 1 .. Received(c) |-> Message(c, q)]]

Room == INSTANCE ChatRoom WITH
    Garbled <- [k \in 1 .. BUFSIZE |-> Garbage], Seats <- FD_SETSIZE, Doors <- NOFILE - 5,
    open <- pc # "exit", place <- Place, away <- Away, said <- Said, log <- Spoken,
    start <- joined, told <- Told

(* Every step of the server is one of the chat room: nobody is put out who *)
(* has not left, nobody is turned away before all seats are taken, nobody  *)
(* comes in or speaks while a message is on its way, and a message is lost *)
(* on its way only after its speaker has gone.                             *)
ImplementsChat == Room!Spec

(* send() waits for a client that need not read.                           *)
Blocked ==
    /\ pc = "send" /\ j <= nTotalSockets
    /\ Owner(j) \notin Steady
    /\ peer[Owner(j)] # "rst" /\ SendSpace(Owner(j)) < BUFSIZE

(* The client has a record, but no place in the set of select().           *)
Unheard(c) == \E k \in 1 .. nTotalSockets : Owner(k) = c /\ ~ InSet(k, 2)

(* A client that has connected is accepted, whatever its address family    *)
(* and however many records there are, as long as the server runs and does *)
(* not wait for ever for a client that does not read.                      *)
EveryClientAccepted ==
    \A c \in Clients : link[c] = "backlog" ~> link[c] # "backlog" \/ []Blocked

(* A message that has arrived completely reaches every connected client:   *)
(* the sender and the receiver stay connected for ever and it is not       *)
(* delivered only when the sender's record never comes into the set of     *)
(* select(), or the server is stuck in send() to a client that has stopped *)
(* reading; one that keeps reading never stops the server.                 *)
EveryMessageDelivered ==
    \A c, d \in Clients :
       (/\ link[c] = "open" /\ link[d] = "open"
        /\ peer[c] = "up" /\ sent[c] >= BUFSIZE /\ taken[c] = 0)
          ~> \/ link[c] = "closed" \/ peer[c] # "up"
             \/ link[d] = "closed" \/ peer[d] # "up"
             \/ \E q \in 1 .. Received(d) : Message(d, q) = Chunk(c, 0, BUFSIZE)
             \/ []Unheard(c) \/ []Blocked
=============================================================================
