--------------------------- MODULE SelectTCPServer --------------------------
(***************************************************************************)
(* The select() echo server: Linux/Chapter12/SelectTCPServer.cpp and, with *)
(* SetCapacity = FD_SETSIZE, Windows/Chapter11/SelectTCPServer.            *)
(*                                                                         *)
(* One action per system call of the main loop, with all the code up to    *)
(* the next system call.  Between two of them the clients move.            *)
(***************************************************************************)
EXTENDS TCPSockets

CONSTANTS
    listen_sock,   \* the listener of this server
    FD_SETSIZE,    \* size of SocketInfoArray
    SetCapacity,   \* descriptors an fd_set can hold: FD_SETSIZE on Windows
                   \* (an FD_SET on a full set is ignored), NOFILE on Linux,
                   \* where NOFILE <= FD_SETSIZE makes it a bit vector that
                   \* never fills up
    Steady         \* clients that keep reading what they are sent; the
                   \* others may stop reading at any time (fairness only)

ASSUME SelectAssumption ==
    /\ Listeners = {listen_sock}
    /\ NOFILE > 3
    /\ FD_SETSIZE \in Nat
    /\ SetCapacity \in Nat
    /\ Steady \subseteq Clients

VARIABLES
    pc,                \* "select", "accept", "scan", "exit"
    SocketInfoArray,   \* the SOCKETINFO records 1 .. nTotalSockets
    rset, wset,        \* the fd_sets, as select() left them
    nready,
    i                  \* index of the data loop

vars == <<sockets, pc, SocketInfoArray, rset, wset, nready, i>>

listenfd == 3
nTotalSockets == Len(SocketInfoArray)

SOCKETINFO == [sock: Fds, buf: Seq(Bytes), recvbytes: Nat, sendbytes: Nat]

(* Mutation: a record whose sendbytes is not set to 0.                     *)
NewSocketInfoUnset(fd) == [sock |-> fd, buf |-> <<>>, recvbytes |-> 0, sendbytes |-> 1]

NewSocketInfo(fd) == [sock |-> fd, buf |-> <<>>, recvbytes |-> 0, sendbytes |-> 0]

(* The client behind record k, and whether its buffer waits to be sent. *)
Owner(k) == fdt[SocketInfoArray[k].sock]

Pending(k) == SocketInfoArray[k].recvbytes > SocketInfoArray[k].sendbytes

Init ==
    /\ SocketsInit([l \in Listeners |-> listenfd])
    /\ pc = "select"
    /\ SocketInfoArray = <<>>
    /\ rset = {}
    /\ wset = {}
    /\ nready = 0
    /\ i = 1

-----------------------------------------------------------------------------
(* Socket records. *)

AddSocketInfo(fd) == SocketInfoArray' = Append(SocketInfoArray, NewSocketInfo(fd))

(* Mutations: the last record is dropped instead of being moved; the       *)
(* record is removed but its socket is not closed.                         *)
RemoveLastSocketInfo(k) ==
    /\ Close(SocketInfoArray[k].sock)
    /\ SocketInfoArray' = SubSeq(SocketInfoArray, 1, nTotalSockets - 1)
RemoveOpenSocketInfo(k) ==
    /\ UNCHANGED sockets
    /\ SocketInfoArray' =
         [j \in 1 .. (nTotalSockets - 1) |->
             SocketInfoArray[IF j = k THEN nTotalSockets ELSE j]]

(* The last record takes the place of the removed one. *)
RemoveSocketInfo(k) ==
    /\ Close(SocketInfoArray[k].sock)
    /\ SocketInfoArray' =
         [j \in 1 .. (nTotalSockets - 1) |->
             SocketInfoArray[IF j = k THEN nTotalSockets ELSE j]]

(* Mutation: the sockets of the clients are not taken into account. *)
GetListenFDPlus1(s) == 1 + s

GetMaxFDPlus1(s) ==
    LET fds == {s} \cup {SocketInfoArray[k].sock : k \in 1 .. nTotalSockets}
    IN  1 + CHOOSE fd \in fds : \A g \in fds : g <= fd

-----------------------------------------------------------------------------
(* The main loop. *)

(* Record k is entered in the read set unless it has bytes to send; the    *)
(* listening socket comes first.  Entries beyond SetCapacity are dropped.  *)
FdSet(K, before) ==
    {SocketInfoArray[k].sock :
        k \in {m \in K : before + Cardinality({j \in K : j <= m}) <= SetCapacity}}
(* Mutation: every client is read from, whether its buffer is empty or not. *)
ReadSetOfAll == {listenfd} \cup FdSet(1 .. nTotalSockets, 1)

ReadSet == {listenfd} \cup FdSet({k \in 1 .. nTotalSockets : ~ Pending(k)}, 1)
WriteSet == FdSet({k \in 1 .. nTotalSockets : Pending(k)}, 0)

(* Mutation: the sets are used as they were passed to select(). *)
AssumedReady(fd) == TRUE

ReadyForRead(fd) ==
    IF fd = listenfd THEN Acceptable(listen_sock)
    ELSE Connected(fd) /\ Readable(fdt[fd])
ReadyForWrite(fd) == Connected(fd) /\ Writable(fdt[fd])

(* FD_ZERO, FD_SET and select(), which blocks until a socket is ready.     *)
(* Descriptors from nfds upwards are not examined.                         *)
SelectCall ==
    LET examined == {fd \in Fds : fd < GetMaxFDPlus1(listenfd)}
        r == {fd \in ReadSet \cap examined : ReadyForRead(fd)}
        w == {fd \in WriteSet \cap examined : ReadyForWrite(fd)}
    IN  /\ pc = "select"
        /\ r \cup w # {}
        /\ rset' = r
        /\ wset' = w
        /\ nready' = Cardinality(r) + Cardinality(w)
        /\ pc' = IF listenfd \in r THEN "accept" ELSE "scan"
        /\ i' = 1
        /\ UNCHANGED <<sockets, SocketInfoArray>>

(* if (--nready <= 0) continue;  The sets are zeroed at the loop's top. *)
AfterAccept ==
    /\ nready' = nready - 1
    /\ pc' = IF nready - 1 <= 0 THEN "select" ELSE "scan"
    /\ rset' = IF nready - 1 <= 0 THEN {} ELSE rset
    /\ wset' = IF nready - 1 <= 0 THEN {} ELSE wset
    /\ i' = i

AcceptCall ==
    /\ pc = "accept"
    /\ \E c \in Clients, fd \in Fds :
          /\ nTotalSockets < FD_SETSIZE
          /\ Accept(listen_sock, c, fd)
          /\ AddSocketInfo(fd)
    /\ AfterAccept

(* AddSocketInfo() fails: the new socket is closed. *)
AcceptFull ==
    /\ pc = "accept"
    /\ nTotalSockets >= FD_SETSIZE
    /\ \E c \in Clients : AcceptAndClose(listen_sock, c)
    /\ UNCHANGED SocketInfoArray
    /\ AfterAccept

(* accept() fails: break, and main() returns. *)
AcceptBreaks ==
    /\ pc = "accept"
    /\ AcceptFails(listen_sock)
    /\ pc' = "exit"
    /\ CloseAll
    /\ SocketInfoArray' = <<>>
    /\ UNCHANGED <<rset, wset, nready, i>>

Scanning(k) == pc = "scan" /\ i = k /\ k <= nTotalSockets
ScanNext == i' = i + 1 /\ UNCHANGED <<pc, rset, wset, nready>>

(* recv() into a buffer whose bytes have all been sent. *)
RecvCall(k) ==
    LET fd == SocketInfoArray[k].sock
        c == Owner(k)
    IN  /\ Scanning(k)
        /\ fd \in rset
        /\ \/ \E n \in 1 .. BUFSIZE :
                 /\ RecvReturns(c, n)
                 /\ Take(c, n)
                 /\ SocketInfoArray' =
                      [SocketInfoArray EXCEPT ![k].buf = Chunk(c, taken[c], n),
                                              ![k].recvbytes = n]
           \/ (RecvEof(c) \/ RecvFails(c)) /\ RemoveSocketInfo(k)
        /\ ScanNext

(* send() of the bytes recvbytes - sendbytes that are left. *)
SendCall(k) ==
    LET ptr == SocketInfoArray[k]
        c == Owner(k)
        len == ptr.recvbytes - ptr.sendbytes
    IN  /\ Scanning(k)
        /\ ptr.sock \notin rset
        /\ ptr.sock \in wset
        /\ \/ \E n \in 0 .. len :
                 /\ SendReturns(c, n, len)
                 /\ Give(c, SubSeq(ptr.buf, ptr.sendbytes + 1, ptr.sendbytes + n))
                 /\ SocketInfoArray' =
                      IF ptr.sendbytes + n = ptr.recvbytes
                      THEN [SocketInfoArray EXCEPT ![k].recvbytes = 0,
                                                   ![k].sendbytes = 0]
                      ELSE [SocketInfoArray EXCEPT ![k].sendbytes = @ + n]
           \/ SendFails(c, len) /\ RemoveSocketInfo(k)
        /\ ScanNext

(* send() on a reset connection raises SIGPIPE, which the server does not  *)
(* handle.                                                                 *)
SendKills(k) ==
    /\ SigPipe
    /\ Scanning(k)
    /\ SocketInfoArray[k].sock \in wset \ rset
    /\ SendError(Owner(k))
    /\ pc' = "exit"
    /\ CloseAll
    /\ SocketInfoArray' = <<>>
    /\ UNCHANGED <<rset, wset, nready, i>>

Skip(k) ==
    /\ Scanning(k)
    /\ SocketInfoArray[k].sock \notin rset \cup wset
    /\ ScanNext
    /\ UNCHANGED <<sockets, SocketInfoArray>>

ScanEnds ==
    /\ pc = "scan"
    /\ i > nTotalSockets
    /\ pc' = "select"
    /\ rset' = {}
    /\ wset' = {}
    /\ UNCHANGED <<sockets, SocketInfoArray, nready, i>>

Server ==
    \/ SelectCall \/ AcceptCall \/ AcceptFull \/ AcceptBreaks \/ ScanEnds
    \/ \E k \in 1 .. nTotalSockets :
          RecvCall(k) \/ SendCall(k) \/ SendKills(k) \/ Skip(k)

Environment ==
    /\ \E c \in Clients : Remote(c)
    /\ UNCHANGED <<pc, SocketInfoArray, rset, wset, nready, i>>

Next == Server \/ Environment

Spec == Init /\ [][Next]_vars

(* The server never stops of itself, and a steady client reads what has    *)
(* arrived.  Clients need not send, close, or read.                        *)
Fairness ==
    /\ WF_vars(Server)
    /\ \A c \in Steady : WF_vars(ClientRead(c) /\ UNCHANGED <<pc, SocketInfoArray, rset, wset, nready, i>>)

FairSpec == Spec /\ Fairness

-----------------------------------------------------------------------------
(* Properties. *)

TypeOK ==
    /\ SocketsTypeOK
    /\ pc \in {"select", "accept", "scan", "exit"}
    /\ SocketInfoArray \in Seq(SOCKETINFO)
    /\ rset \subseteq Fds
    /\ wset \subseteq Fds
    /\ nready \in Nat
    /\ i \in Nat \ {0}

(* Every open connection has exactly one SOCKETINFO and every SOCKETINFO   *)
(* an open connection of its own: the compaction in RemoveSocketInfo()     *)
(* neither leaks a socket nor leaves a record of a closed one behind.      *)
OneRecordPerConnection ==
    /\ \A k \in 1 .. nTotalSockets : Connected(SocketInfoArray[k].sock)
    /\ \A j, k \in 1 .. nTotalSockets :
          SocketInfoArray[j].sock = SocketInfoArray[k].sock => j = k
    /\ \A c \in Clients :
          link[c] = "open" <=> \E k \in 1 .. nTotalSockets : Owner(k) = c

(* The part of a record's buffer that is still to be sent is exactly what  *)
(* the server has taken from its client and not yet given back.            *)
BufferIsBacklog ==
    \A k \in 1 .. nTotalSockets :
       LET ptr == SocketInfoArray[k]
       IN  SubSeq(ptr.buf, ptr.sendbytes + 1, ptr.recvbytes)
             = Chunk(Owner(k), Len(out[Owner(k)]),
                     taken[Owner(k)] - Len(out[Owner(k)]))

(* A socket that select() reported still names the connection it named     *)
(* then, and is still ready, when the data loop comes to it: recv() and    *)
(* send() never meet EWOULDBLOCK, which the code would take for the end of *)
(* the connection.                                                         *)
ReadyWhenUsed ==
    \A k \in 1 .. nTotalSockets :
       (pc \in {"accept", "scan"} /\ k >= i) =>
          /\ SocketInfoArray[k].sock \in rset => ~ RecvWouldBlock(Owner(k))
          /\ SocketInfoArray[k].sock \in wset => ~ SendWouldBlock(Owner(k))

(* The parts of the inductive invariant of the proofs.  The descriptor      *)
(* table: every open connection has one descriptor of its own.             *)
DescriptorTable ==
    /\ pc # "exit" => fdt[listenfd] = listen_sock
    /\ \A f, g \in Fds : fdt[f] \in Clients /\ fdt[f] = fdt[g] => f = g
    /\ \A f \in Fds : fdt[f] \in Clients => link[fdt[f]] = "open"
    /\ \A c \in Clients : link[c] = "open" => \E f \in Fds : fdt[f] = c

(* The records are those of the connected descriptors, one each. *)
Records ==
    /\ \A k \in 1 .. nTotalSockets : Connected(SocketInfoArray[k].sock)
    /\ \A f \in Fds : Connected(f) =>
          \E k \in 1 .. nTotalSockets : SocketInfoArray[k].sock = f
    /\ \A j, k \in 1 .. nTotalSockets :
          SocketInfoArray[j].sock = SocketInfoArray[k].sock => j = k

Accounts ==
    /\ \A c \in Clients :
          link[c] \in {"new", "backlog"} => taken[c] = 0 /\ out[c] = <<>>
    /\ \A c \in Clients : \A m \in 1 .. Len(out[c]) : out[c][m] = <<c, m>>
    /\ \A k \in 1 .. nTotalSockets :
          Booked(SocketInfoArray[k], Owner(k), taken[Owner(k)], Len(out[Owner(k)]))

(* A record still to be looked at is read from only if nothing of its      *)
(* buffer is left to send.                                                 *)
EmptyWhenRead ==
    pc \in {"accept", "scan"} =>
       \A k \in 1 .. nTotalSockets :
          k >= i /\ SocketInfoArray[k].sock \in rset => ~ Pending(k)

(* --nready after accept() does not go below zero. *)
Counted == pc = "accept" => nready > 0

IInv == TypeOK /\ DescriptorTable /\ Records /\ Accounts /\ EmptyWhenRead /\ Counted

(* The server implements the echo service for as many clients as it has    *)
(* descriptors and records: nothing is echoed to the wrong client, out of  *)
(* order or twice, and a connection is dropped only after its client left. *)
SmallerOf(a, b) == IF a < b THEN a ELSE b
Echo == INSTANCE EchoSpec WITH
           serving <- pc # "exit",
           Capacity <- SmallerOf(FD_SETSIZE, Cardinality(Fds) - 1)
ImplementsEcho == Echo!Spec

(* What a steady client has sent is echoed, however the others behave, as  *)
(* long as it stays and the server runs.                                   *)
EveryByteEchoed ==
    \A c \in Steady : \A m \in 1 .. MaxSend :
       (link[c] \in {"backlog", "open"} /\ sent[c] >= m)
          ~> (Len(out[c]) >= m \/ peer[c] # "up" \/ link[c] = "closed")

(* The connection of a client that has gone is closed, so that its         *)
(* descriptor is not lost.                                                 *)
GoneIsClosed ==
    \A c \in Clients :
       (link[c] \in {"backlog", "open"} /\ peer[c] = "rst") ~> link[c] = "closed"
=============================================================================
