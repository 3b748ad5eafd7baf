---------------------------- MODULE PollTCPServer ---------------------------
(***************************************************************************)
(* The poll() echo server: Linux/Chapter12/PollTCPServer.cpp.              *)
(*                                                                         *)
(* Pollfds is modelled with all its FD_SETSIZE entries, those at and above *)
(* nTotalSockets included: they keep the events and revents of the socket  *)
(* that used them last, and AddSocketInfo() takes them over.               *)
(***************************************************************************)
EXTENDS TCPSockets

CONSTANTS
    listen_sock,   \* the listener of this server
    FD_SETSIZE     \* size of Pollfds and SocketInfoArray

ASSUME PollAssumption ==
    /\ Listeners = {listen_sock}
    /\ NOFILE > 3
    /\ FD_SETSIZE \in Nat \ {0}

VARIABLES
    pc,                \* "poll", "accept", "scan", "exit"
    nTotalSockets,     \* entries in use; entry 0 is the listening socket
    Pollfds,           \* Pollfds[k].fd, .events, .revents
    SocketInfoArray,   \* SocketInfoArray[k] for k in 1 .. nTotalSockets-1
    nready,
    i

server == <<pc, nTotalSockets, Pollfds, SocketInfoArray, nready, i>>
vars == <<sockets, server>>

listenfd == 3
Entries == 0 .. (FD_SETSIZE - 1)
PollEvents == {"POLLIN", "POLLOUT"}
pollfd == [fd: Fds \cup {0}, events: SUBSET PollEvents, revents: SUBSET PollEvents]
SOCKETINFO == [buf: Seq(Bytes), recvbytes: Nat, sendbytes: Nat]
NewSocketInfo == [buf |-> <<>>, recvbytes |-> 0, sendbytes |-> 0]

InUse == 1 .. (nTotalSockets - 1)
Owner(k) == fdt[Pollfds[k].fd]
(* Mutation: no event for sending is ever asked for. *)
NeverPending(k) == FALSE

Pending(k) == SocketInfoArray[k].recvbytes > SocketInfoArray[k].sendbytes

Init ==
    /\ SocketsInit([l \in Listeners |-> listenfd])
    /\ pc = "poll"
    /\ nTotalSockets = 1
    /\ Pollfds = [k \in Entries |->
                    IF k = 0
                    THEN [fd |-> listenfd, events |-> {"POLLIN"}, revents |-> {}]
                    ELSE [fd |-> 0, events |-> {}, revents |-> {}]]
    /\ SocketInfoArray = <<>>
    /\ nready = 0
    /\ i = 1

-----------------------------------------------------------------------------
(* Socket records. *)

(* The entry's revents are those of its last user. *)
AddSocketInfo(fd) ==
    /\ SocketInfoArray' = Append(SocketInfoArray, NewSocketInfo)
    /\ Pollfds' = [Pollfds EXCEPT ![nTotalSockets].fd = fd,
                                  ![nTotalSockets].events = {"POLLIN"}]
    /\ nTotalSockets' = nTotalSockets + 1

(* Mutations: only one of the two parallel arrays is compacted. *)
RemoveKeepsPollfd(k) ==
    /\ Close(Pollfds[k].fd)
    /\ SocketInfoArray' =
         [j \in 1 .. (nTotalSockets - 2) |->
             SocketInfoArray[IF j = k THEN nTotalSockets - 1 ELSE j]]
    /\ UNCHANGED Pollfds
    /\ nTotalSockets' = nTotalSockets - 1
RemoveKeepsInfo(k) ==
    /\ Close(Pollfds[k].fd)
    /\ SocketInfoArray' = SubSeq(SocketInfoArray, 1, nTotalSockets - 2)
    /\ Pollfds' = [Pollfds EXCEPT ![k] = Pollfds[nTotalSockets - 1]]
    /\ nTotalSockets' = nTotalSockets - 1

(* The last entry takes the place of the removed one, and stays behind. *)
RemoveSocketInfo(k) ==
    /\ Close(Pollfds[k].fd)
    /\ SocketInfoArray' =
         [j \in 1 .. (nTotalSockets - 2) |->
             SocketInfoArray[IF j = k THEN nTotalSockets - 1 ELSE j]]
    /\ Pollfds' = [Pollfds EXCEPT ![k] = Pollfds[nTotalSockets - 1]]
    /\ nTotalSockets' = nTotalSockets - 1

-----------------------------------------------------------------------------
(* The main loop. *)

ReadyEvents(k) ==
    IF k = 0 THEN {e \in {"POLLIN"} : Acceptable(listen_sock)}
    ELSE {e \in PollEvents : /\ Connected(Pollfds[k].fd)
                             /\ e = "POLLIN" => Readable(Owner(k))
                             /\ e = "POLLOUT" => Writable(Owner(k))}

(* The events are set anew for every socket; poll() then overwrites the    *)
(* revents of the entries in use, and of those only.                       *)
PollCall ==
    LET events(k) == IF k = 0 THEN {"POLLIN"}
                     ELSE IF Pending(k) THEN {"POLLOUT"} ELSE {"POLLIN"}
        revents(k) == events(k) \cap ReadyEvents(k)
        ready == {k \in 0 .. (nTotalSockets - 1) : revents(k) # {}}
    IN  /\ pc = "poll"
        /\ ready # {}
        /\ Pollfds' = [k \in Entries |->
                         IF k < nTotalSockets
                         THEN [Pollfds[k] EXCEPT !.events = events(k),
                                                 !.revents = revents(k)]
                         ELSE Pollfds[k]]
        /\ nready' = Cardinality(ready)
        /\ pc' = IF 0 \in ready THEN "accept" ELSE "scan"
        /\ i' = 1
        /\ UNCHANGED <<sockets, nTotalSockets, SocketInfoArray>>

(* if (--nready <= 0) continue; *)
AfterAccept ==
    /\ nready' = nready - 1
    /\ pc' = IF nready - 1 <= 0 THEN "poll" ELSE "scan"
    /\ i' = i

AcceptCall ==
    /\ pc = "accept"
    /\ nTotalSockets < FD_SETSIZE
    /\ \E c \in Clients, fd \in Fds : Accept(listen_sock, c, fd) /\ AddSocketInfo(fd)
    /\ AfterAccept

(* Mutation: a record is left unused. *)
AcceptFullEarly ==
    /\ pc = "accept"
    /\ nTotalSockets >= FD_SETSIZE - 1
    /\ \E c \in Clients : AcceptAndClose(listen_sock, c)
    /\ UNCHANGED <<SocketInfoArray, Pollfds, nTotalSockets>>
    /\ AfterAccept

(* AddSocketInfo() fails: the new socket is closed. *)
AcceptFull ==
    /\ pc = "accept"
    /\ nTotalSockets >= FD_SETSIZE
    /\ \E c \in Clients : AcceptAndClose(listen_sock, c)
    /\ UNCHANGED <<SocketInfoArray, Pollfds, nTotalSockets>>
    /\ AfterAccept

(* The process ends; its memory with it. *)
Exit ==
    /\ pc' = "exit"
    /\ CloseAll
    /\ nTotalSockets' = 0
    /\ SocketInfoArray' = <<>>
    /\ UNCHANGED <<Pollfds, nready, i>>

(* accept() fails: break, and main() returns. *)
AcceptBreaks == pc = "accept" /\ AcceptFails(listen_sock) /\ Exit

Scanning(k) == pc = "scan" /\ i = k /\ k < nTotalSockets
ScanNext == i' = i + 1 /\ UNCHANGED <<pc, nready>>

RecvCall(k) ==
    LET c == Owner(k)
    IN  /\ Scanning(k)
        /\ "POLLIN" \in Pollfds[k].revents
        /\ \/ \E n \in 1 .. BUFSIZE :
                 /\ RecvReturns(c, n)
                 /\ Take(c, n)
                 /\ SocketInfoArray' =
                      [SocketInfoArray EXCEPT ![k].buf = Chunk(c, taken[c], n),
                                              ![k].recvbytes = n]
                 /\ UNCHANGED <<Pollfds, nTotalSockets>>
           \/ (RecvEof(c) \/ RecvFails(c)) /\ RemoveSocketInfo(k)
        /\ ScanNext

SendCall(k) ==
    LET ptr == SocketInfoArray[k]
        c == Owner(k)
        len == ptr.recvbytes - ptr.sendbytes
    IN  /\ Scanning(k)
        /\ "POLLIN" \notin Pollfds[k].revents
        /\ "POLLOUT" \in Pollfds[k].revents
        /\ \/ \E n \in 0 .. len :
                 /\ SendReturns(c, n, len)
                 /\ Give(c, SubSeq(ptr.buf, ptr.sendbytes + 1, ptr.sendbytes + n))
                 /\ SocketInfoArray' =
                      IF ptr.sendbytes + n = ptr.recvbytes
                      THEN [SocketInfoArray EXCEPT ![k].recvbytes = 0,
                                                   ![k].sendbytes = 0]
                      ELSE [SocketInfoArray EXCEPT ![k].sendbytes = @ + n]
                 /\ UNCHANGED <<Pollfds, nTotalSockets>>
           \/ SendFails(c, len) /\ RemoveSocketInfo(k)
        /\ ScanNext

(* SIGPIPE is not handled. *)
SendKills(k) ==
    /\ SigPipe
    /\ Scanning(k)
    /\ Pollfds[k].revents = {"POLLOUT"}
    /\ SendError(Owner(k))
    /\ Exit

Skip(k) ==
    /\ Scanning(k)
    /\ Pollfds[k].revents = {}
    /\ ScanNext
    /\ UNCHANGED <<sockets, SocketInfoArray, Pollfds, nTotalSockets>>

ScanEnds ==
    /\ pc = "scan"
    /\ i >= nTotalSockets
    /\ pc' = "poll"
    /\ UNCHANGED <<sockets, nTotalSockets, SocketInfoArray, Pollfds, nready, i>>

Server ==
    \/ PollCall \/ AcceptCall \/ AcceptFull \/ AcceptBreaks \/ ScanEnds
    \/ \E k \in InUse : RecvCall(k) \/ SendCall(k) \/ SendKills(k) \/ Skip(k)

Environment == (\E c \in Clients : Remote(c)) /\ UNCHANGED server

Next == Server \/ Environment

Spec == Init /\ [][Next]_vars

-----------------------------------------------------------------------------
(* Properties. *)

TypeOK ==
    /\ SocketsTypeOK
    /\ pc \in {"poll", "accept", "scan", "exit"}
    /\ nTotalSockets \in 0 .. FD_SETSIZE
    /\ Pollfds \in [Entries -> pollfd]
    /\ SocketInfoArray \in Seq(SOCKETINFO)
    /\ nready \in Nat
    /\ i \in Nat \ {0}

(* The two parallel arrays stay parallel: each entry in use has a record,  *)
(* names an open connection, and no two entries name the same one.         *)
OneEntryPerConnection ==
    pc # "exit" =>
       /\ Len(SocketInfoArray) = nTotalSockets - 1
       /\ \A k \in InUse : Connected(Pollfds[k].fd)
       /\ \A j, k \in InUse : Pollfds[j].fd = Pollfds[k].fd => j = k
       /\ \A c \in Clients : link[c] = "open" <=> \E k \in InUse : Owner(k) = c

(* A buffer and the descriptor in the same entry belong together: what is  *)
(* left to send in the buffer is what its own client sent and has not got  *)
(* back yet.                                                               *)
BufferIsBacklog ==
    \A k \in InUse :
       LET ptr == SocketInfoArray[k]
       IN  SubSeq(ptr.buf, ptr.sendbytes + 1, ptr.recvbytes)
             = Chunk(Owner(k), Len(out[Owner(k)]),
                     taken[Owner(k)] - Len(out[Owner(k)]))

(* RemoveSocketInfo() reports the end of a client: a connection is closed  *)
(* in the data loop only when its client has closed or reset it.           *)
ClosedOnlyWhenGone ==
    [][\A c \in Clients :
         (link[c] = "open" /\ link'[c] = "closed" /\ pc' # "exit")
            => peer[c] # "up"]_vars

(* A connection closed by a stale event loses nothing: whenever the data   *)
(* loop closes a connection that was not reset, all that had arrived has   *)
(* been echoed.                                                            *)
ClosedLosesNothing ==
    [][\A c \in Clients :
         (link[c] = "open" /\ link'[c] = "closed" /\ pc' # "exit")
            => peer[c] = "rst" \/ out[c] = Stream(c, sent[c])]_vars

-----------------------------------------------------------------------------
(* The echo service.  Entry 0 is the listening socket's, and so is one     *)
(* descriptor.                                                             *)
SmallerOf(a, b) == IF a < b THEN a ELSE b
Echo == INSTANCE EchoSpec WITH
           serving <- pc # "exit",
           Capacity <- SmallerOf(FD_SETSIZE - 1, Cardinality(Fds) - 1)

(* What a stale event does: a client that has not sent anything yet is     *)
(* closed although it is there.                                            *)
DropsStale(c) ==
    /\ pc # "exit" /\ pc' # "exit"
    /\ link[c] = "open" /\ peer[c] = "up" /\ sent[c] = 0
    /\ link' = [link EXCEPT ![c] = "closed"]
    /\ UNCHANGED <<peer, sent, out>>

(* Stale events do no other harm: but for a client that they close before  *)
(* its first byte has arrived, the poll() server is an echo server for as  *)
(* many clients as its arrays and its descriptors have room for.           *)
EchoesUnlessStale ==
    Echo!Init /\ [][Echo!Next \/ \E c \in Clients : DropsStale(c)]_(Echo!vars)
=============================================================================
