--------------------------- MODULE EPollTCPServer ---------------------------
(***************************************************************************)
(* The epoll echo server: Linux/Chapter12/EPollTCPServer.cpp.              *)
(*                                                                         *)
(* The interest list lives in the kernel and is changed one socket at a    *)
(* time (EPOLL_CTL_ADD, MOD, DEL), so the code has to keep it in step with *)
(* the buffers.  epoll_wait() reports a batch in an order of its own: the  *)
(* batch is a set, and the loop takes its members in any order.            *)
(***************************************************************************)
EXTENDS TCPSockets

CONSTANTS
    listen_sock,   \* the listener of this server
    Steady         \* clients that keep reading

(* The descriptor of the epoll instance is not counted in NOFILE.  A batch *)
(* has room for all sockets: FD_SETSIZE >= NOFILE.                         *)
ASSUME EPollAssumption ==
    /\ listen_sock \in Listeners
    /\ NOFILE > 3
    /\ Steady \subseteq Clients

VARIABLES
    pc,        \* "wait", "batch", "exit"
    interest,  \* interest[fd]: "none", "EPOLLIN", "EPOLLOUT"
    info,      \* info[fd]: the SOCKETINFO that the event of fd points to
    events,    \* the descriptors of the batch that were not looked at yet
    nready,    \* the loop's bound
    i          \* the loop's index

server == <<pc, interest, info, events, nready, i>>
vars == <<sockets, server>>

listenfd == 3
SOCKETINFO == [buf: Seq(Bytes), recvbytes: Nat, sendbytes: Nat]
(* Mutation: a counter that holds an error code. *)
NewSocketInfoError == [buf |-> <<>>, recvbytes |-> -1, sendbytes |-> 0]

NewSocketInfo == [buf |-> <<>>, recvbytes |-> 0, sendbytes |-> 0]

Init ==
    /\ SocketsInit([l \in Listeners |-> IF l = listen_sock THEN listenfd ELSE 0])
    /\ pc = "wait"
    /\ interest = [fd \in Fds |-> IF fd = listenfd THEN "EPOLLIN" ELSE "none"]
    /\ info = [fd \in Fds |-> NewSocketInfo]
    /\ events = {}
    /\ nready = 0
    /\ i = 0

Ready(fd) ==
    CASE fd = listenfd -> Acceptable(listen_sock)
      [] fd # listenfd /\ interest[fd] = "EPOLLIN" -> Readable(fdt[fd])
      [] fd # listenfd /\ interest[fd] = "EPOLLOUT" -> Writable(fdt[fd])
      [] OTHER -> FALSE

(* epoll_wait(), level triggered, without a timeout. *)
EPollWait ==
    LET ready == {fd \in Fds : Ready(fd)}
    IN  /\ pc = "wait"
        /\ ready # {}
        /\ events' = ready
        /\ nready' = Cardinality(ready)
        /\ i' = 0
        /\ pc' = "batch"
        /\ UNCHANGED <<sockets, interest, info>>

Event(fd) == pc = "batch" /\ i < nready /\ fd \in events

(* Mutation: the loop looks at the same event again. *)
EventKept(fd) == i' = i + 1 /\ UNCHANGED <<events, pc, nready>>

EventDone(fd) == events' = events \ {fd} /\ i' = i + 1 /\ UNCHANGED <<pc, nready>>

(* Mutation: the new socket is not added to the interest list. *)
RegisterNothing(fd, what) ==
    /\ info' = [info EXCEPT ![fd] = NewSocketInfo]
    /\ interest' = interest

RegisterEvent(fd, what) ==
    /\ info' = [info EXCEPT ![fd] = NewSocketInfo]
    /\ interest' = [interest EXCEPT ![fd] = what]

(* Mutation: the interest in the closed socket is not withdrawn. *)
ForgetButWatch(fd) ==
    /\ Close(fd)
    /\ interest' = interest
    /\ info' = [info EXCEPT ![fd] = NewSocketInfo]

(* EPOLL_CTL_DEL, close() and delete. *)
Forget(fd) ==
    /\ Close(fd)
    /\ interest' = [interest EXCEPT ![fd] = "none"]
    /\ info' = [info EXCEPT ![fd] = NewSocketInfo]

(* An event of the listening socket also lowers the loop's bound, so the   *)
(* last event of the batch is left for the next epoll_wait().              *)
AcceptCall ==
    /\ Event(listenfd)
    /\ \E c \in Clients, fd \in Fds :
          /\ Accept(listen_sock, c, fd)
          /\ RegisterEvent(fd, "EPOLLIN")
    /\ nready' = nready - 1
    /\ IF nready - 1 <= 0
       THEN pc' = "wait" /\ events' = {} /\ i' = i
       ELSE pc' = pc /\ events' = events \ {listenfd} /\ i' = i + 1

Exit ==
    /\ pc' = "exit"
    /\ CloseAll
    /\ interest' = [fd \in Fds |-> "none"]
    /\ info' = [fd \in Fds |-> NewSocketInfo]
    /\ UNCHANGED <<events, nready, i>>

(* accept() fails: goto MAIN_EXIT. *)
AcceptBreaks == Event(listenfd) /\ AcceptFails(listen_sock) /\ Exit

(* An EPOLLIN event.  The interest changes to EPOLLOUT when the buffer has *)
(* something to send, with ModifyEvent().                                  *)
RecvCall(fd) ==
    LET c == fdt[fd]
    IN  /\ Event(fd)
        /\ fd # listenfd
        /\ interest[fd] = "EPOLLIN"
        /\ \/ \E n \in 1 .. BUFSIZE :
                 /\ RecvReturns(c, n)
                 /\ Take(c, n)
                 /\ info' = [info EXCEPT ![fd].buf = Chunk(c, taken[c], n),
                                         ![fd].recvbytes = n]
                 /\ interest' = IF n > info[fd].sendbytes
                                THEN [interest EXCEPT ![fd] = "EPOLLOUT"]
                                ELSE interest
           \/ (RecvEof(c) \/ RecvFails(c)) /\ Forget(fd)
        /\ EventDone(fd)

(* An EPOLLOUT event.  The interest goes back to EPOLLIN when the buffer   *)
(* is empty.                                                               *)
SendCall(fd) ==
    LET ptr == info[fd]
        c == fdt[fd]
        len == ptr.recvbytes - ptr.sendbytes
    IN  /\ Event(fd)
        /\ fd # listenfd
        /\ interest[fd] = "EPOLLOUT"
        /\ \/ \E n \in 0 .. len :
                 /\ SendReturns(c, n, len)
                 /\ Give(c, SubSeq(ptr.buf, ptr.sendbytes + 1, ptr.sendbytes + n))
                 /\ IF ptr.sendbytes + n = ptr.recvbytes
                    THEN /\ info' = [info EXCEPT ![fd].recvbytes = 0,
                                                 ![fd].sendbytes = 0]
                         /\ interest' = [interest EXCEPT ![fd] = "EPOLLIN"]
                    ELSE /\ info' = [info EXCEPT ![fd].sendbytes = @ + n]
                         /\ interest' = interest
           \/ SendFails(c, len) /\ Forget(fd)
        /\ EventDone(fd)

(* SIGPIPE is not handled. *)
SendKills(fd) ==
    /\ SigPipe
    /\ Event(fd)
    /\ fd # listenfd
    /\ interest[fd] = "EPOLLOUT"
    /\ SendError(fdt[fd])
    /\ Exit

BatchEnds ==
    /\ pc = "batch"
    /\ i >= nready
    /\ pc' = "wait"
    /\ events' = {}
    /\ UNCHANGED <<sockets, interest, info, nready, i>>

Server ==
    \/ EPollWait \/ AcceptCall \/ AcceptBreaks \/ BatchEnds
    \/ \E fd \in Fds : RecvCall(fd) \/ SendCall(fd) \/ SendKills(fd)

Environment == (\E c \in Clients : Remote(c)) /\ UNCHANGED server

Next == Server \/ Environment

Spec == Init /\ [][Next]_vars

-----------------------------------------------------------------------------
(* Properties. *)

TypeOK ==
    /\ SocketsTypeOK
    /\ pc \in {"wait", "batch", "exit"}
    /\ interest \in [Fds -> {"none", "EPOLLIN", "EPOLLOUT"}]
    /\ info \in [Fds -> SOCKETINFO]
    /\ events \subseteq Fds
    /\ nready \in Nat
    /\ i \in Nat

(* The interest list follows the buffers: a socket is watched for EPOLLOUT *)
(* exactly while its buffer holds something to send, for EPOLLIN exactly   *)
(* while it does not, and not at all when it is closed.  Out of step, the  *)
(* server would overwrite bytes it still owes, spin, or never wake up.     *)
InterestFollowsBuffer ==
    \A fd \in Fds \ {listenfd} :
       interest[fd] = (IF ~ Connected(fd) THEN "none"
                       ELSE IF info[fd].recvbytes > info[fd].sendbytes
                       THEN "EPOLLOUT" ELSE "EPOLLIN")

(* An event of the batch is not stale when the loop comes to it: its       *)
(* descriptor is still the connection that epoll_wait() reported, and      *)
(* recv() and send() do not meet EWOULDBLOCK.                              *)
EventsStayValid ==
    \A fd \in events \ {listenfd} :
       pc = "batch" =>
          /\ Connected(fd)
          /\ interest[fd] = "EPOLLIN" => ~ RecvWouldBlock(fdt[fd])
          /\ interest[fd] = "EPOLLOUT" => ~ SendWouldBlock(fdt[fd])

(* The server implements the echo service for as many clients as it has    *)
(* descriptors.                                                            *)
Echo == INSTANCE EchoSpec WITH
           serving <- pc # "exit",
           Capacity <- Cardinality(Fds) - 1
ImplementsEcho == Echo!Spec
=============================================================================
