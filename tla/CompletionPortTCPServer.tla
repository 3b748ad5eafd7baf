---------------------- MODULE CompletionPortTCPServer ----------------------
(***************************************************************************)
(* The completion port echo server:                                        *)
(* Windows/Chapter11/CompletionPortTCPServer/CompletionPortTCPServer.cpp.  *)
(*                                                                         *)
(* main() accepts, the worker threads share one completion port.  No lock  *)
(* protects a SOCKETINFO: the code relies on every connection having one   *)
(* owner at a time, which is main(), the kernel (an overlapped operation), *)
(* the port (a completion nobody has fetched) or one worker.               *)
(***************************************************************************)
EXTENDS TCPSockets, SequencesExt, FiniteSetsExt

CONSTANTS
    listen_sock,   \* the listener of this server
    Workers        \* the worker threads

VARIABLES
    main,      \* main thread: "accept", "start" (a new connection), "exit"
    newfd,     \* main thread: client_sock
    info,      \* info[fd]: the SOCKETINFO of fd
    overlapped,\* overlapped[fd]: the operation the kernel has: "none", "WSARecv", "WSASend"
    hcp,       \* the completion port: the completions in their order
    held       \* held[w]: the completion worker w works on, NoCompletion if none

server == <<main, newfd, info, overlapped, hcp, held>>
vars == <<sockets, server>>

listenfd == 3
SOCKETINFO == [buf: Seq(Bytes), recvbytes: Nat, sendbytes: Nat]
NewSocketInfo == [buf |-> <<>>, recvbytes |-> 0, sendbytes |-> 0]

(* retval and cbTransferred of GetQueuedCompletionStatus(); fd = 0: none. *)
Completion(fd, ok, n) == [fd |-> fd, ok |-> ok, n |-> n]
NoCompletion == Completion(0, FALSE, 0)

Init ==
    /\ SocketsInit([l \in Listeners |-> IF l = listen_sock THEN listenfd ELSE 0])
    /\ main = "accept"
    /\ newfd = 0
    /\ info = [fd \in Fds |-> NewSocketInfo]
    /\ overlapped = [fd \in Fds |-> "none"]
    /\ hcp = <<>>
    /\ held = [w \in Workers |-> NoCompletion]

-----------------------------------------------------------------------------
(* The main thread. *)

AcceptCall ==
    /\ main = "accept"
    /\ \E c \in Clients, fd \in Fds :
          /\ Accept(listen_sock, c, fd)
          /\ newfd' = fd
          /\ info' = [info EXCEPT ![fd] = NewSocketInfo]
    /\ main' = "start"
    /\ UNCHANGED <<overlapped, hcp, held>>

(* The process ends with main(). *)
AcceptBreaks ==
    /\ main = "accept"
    /\ AcceptFails(listen_sock)
    /\ CloseAll
    /\ main' = "exit"
    /\ info' = [fd \in Fds |-> NewSocketInfo]
    /\ overlapped' = [fd \in Fds |-> "none"]
    /\ hcp' = <<>>
    /\ held' = [w \in Workers |-> NoCompletion]
    /\ newfd' = 0

(* WSARecv() or WSASend() starts, or fails at once on a connection that is *)
(* reset; then nobody will ever look at the connection again.              *)
Issue(fd, what) ==
    overlapped' \in {[overlapped EXCEPT ![fd] = what]}
                    \cup (IF peer[fdt[fd]] = "rst" THEN {overlapped} ELSE {})

StartConnection ==
    /\ main = "start"
    /\ Issue(newfd, "WSARecv")
    /\ main' = "accept"
    /\ newfd' = 0
    /\ UNCHANGED <<sockets, info, hcp, held>>

-----------------------------------------------------------------------------
(* The kernel completes an overlapped operation. *)

Post(fd, ok, n) ==
    /\ hcp' = Append(hcp, Completion(fd, ok, n))
    /\ overlapped' = [overlapped EXCEPT ![fd] = "none"]
    /\ UNCHANGED <<main, newfd, held>>

RecvCompletes(fd) ==
    LET c == fdt[fd]
    IN  /\ overlapped[fd] = "WSARecv"
        /\ \/ \E n \in 1 .. BUFSIZE :
                 /\ RecvReturns(c, n)
                 /\ Take(c, n)
                 /\ info' = [info EXCEPT ![fd].buf = Chunk(c, taken[c], n)]
                 /\ Post(fd, TRUE, n)
           \/ RecvEof(c) /\ Post(fd, TRUE, 0) /\ UNCHANGED <<sockets, info>>
           \/ RecvError(c) /\ Post(fd, FALSE, 0) /\ UNCHANGED <<sockets, info>>

SendCompletes(fd) ==
    LET c == fdt[fd]
        ptr == info[fd]
    IN  /\ overlapped[fd] = "WSASend"
        /\ \/ \E n \in 1 .. (ptr.recvbytes - ptr.sendbytes) :
                 /\ SendReturns(c, n, ptr.recvbytes - ptr.sendbytes)
                 /\ Give(c, SubSeq(ptr.buf, ptr.sendbytes + 1, ptr.sendbytes + n))
                 /\ Post(fd, TRUE, n)
           \/ SendError(c) /\ Post(fd, FALSE, 0) /\ UNCHANGED sockets
        /\ info' = info

Kernel(fd) == RecvCompletes(fd) \/ SendCompletes(fd)

-----------------------------------------------------------------------------
(* The worker threads. *)

GetQueuedCompletionStatus(w) ==
    /\ held[w] = NoCompletion
    /\ hcp # <<>>
    /\ held' = [held EXCEPT ![w] = Head(hcp)]
    /\ hcp' = Tail(hcp)
    /\ UNCHANGED <<sockets, main, newfd, info, overlapped>>

Done(w) == held' = [held EXCEPT ![w] = NoCompletion] /\ UNCHANGED <<main, newfd, hcp>>

CloseConnection(w) ==
    LET fd == held[w].fd
    IN  /\ held[w] # NoCompletion
        /\ ~ held[w].ok \/ held[w].n = 0
        /\ Close(fd)
        /\ info' = [info EXCEPT ![fd] = NewSocketInfo]
        /\ overlapped' = overlapped
        /\ Done(w)

(* Mutation: recvbytes is set but sendbytes is not counted. *)
UpdatedOnce(ptr, n) ==
    IF ptr.recvbytes = 0 THEN [ptr EXCEPT !.recvbytes = n, !.sendbytes = 0] ELSE ptr

(* The record after a completion of n bytes: received when the record was  *)
(* empty, sent otherwise.                                                  *)
Updated(ptr, n) ==
    IF ptr.recvbytes = 0 THEN [ptr EXCEPT !.recvbytes = n, !.sendbytes = 0]
                         ELSE [ptr EXCEPT !.sendbytes = @ + n]

(* Mutation: the next receive starts while the send is still to be issued: *)
(* both completions come.                                                  *)
ContinueTwice(w) ==
    LET fd == held[w].fd
        ptr == Updated(info[fd], held[w].n)
    IN  /\ held[w].ok /\ held[w].n > 0
        /\ info' = [info EXCEPT ![fd] = ptr]
        /\ Issue(fd, "WSASend")
        /\ hcp' = Append(hcp, Completion(fd, TRUE, 1))
        /\ held' = [held EXCEPT ![w] = NoCompletion]
        /\ UNCHANGED <<sockets, main, newfd>>

(* Send what is left of the buffer, or receive anew. *)
Continue(w) ==
    LET fd == held[w].fd
        ptr == Updated(info[fd], held[w].n)
    IN  /\ held[w].ok /\ held[w].n > 0
        /\ IF ptr.recvbytes > ptr.sendbytes
           THEN /\ info' = [info EXCEPT ![fd] = ptr]
                /\ Issue(fd, "WSASend")
           ELSE /\ info' = [info EXCEPT ![fd] = [ptr EXCEPT !.recvbytes = 0]]
                /\ Issue(fd, "WSARecv")
        /\ Done(w)
        /\ UNCHANGED sockets

WorkerThread(w) == GetQueuedCompletionStatus(w) \/ CloseConnection(w) \/ Continue(w)

MainThread == AcceptCall \/ AcceptBreaks \/ StartConnection

Server ==
    \/ MainThread
    \/ \E fd \in Fds : Kernel(fd)
    \/ \E w \in Workers : WorkerThread(w)

Environment == (\E c \in Clients : Remote(c)) /\ UNCHANGED server

Next == Server \/ Environment

Spec == Init /\ [][Next]_vars

-----------------------------------------------------------------------------
(* Properties. *)

Completions == {Completion(fd, ok, n) : fd \in Fds, ok \in BOOLEAN, n \in 0 .. BUFSIZE}

TypeOK ==
    /\ SocketsTypeOK
    /\ main \in {"accept", "start", "exit"}
    /\ newfd \in Fds \cup {0}
    /\ info \in [Fds -> SOCKETINFO]
    /\ overlapped \in [Fds -> {"none", "WSARecv", "WSASend"}]
    /\ hcp \in Seq(Completions)
    /\ held \in [Workers -> Completions \cup {NoCompletion}]

(* How many hold the record of fd: main(), the kernel, the port, workers. *)
Owners(fd) ==
    (IF main = "start" /\ newfd = fd THEN 1 ELSE 0)
    + (IF overlapped[fd] # "none" THEN 1 ELSE 0)
    + Quantify(DOMAIN hcp, LAMBDA k : hcp[k].fd = fd)
    + Quantify(Workers, LAMBDA w : held[w].fd = fd)

(* No two threads, and no thread and the kernel, ever hold the same        *)
(* SOCKETINFO; a closed one is held by nobody (no use after delete), and   *)
(* an open one is forgotten only when WSARecv() or WSASend() failed at     *)
(* once on a reset connection.                                             *)
OneOwner ==
    \A fd \in Fds :
       IF Connected(fd)
       THEN Owners(fd) = 1 \/ (Owners(fd) = 0 /\ peer[fdt[fd]] = "rst")
       ELSE Owners(fd) = 0
=============================================================================
