------------------------- MODULE AcceptLoopServers --------------------------
(***************************************************************************)
(* The servers that are a loop around accept().  They differ in who serves *)
(* an accepted connection and in the socket it is served with:             *)
(*                                                                         *)
(*   TCPServer (ch. 4, 9)      main() itself, one connection at a time     *)
(*   ThreadTCPServer (ch. 6/7) a thread for every connection; GUITCPServer *)
(*                             (ch. 10) is the same with a window          *)
(*   NonblockTCPServer (11/12) main() itself, with non-blocking sockets    *)
(*   Server (ch. 1)            two threads, one for IPv4 and one for IPv6, *)
(*                             that print what they receive and send none  *)
(***************************************************************************)
EXTENDS TCPSockets

CONSTANTS
    listen_sock,   \* the listener of every program
    listen_sock6,  \* the second listener of Server
    Programs,      \* the programs of an instance
    MaxThreads     \* threads that can be created

VARIABLES
    program,       \* the program that runs; it never changes
    loop,          \* loop[l]: the loop around accept() on l: "new", "runs", "ended"
    conn,          \* conn[fd]: where the code that serves fd is, and its buffer
    spoilt         \* history: clients that met a full buffer in NonblockTCPServer

server == <<program, loop, conn, spoilt>>
vars == <<sockets, server>>

AllPrograms == {"TCPServer", "ThreadTCPServer", "NonblockTCPServer", "Server"}
Unserved == [at |-> "none", buf |-> <<>>]

Threaded == program = "ThreadTCPServer"
Echoes == program # "Server"

Init ==
    /\ program \in Programs
    /\ SocketsInit([l \in Listeners |-> IF l = listen_sock THEN 3 ELSE 0])
    /\ loop = [l \in Listeners |-> IF l = listen_sock THEN "runs" ELSE "new"]
    /\ conn = [fd \in Fds |-> Unserved]
    /\ spoilt = {}

-----------------------------------------------------------------------------
(* The loop around accept(). *)

(* Server: the thread for IPv6 opens its listener whenever it gets going. *)
StartTCPServer6 ==
    /\ program = "Server"
    /\ loop[listen_sock6] = "new"
    /\ \E fd \in Fds : Listen(listen_sock6, fd)
    /\ loop' = [loop EXCEPT ![listen_sock6] = "runs"]
    /\ UNCHANGED <<program, conn, spoilt>>

Served(l) == {fd \in Fds : conn[fd].at # "none" /\ Dials[fdt[fd]] = l}

(* main() is in accept(); without threads it has nobody to serve then. *)
AtAccept(l) == loop[l] = "runs" /\ (Threaded \/ Served(l) = {})
ThreadLeft == Threaded => Cardinality({fd \in Fds : conn[fd].at # "none"}) < MaxThreads

AcceptCall(l) ==
    /\ AtAccept(l)
    /\ ThreadLeft
    /\ \E c \in Clients, fd \in Fds :
          /\ Accept(l, c, fd)
          /\ conn' = [conn EXCEPT ![fd] = [at |-> "recv", buf |-> <<>>]]
    /\ UNCHANGED <<program, loop, spoilt>>

(* The thread cannot be created: the connection is closed again. *)
NoThread(l) ==
    /\ AtAccept(l)
    /\ ~ ThreadLeft
    /\ \E c \in Clients : AcceptAndClose(l, c)
    /\ UNCHANGED server

(* The program ends with its only loop around accept(), its threads with   *)
(* it (in GUITCPServer WSACleanup() takes the sockets of its threads away); *)
(* Server closes the listener and goes on with the other one.              *)
AcceptBreaks(l) ==
    /\ AtAccept(l)
    /\ AcceptFails(l)
    /\ loop' = [loop EXCEPT ![l] = "ended"]
    /\ IF Echoes
       THEN CloseAll /\ conn' = [fd \in Fds |-> Unserved]
       ELSE CloseListener(l) /\ conn' = conn
    /\ UNCHANGED <<program, spoilt>>

-----------------------------------------------------------------------------
(* The loop that serves a connection. *)

Goto(fd, at, buf) == conn' = [conn EXCEPT ![fd] = [at |-> at, buf |-> buf]]

(* recv() blocks while there is nothing to report; NonblockTCPServer calls *)
(* it again and again, which is the same.                                  *)
RecvCall(fd) ==
    LET c == fdt[fd]
    IN  /\ conn[fd].at = "recv"
        /\ \/ \E n \in 1 .. BUFSIZE :
                 /\ RecvReturns(c, n)
                 /\ Take(c, n)
                 /\ IF Echoes THEN Goto(fd, "send", Chunk(c, taken[c], n))
                              ELSE Goto(fd, "recv", <<>>)
           \/ (RecvEof(c) \/ RecvError(c)) /\ Goto(fd, "close", <<>>) /\ UNCHANGED sockets
        /\ UNCHANGED <<program, loop, spoilt>>

(* Mutation: send() is taken for done when the first bytes are out. *)
SendOnce(fd) ==
    LET c == fdt[fd]
    IN  /\ conn[fd].at = "send"
        /\ program # "NonblockTCPServer"
        /\ SendReturns(c, 1, Len(conn[fd].buf))
        /\ Give(c, SubSeq(conn[fd].buf, 1, 1))
        /\ Goto(fd, "recv", <<>>)
        /\ UNCHANGED <<program, loop, spoilt>>

(* A blocking send() returns when the kernel has taken all of the buffer,  *)
(* which it does piece by piece as the client reads.                       *)
SendCall(fd) ==
    LET c == fdt[fd]
        buf == conn[fd].buf
    IN  /\ conn[fd].at = "send"
        /\ program # "NonblockTCPServer"
        /\ \/ \E n \in 1 .. Len(buf) :
                 /\ SendReturns(c, n, Len(buf))
                 /\ Give(c, SubSeq(buf, 1, n))
                 /\ IF n = Len(buf) THEN Goto(fd, "recv", <<>>)
                                    ELSE Goto(fd, "send", SubSeq(buf, n + 1, Len(buf)))
           \/ SendError(c) /\ Goto(fd, "close", <<>>) /\ UNCHANGED sockets
        /\ UNCHANGED <<program, loop, spoilt>>

(* A non-blocking send() may take a part of the buffer; the code does not  *)
(* look at how much it was.  SEND_AGAIN repeats a send() that would have   *)
(* blocked with retval = -1 as its length.                                 *)
NonblockSend(fd) ==
    LET c == fdt[fd]
        len == Len(conn[fd].buf)
    IN  /\ conn[fd].at = "send"
        /\ program = "NonblockTCPServer"
        /\ \/ \E n \in 1 .. len :
                 /\ SendReturns(c, n, len)
                 /\ Give(c, SubSeq(conn[fd].buf, 1, n))
                 /\ Goto(fd, "recv", <<>>)
                 /\ spoilt' = IF n < len THEN spoilt \cup {c} ELSE spoilt
           \/ /\ SendError(c)
              /\ Goto(fd, "close", <<>>)
              /\ UNCHANGED <<sockets, spoilt>>
           \/ /\ SendWouldBlock(c)
              /\ Goto(fd, "SEND_AGAIN", conn[fd].buf)
              /\ spoilt' = spoilt \cup {c}
              /\ UNCHANGED sockets
        /\ UNCHANGED <<program, loop>>

(* A length of -1 is the largest size_t: Linux sends what follows buf, too, *)
(* as much as fits; Windows reports an error.  What follows stands for what *)
(* an earlier recv() left there.                                            *)
SendAgain(fd) ==
    LET c == fdt[fd]
        buf == conn[fd].buf
    IN  /\ conn[fd].at = "SEND_AGAIN"
        /\ \/ \E n \in 1 .. SendSpace(c), b \in {<<c, k>> : k \in 1 .. taken[c]} :
                 /\ SendReturns(c, n, n)
                 /\ Give(c, [k \in 1 .. n |-> IF k <= Len(buf) THEN buf[k] ELSE b])
                 /\ Goto(fd, "recv", <<>>)
           \/ ~ SendWouldBlock(c) /\ Goto(fd, "close", <<>>) /\ UNCHANGED sockets
        /\ UNCHANGED <<program, loop, spoilt>>

CloseCall(fd) ==
    /\ conn[fd].at = "close"
    /\ Close(fd)
    /\ conn' = [conn EXCEPT ![fd] = Unserved]
    /\ UNCHANGED <<program, loop, spoilt>>

(* SIGPIPE is not handled. *)
SendKills(fd) ==
    /\ SigPipe
    /\ conn[fd].at \in {"send", "SEND_AGAIN"}
    /\ SendError(fdt[fd])
    /\ CloseAll
    /\ loop' = [l \in Listeners |-> "ended"]
    /\ conn' = [f \in Fds |-> Unserved]
    /\ UNCHANGED <<program, spoilt>>

ProcessClient(fd) ==
    \/ RecvCall(fd) \/ SendCall(fd) \/ CloseCall(fd)
    \/ NonblockSend(fd) \/ SendAgain(fd) \/ SendKills(fd)

ServerMain(l) == AcceptCall(l) \/ NoThread(l) \/ AcceptBreaks(l)

Server ==
    \/ StartTCPServer6
    \/ \E l \in Listeners : ServerMain(l)
    \/ \E fd \in Fds : ProcessClient(fd)

Environment == (\E c \in Clients : Remote(c)) /\ UNCHANGED server

Next == Server \/ Environment

Spec == Init /\ [][Next]_vars

-----------------------------------------------------------------------------
(* Properties. *)

TypeOK ==
    /\ SocketsTypeOK
    /\ program \in Programs
    /\ loop \in [Listeners -> {"new", "runs", "ended"}]
    /\ conn \in [Fds -> [at: {"none", "recv", "send", "SEND_AGAIN", "close"},
                         buf: Seq(Bytes)]]
    /\ spoilt \subseteq Clients

(* What has been received is sent back or still in the buffer, in its      *)
(* order -- until a non-blocking send() meets a full buffer for the first  *)
(* time: from then on NonblockTCPServer loses and repeats bytes.           *)
EchoUntilFull ==
    Echoes => \A c \in Clients \ spoilt :
       /\ out[c] = Stream(c, Len(out[c]))
       /\ \A fd \in Fds :
             fdt[fd] = c /\ conn[fd].at # "close" =>
                out[c] \o conn[fd].buf = Stream(c, taken[c])
=============================================================================
