------------------------ MODULE AsyncSelectTCPServer ------------------------
(***************************************************************************)
(* The WSAAsyncSelect() echo server:                                       *)
(* Windows/Chapter11/AsyncSelectTCPServer/AsyncSelectTCPServer.cpp.        *)
(*                                                                         *)
(* Winsock posts a window message for every network event and posts it     *)
(* again only after the call that re-enables the event.  The one thread    *)
(* handles the messages in their order; a message outlives the socket it   *)
(* is about.                                                               *)
(***************************************************************************)
EXTENDS TCPSockets, SequencesExt, FiniteSetsExt

CONSTANTS
    listen_sock,   \* the listener of this server
    None           \* nobody

VARIABLES
    pc,             \* "loop", "write" (after recv()), "crash"
    wParam,         \* the socket of the handler between recv() and send()
    SocketInfoList, \* the sockets that have a record in the list
    info,           \* info[fd]: the record of fd
    enabled,        \* enabled[fd]: the events Winsock may post for fd
    queue,          \* the window messages
    misled          \* history: connections that got a message of an earlier one

server == <<pc, wParam, SocketInfoList, info, enabled, queue, misled>>
vars == <<sockets, server>>

listenfd == 3
Events == {"FD_ACCEPT", "FD_READ", "FD_WRITE", "FD_CLOSE"}
SOCKETINFO == [buf: Seq(Bytes), recvbytes: Nat, sendbytes: Nat, recvdelayed: BOOLEAN]
NewSocketInfo == [buf |-> <<>>, recvbytes |-> 0, sendbytes |-> 0, recvdelayed |-> FALSE]

(* "of" is the connection a message was posted for; the code cannot see it. *)
Message(fd, event, error) ==
    [sock |-> fd, event |-> event, error |-> error,
     of |-> IF fdt[fd] \in Clients THEN fdt[fd] ELSE None]

Init ==
    /\ SocketsInit([l \in Listeners |-> IF l = listen_sock THEN listenfd ELSE 0])
    /\ pc = "loop"
    /\ wParam = listenfd
    /\ SocketInfoList = {}
    /\ info = [fd \in Fds |-> NewSocketInfo]
    /\ enabled = [fd \in Fds |-> IF fd = listenfd THEN {"FD_ACCEPT"} ELSE {}]
    /\ queue = <<>>
    /\ misled = {}

-----------------------------------------------------------------------------
(* Winsock.  The end of the stream is posted when all data has been read,  *)
(* a reset as an FD_CLOSE that carries an error.                           *)

Occurs(fd, event, error) ==
    LET c == fdt[fd]
    IN  CASE event = "FD_ACCEPT" -> Acceptable(c) /\ ~ error
          [] event = "FD_READ" -> Unread(c) > 0 /\ peer[c] # "rst" /\ ~ error
          [] event = "FD_WRITE" -> Writable(c) /\ peer[c] # "rst" /\ ~ error
          [] event = "FD_CLOSE" -> (RecvEof(c) /\ ~ error) \/ (RecvError(c) /\ error)

PostEvent(fd) ==
    \E event \in enabled[fd], error \in BOOLEAN :
       /\ pc # "crash"
       /\ Occurs(fd, event, error)
       /\ queue' = Append(queue, Message(fd, event, error))
       /\ enabled' = [enabled EXCEPT ![fd] = @ \ {event}]
       /\ UNCHANGED <<sockets, pc, wParam, SocketInfoList, info, misled>>

-----------------------------------------------------------------------------
(* ProcessSocketMessage(). *)

Msg == Head(queue)
Handles(event) ==
    /\ pc = "loop"
    /\ queue # <<>>
    /\ ~ Msg.error
    /\ Msg.event = event

(* RemoveSocketInfo(): a socket that is not in the list is left alone.     *)
(* closesocket() cancels what Winsock would post, not what it has posted.  *)
RemoveSocketInfo(fd) ==
    IF fd \in SocketInfoList
    THEN /\ Close(fd)
         /\ SocketInfoList' = SocketInfoList \ {fd}
         /\ info' = [info EXCEPT ![fd] = NewSocketInfo]
         /\ enabled' = [enabled EXCEPT ![fd] = {}]
    ELSE UNCHANGED <<sockets, SocketInfoList, info, enabled>>

OnError ==
    /\ pc = "loop"
    /\ queue # <<>>
    /\ Msg.error
    /\ RemoveSocketInfo(Msg.sock)
    /\ queue' = Tail(queue)
    /\ UNCHANGED <<pc, wParam>>

(* accept() re-enables FD_ACCEPT; a failing one ends the handler.  When     *)
(* WSAAsyncSelect() fails, the new record and its socket are removed again. *)
OnAccept ==
    /\ Handles("FD_ACCEPT")
    /\ queue' = Tail(queue)
    /\ UNCHANGED <<pc, wParam>>
    /\ \/ \E c \in Clients, fd \in Fds :
             /\ Accept(listen_sock, c, fd)
             /\ SocketInfoList' = SocketInfoList \cup {fd}
             /\ info' = [info EXCEPT ![fd] = NewSocketInfo]
             /\ enabled' = [enabled EXCEPT
                               ![Msg.sock] = @ \cup {"FD_ACCEPT"},
                               ![fd] = {"FD_READ", "FD_WRITE", "FD_CLOSE"}]
       \/ /\ \E c \in Clients : AcceptAndClose(listen_sock, c)
          /\ enabled' = [enabled EXCEPT ![Msg.sock] = @ \cup {"FD_ACCEPT"}]
          /\ UNCHANGED <<SocketInfoList, info>>
       \/ /\ AcceptFails(listen_sock)
          /\ \/ NoFreeFd /\ link' = link
             \/ \E c \in Backlog(listen_sock) :
                   peer[c] = "rst" /\ link' = [link EXCEPT ![c] = "closed"]
          /\ enabled' = [enabled EXCEPT ![Msg.sock] = @ \cup {"FD_ACCEPT"}]
          /\ UNCHANGED <<peer, sent, taken, out, got, fdt, SocketInfoList, info>>

(* FD_READ or FD_WRITE of a socket that is not in the list: GetSocketInfo() *)
(* returns NULL and the program ends on it.                                 *)
NullPointer ==
    /\ Handles("FD_READ") \/ Handles("FD_WRITE")
    /\ Msg.sock \notin SocketInfoList
    /\ CloseAll
    /\ pc' = "crash"
    /\ SocketInfoList' = {}
    /\ info' = [fd \in Fds |-> NewSocketInfo]
    /\ enabled' = [fd \in Fds |-> {}]
    /\ queue' = <<>>
    /\ wParam' = listenfd

MustDelay(fd) == info[fd].recvbytes > 0

(* Mutation: the message is passed over. *)
IgnoreRead ==
    /\ Handles("FD_READ")
    /\ Msg.sock \in SocketInfoList
    /\ MustDelay(Msg.sock)
    /\ queue' = Tail(queue)
    /\ UNCHANGED <<sockets, pc, wParam, SocketInfoList, info, enabled>>

DelayRecv ==
    /\ Handles("FD_READ")
    /\ Msg.sock \in SocketInfoList
    /\ MustDelay(Msg.sock)
    /\ info' = [info EXCEPT ![Msg.sock].recvdelayed = TRUE]
    /\ queue' = Tail(queue)
    /\ UNCHANGED <<sockets, pc, wParam, SocketInfoList, enabled>>

(* recv() re-enables FD_READ, whatever it returns.  The handler falls      *)
(* through to the case of FD_WRITE.                                        *)
RecvCall ==
    LET fd == Msg.sock
        c == fdt[fd]
    IN  /\ Handles("FD_READ")
        /\ fd \in SocketInfoList
        /\ ~ MustDelay(fd)
        /\ queue' = Tail(queue)
        /\ \/ \E n \in 0 .. BUFSIZE :
                 /\ RecvReturns(c, n) \/ (n = 0 /\ RecvEof(c))
                 /\ Take(c, n)
                 /\ info' = [info EXCEPT ![fd].buf = Chunk(c, taken[c], n),
                                         ![fd].recvbytes = n]
                 /\ enabled' = [enabled EXCEPT ![fd] = @ \cup {"FD_READ"}]
                 /\ pc' = "write"
                 /\ wParam' = fd
                 /\ UNCHANGED SocketInfoList
           \/ RecvFails(c) /\ RemoveSocketInfo(fd) /\ UNCHANGED <<pc, wParam>>

(* The rest of the handler: send(), for FD_WRITE or after recv(). *)
AtSend(fd) ==
    /\ (pc = "write" /\ wParam = fd) \/ (Handles("FD_WRITE") /\ Msg.sock = fd)
    /\ fd \in SocketInfoList

RestOfQueue == IF pc = "write" THEN queue ELSE Tail(queue)

NothingToSend(fd) ==
    /\ AtSend(fd)
    /\ info[fd].recvbytes <= info[fd].sendbytes
    /\ queue' = RestOfQueue
    /\ pc' = "loop"
    /\ UNCHANGED <<sockets, wParam, SocketInfoList, info, enabled>>

(* A send() that is short re-enables FD_WRITE. *)
SendPart(fd) ==
    LET ptr == info[fd]
        len == ptr.recvbytes - ptr.sendbytes
    IN  \E n \in 1 .. (len - 1) :
           /\ AtSend(fd)
           /\ SendReturns(fdt[fd], n, len)
           /\ Give(fdt[fd], SubSeq(ptr.buf, ptr.sendbytes + 1, ptr.sendbytes + n))
           /\ info' = [info EXCEPT ![fd].sendbytes = @ + n]
           /\ enabled' = [enabled EXCEPT ![fd] = @ \cup {"FD_WRITE"}]
           /\ queue' = RestOfQueue
           /\ pc' = "loop"
           /\ UNCHANGED <<wParam, SocketInfoList>>

(* Mutation: FD_READ is posted whether or not one was put off. *)
SendRestAndRead(fd) ==
    LET ptr == info[fd]
        len == ptr.recvbytes - ptr.sendbytes
    IN  /\ AtSend(fd)
        /\ len > 0
        /\ SendReturns(fdt[fd], len, len)
        /\ Give(fdt[fd], SubSeq(ptr.buf, ptr.sendbytes + 1, ptr.recvbytes))
        /\ info' = [info EXCEPT ![fd].recvbytes = 0, ![fd].sendbytes = 0,
                                ![fd].recvdelayed = FALSE]
        /\ queue' = Append(RestOfQueue, Message(fd, "FD_READ", FALSE))
        /\ pc' = "loop"
        /\ UNCHANGED <<wParam, SocketInfoList, enabled>>

(* A complete send() posts the FD_READ that was put off. *)
SendRest(fd) ==
    LET ptr == info[fd]
        len == ptr.recvbytes - ptr.sendbytes
    IN  /\ AtSend(fd)
        /\ len > 0
        /\ SendReturns(fdt[fd], len, len)
        /\ Give(fdt[fd], SubSeq(ptr.buf, ptr.sendbytes + 1, ptr.recvbytes))
        /\ info' = [info EXCEPT ![fd].recvbytes = 0, ![fd].sendbytes = 0,
                                ![fd].recvdelayed = FALSE]
        /\ queue' = IF ptr.recvdelayed
                    THEN Append(RestOfQueue, Message(fd, "FD_READ", FALSE))
                    ELSE RestOfQueue
        /\ pc' = "loop"
        /\ UNCHANGED <<wParam, SocketInfoList, enabled>>

(* send() fails on a reset connection, and when it would block. *)
SendRemoves(fd) ==
    /\ AtSend(fd)
    /\ info[fd].recvbytes > info[fd].sendbytes
    /\ SendFails(fdt[fd], info[fd].recvbytes - info[fd].sendbytes)
    /\ RemoveSocketInfo(fd)
    /\ queue' = RestOfQueue
    /\ pc' = "loop"
    /\ UNCHANGED wParam

OnClose ==
    /\ Handles("FD_CLOSE")
    /\ RemoveSocketInfo(Msg.sock)
    /\ queue' = Tail(queue)
    /\ UNCHANGED <<pc, wParam>>

(* A message for an earlier owner of the same socket. *)
Stale == /\ pc = "loop"
         /\ queue # <<>>
         /\ Msg.event # "FD_ACCEPT"
         /\ Msg.of # fdt[Msg.sock]

ProcessSocketMessage ==
    /\ \/ OnError \/ OnAccept \/ OnClose \/ NullPointer \/ DelayRecv \/ RecvCall
       \/ \E fd \in Fds :
             NothingToSend(fd) \/ SendPart(fd) \/ SendRest(fd) \/ SendRemoves(fd)
    /\ misled' = IF Stale THEN misled \cup ({fdt[Msg.sock]} \cap Clients) ELSE misled

Server == ProcessSocketMessage \/ \E fd \in Fds : PostEvent(fd)

Environment == (\E c \in Clients : Remote(c)) /\ UNCHANGED server

Next == Server \/ Environment

Spec == Init /\ [][Next]_vars

-----------------------------------------------------------------------------
(* Properties. *)

TypeOK ==
    /\ SocketsTypeOK
    /\ pc \in {"loop", "write", "crash"}
    /\ wParam \in Fds
    /\ SocketInfoList \subseteq Fds
    /\ info \in [Fds -> SOCKETINFO]
    /\ enabled \in [Fds -> SUBSET Events]
    /\ misled \subseteq Clients
    /\ queue \in Seq([sock: Fds, event: Events, error: BOOLEAN, of: Clients \cup {None}])

Queued(fd, event) ==
    Quantify(DOMAIN queue, LAMBDA k : /\ queue[k].sock = fd
                                      /\ queue[k].event = event
                                      /\ queue[k].of = fdt[fd])
One(b) == IF b THEN 1 ELSE 0

(* The right to receive is neither lost nor doubled: for an open connection *)
(* either Winsock may post FD_READ, or one FD_READ is in the queue, or one  *)
(* was put off -- and then the buffer is not empty.  While the buffer is    *)
(* not empty an FD_WRITE will come.  Were it otherwise, the connection      *)
(* would fall silent, or recv() would find nothing and remove it.  Windows  *)
(* may give a new connection the socket of a removed one; a message of the  *)
(* old one that is still in the queue spoils the new one.                   *)
OneReadMessage ==
    \A fd \in {f \in SocketInfoList : fdt[f] \notin misled} :
       /\ One("FD_READ" \in enabled[fd]) + Queued(fd, "FD_READ")
             + One(info[fd].recvdelayed) = 1
       /\ info[fd].recvdelayed => info[fd].recvbytes > info[fd].sendbytes
       /\ info[fd].recvbytes > info[fd].sendbytes =>
             \/ pc = "write" /\ wParam = fd
             \/ "FD_WRITE" \in enabled[fd]
             \/ Queued(fd, "FD_WRITE") > 0

(* What was received is sent back or still in the buffer, in its order, even *)
(* when messages of an earlier connection mislead the server.                *)
BufferIsBacklog ==
    \A fd \in SocketInfoList :
       LET ptr == info[fd]
       IN  out[fdt[fd]] \o SubSeq(ptr.buf, ptr.sendbytes + 1, ptr.recvbytes)
              = Stream(fdt[fd], taken[fdt[fd]])

(* A connection is given up, and what excuses it: the client has left or   *)
(* does not read, a message of an earlier connection is to blame, or       *)
(* WSAAsyncSelect() has failed for a connection just accepted.             *)
GivesUp(c) == link[c] \in {"backlog", "open"} /\ link'[c] = "closed"
Unregistered(c) == Handles("FD_ACCEPT") /\ AcceptAndClose(listen_sock, c)
Excused(c) == \/ peer[c] # "up" \/ SendSpace(c) <= 0
              \/ Stale \/ c \in misled
              \/ Unregistered(c)
=============================================================================
