----------------------------- MODULE TCPSockets -----------------------------
(***************************************************************************)
(* What the operating system and the remote programs do for every TCP      *)
(* server of the book: connection requests, byte streams, send buffers     *)
(* and the descriptor table of the server process.  None of it is code of  *)
(* the repository; it is modelled from how the servers use socket(),       *)
(* accept(), recv(), send(), select() and close().                         *)
(*                                                                         *)
(* A byte is a pair <<c, k>>: the k-th byte that client c sent.  Bytes     *)
(* therefore keep their origin, and a byte that reaches the wrong client   *)
(* or in the wrong order can be told from the right one.                   *)
(***************************************************************************)
EXTENDS Integers, Sequences, FiniteSets

CONSTANTS
    Clients,     \* the remote programs; each connects at most once
    Listeners,   \* the listening sockets of the server
    Dials,       \* Dials[c]: the listening socket client c connects to
    Free,        \* mark of an unused descriptor
    MaxSend,     \* BOUND: bytes a client sends
    BUFSIZE,     \* bytes one recv() may return
    SNDBUF,      \* bytes the kernel queues for a client that does not read
    NOFILE,      \* descriptors 0 .. NOFILE-1 exist; 0, 1 and 2 are taken
    SigPipe,     \* sending to a reset connection may kill the process
    AcceptReset  \* accept() reports a connection reset while it was queued

ASSUME SocketsAssumption ==
    /\ IsFiniteSet(Clients)
    /\ Dials \in [Clients -> Listeners]
    /\ Clients \cap Listeners = {}
    /\ Free \notin Clients \cup Listeners
    /\ MaxSend \in Nat
    /\ BUFSIZE \in Nat \ {0}
    /\ SNDBUF \in Nat \ {0}
    /\ NOFILE \in Nat
    /\ SigPipe \in BOOLEAN
    /\ AcceptReset \in BOOLEAN

Fds == 3 .. (NOFILE - 1)
Bytes == Clients \X (Nat \ {0})

VARIABLES
    link,    \* link[c]: "new", "backlog" (connected, not accepted), "open", "closed"
    peer,    \* the client's end as the server's kernel knows it: "up", "fin", "rst"
    sent,    \* sent[c]: number of bytes of c that have arrived
    taken,   \* taken[c]: how many of them recv() has handed to the server
    out,     \* out[c]: the bytes send() has accepted for c
    got,     \* got[c]: how many of them c has read
    fdt      \* the descriptor table: fdt[fd] is a client, a listener or Free

sockets == <<link, peer, sent, taken, out, got, fdt>>

SocketsTypeOK ==
    /\ link \in [Clients -> {"new", "backlog", "open", "closed"}]
    /\ peer \in [Clients -> {"up", "fin", "rst"}]
    /\ sent \in [Clients -> Nat]
    /\ taken \in [Clients -> Nat]
    /\ out \in [Clients -> Seq(Bytes)]
    /\ got \in [Clients -> Nat]
    /\ fdt \in [Fds -> Clients \cup Listeners \cup {Free}]

(* The first m bytes of client c, and the n bytes after the first m. *)
Stream(c, m) == [k \in 1 .. m |-> <<c, k>>]
Chunk(c, m, n) == [k \in 1 .. n |-> <<c, m + k>>]

(* A server that has just called listen(); listenFd[l] holds listener l. *)
SocketsInit(listenFd) ==
    /\ link = [c \in Clients |-> "new"]
    /\ peer = [c \in Clients |-> "up"]
    /\ sent = [c \in Clients |-> 0]
    /\ taken = [c \in Clients |-> 0]
    /\ out = [c \in Clients |-> <<>>]
    /\ got = [c \in Clients |-> 0]
    /\ fdt = [fd \in Fds |-> IF \E l \in Listeners : listenFd[l] = fd
                             THEN CHOOSE l \in Listeners : listenFd[l] = fd
                             ELSE Free]

-----------------------------------------------------------------------------
(* The remote programs. *)

Listening(l) == \E fd \in Fds : fdt[fd] = l

Connect(c) ==
    /\ link[c] = "new"
    /\ Listening(Dials[c])
    /\ link' = [link EXCEPT ![c] = "backlog"]
    /\ UNCHANGED <<peer, sent, taken, out, got, fdt>>

ClientSend(c) ==
    /\ link[c] \in {"backlog", "open"}
    /\ peer[c] = "up"
    /\ sent[c] < MaxSend
    /\ sent' = [sent EXCEPT ![c] = @ + 1]
    /\ UNCHANGED <<link, peer, taken, out, got, fdt>>

ClientRead(c) ==
    /\ peer[c] # "rst"
    /\ got[c] < Len(out[c])
    /\ got' = [got EXCEPT ![c] = @ + 1]
    /\ UNCHANGED <<link, peer, sent, taken, out, fdt>>

(* shutdown(SD_SEND) or closesocket(): the end of the stream arrives. *)
ClientFin(c) ==
    /\ link[c] \in {"backlog", "open"}
    /\ peer[c] = "up"
    /\ peer' = [peer EXCEPT ![c] = "fin"]
    /\ UNCHANGED <<link, sent, taken, out, got, fdt>>

(* The connection is reset: an abortive close, or the answer of a closed   *)
(* socket to data that reaches it.                                         *)
ClientReset(c) ==
    /\ link[c] \in {"backlog", "open"}
    /\ peer[c] \in {"up", "fin"}
    /\ peer' = [peer EXCEPT ![c] = "rst"]
    /\ UNCHANGED <<link, sent, taken, out, got, fdt>>

Remote(c) ==
    Connect(c) \/ ClientSend(c) \/ ClientRead(c) \/ ClientFin(c) \/ ClientReset(c)

-----------------------------------------------------------------------------
(* The system calls of the server.  Guards say which outcomes are possible; *)
(* a blocking call is an action that is not enabled before it can return.  *)

Backlog(l) == {c \in Clients : link[c] = "backlog" /\ Dials[c] = l}
Connected(fd) == fdt[fd] \in Clients
Unread(c) == sent[c] - taken[c]
SendSpace(c) == SNDBUF - (Len(out[c]) - got[c])

(* What select(), poll() and epoll_wait() report (level triggered). *)
Acceptable(l) == Backlog(l) # {}
Readable(c) == Unread(c) > 0 \/ peer[c] # "up"
Writable(c) == SendSpace(c) > 0 \/ peer[c] = "rst"

NoFreeFd == \A fd \in Fds : fdt[fd] # Free
LowestFree(fd) == /\ fdt[fd] = Free
                  /\ \A g \in Fds : g < fd => fdt[g] # Free

(* socket(), bind() and listen(). *)
Listen(l, fd) ==
    /\ LowestFree(fd)
    /\ fdt' = [fdt EXCEPT ![fd] = l]
    /\ UNCHANGED <<link, peer, sent, taken, out, got>>

(* accept() hands out a queued connection under the lowest free descriptor. *)
Accept(l, c, fd) ==
    /\ c \in Backlog(l)
    /\ ~ (AcceptReset /\ peer[c] = "rst")
    /\ LowestFree(fd)
    /\ link' = [link EXCEPT ![c] = "open"]
    /\ fdt' = [fdt EXCEPT ![fd] = c]
    /\ UNCHANGED <<peer, sent, taken, out, got>>

(* accept() fails: the process has no descriptor left, or the connection  *)
(* at the head of the queue is gone.                                       *)
AcceptFails(l) ==
    /\ Acceptable(l)
    /\ NoFreeFd \/ (AcceptReset /\ \E c \in Backlog(l) : peer[c] = "rst")

(* accept() and close() at once: the connection is refused. *)
AcceptAndClose(l, c) ==
    /\ c \in Backlog(l)
    /\ ~ (AcceptReset /\ peer[c] = "rst")
    /\ ~ NoFreeFd
    /\ link' = [link EXCEPT ![c] = "closed"]
    /\ UNCHANGED <<peer, sent, taken, out, got, fdt>>

(* recv() returns the next n bytes of c, 0 or SOCKET_ERROR.  It would      *)
(* block when there is nothing to report: a non-blocking socket returns    *)
(* SOCKET_ERROR then too.                                                  *)
RecvReturns(c, n) == n \in 1 .. BUFSIZE /\ n <= Unread(c)
RecvEof(c) == peer[c] = "fin" /\ Unread(c) = 0
RecvError(c) == peer[c] = "rst"
RecvWouldBlock(c) == peer[c] = "up" /\ Unread(c) = 0
RecvFails(c) == peer[c] = "rst" \/ RecvWouldBlock(c)

Take(c, n) ==
    /\ taken' = [taken EXCEPT ![c] = @ + n]
    /\ UNCHANGED <<link, peer, sent, out, got, fdt>>

(* send() of len bytes returns n; on a non-blocking socket n may be less   *)
(* than len.  Sending no bytes always succeeds on a live connection.       *)
SendReturns(c, n, len) ==
    /\ peer[c] # "rst"
    /\ n \in 0 .. len
    /\ n = 0 => len = 0
    /\ n > 0 => n <= SendSpace(c)
SendError(c) == peer[c] = "rst"
SendWouldBlock(c) == peer[c] # "rst" /\ SendSpace(c) <= 0
SendFails(c, len) == peer[c] = "rst" \/ (len > 0 /\ SendSpace(c) <= 0)

Give(c, bytes) ==
    /\ out' = [out EXCEPT ![c] = @ \o bytes]
    /\ UNCHANGED <<link, peer, sent, taken, got, fdt>>

Close(fd) ==
    /\ link' = [link EXCEPT ![fdt[fd]] = "closed"]
    /\ fdt' = [fdt EXCEPT ![fd] = Free]
    /\ UNCHANGED <<peer, sent, taken, out, got>>

(* close() of a listening socket: the connections in its queue are gone. *)
CloseListener(l) ==
    /\ link' = [c \in Clients |-> IF c \in Backlog(l) THEN "closed" ELSE link[c]]
    /\ fdt' = [fd \in Fds |-> IF fdt[fd] = l THEN Free ELSE fdt[fd]]
    /\ UNCHANGED <<peer, sent, taken, out, got>>

(* The process ends: the kernel closes every descriptor. *)
CloseAll ==
    /\ link' = [c \in Clients |-> IF link[c] \in {"backlog", "open"}
                                  THEN "closed" ELSE link[c]]
    /\ fdt' = [fd \in Fds |-> Free]
    /\ UNCHANGED <<peer, sent, taken, out, got>>

-----------------------------------------------------------------------------
(* What the servers owe their clients. *)

(* The books of a record and its client c, from whom took bytes were taken *)
(* and to whom gave bytes were given: what is between the two waits in the *)
(* buffer, byte for byte.                                                  *)
Booked(ptr, c, took, gave) ==
    /\ ptr.sendbytes <= ptr.recvbytes
    /\ ptr.sendbytes = ptr.recvbytes => ptr.sendbytes = 0
    /\ ptr.recvbytes <= Len(ptr.buf)
    /\ took = gave + ptr.recvbytes - ptr.sendbytes
    /\ \A m \in (ptr.sendbytes + 1) .. ptr.recvbytes :
          ptr.buf[m] = <<c, gave + m - ptr.sendbytes>>
=============================================================================
