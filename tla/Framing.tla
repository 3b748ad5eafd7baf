------------------------------- MODULE Framing ------------------------------
(***************************************************************************)
(* The four ways of Chapter05 to find the end of a message in the stream,  *)
(* on Linux and Windows, each with its client and its server:              *)
(*                                                                         *)
(*   Fixed             every message has BUFSIZE bytes                     *)
(*   Variable          a message ends with '\n'; recvline() takes single   *)
(*                     bytes out of a buffer of its own                    *)
(*   FixedVariable     the length is sent first, as an int                 *)
(*   CloseOnTransfer   a connection carries one message                    *)
(*                                                                         *)
(* The stream arrives byte by byte and may end anywhere: client programs   *)
(* may be stopped.  A server serves one connection after the other.        *)
(***************************************************************************)
EXTENDS TCPSockets, SequencesExt

CONSTANTS
    listen_sock,
    Lengths,    \* Lengths[m]: the length of the m-th message of a client
    INTSIZE,    \* bytes of an int
    LINESIZE,   \* Variable: BUFSIZE of the server, where a line must end
    AHEAD       \* bytes _recv_ahead() receives at most, 1024 in the code

VARIABLES
    protocol,   \* which of the programs run; it never changes
    pc,         \* the server: "accept", "recv", "body", "close", "end"
    client_sock,
    len,        \* FixedVariable: the length it has received
    ahead,      \* Variable: the static buf of _recv_ahead()
    line,       \* Variable: what recvline() has of the line
    printed     \* printed[c]: the texts that were printed for client c

server == <<protocol, pc, client_sock, len, ahead, line, printed>>
vars == <<sockets, server>>

Protocols == {"Fixed", "Variable", "FixedVariable", "CloseOnTransfer"}

-----------------------------------------------------------------------------
(* What the clients send.  A byte is <<m, k>>, the k-th of the text of      *)
(* message m; the bytes that are no text have a k below 1.                  *)

Newline == 0
Filler == -1
LengthByte == -2
Mark(m, what, n) == [k \in 1 .. n |-> <<m, what>>]
Text(m) == [k \in 1 .. Lengths[m] |-> <<m, k>>]
Frame(m) ==
    CASE protocol = "Fixed" -> Text(m) \o Mark(m, Filler, BUFSIZE - Lengths[m])
      [] protocol = "Variable" -> Append(Text(m), <<m, Newline>>)
      [] protocol = "FixedVariable" -> Mark(m, LengthByte, INTSIZE) \o Text(m)
      [] protocol = "CloseOnTransfer" -> Text(m)
Count == IF protocol = "CloseOnTransfer" THEN 1 ELSE Len(Lengths)

(* Every client sends the frames 1 .. Count one after the other.  Start(m)  *)
(* is the number of bytes ahead of frame m, Cell(k) the k-th byte of all.   *)
Start(m) == Cardinality(UNION {{j} \X DOMAIN Frame(j) : j \in 1 .. (m - 1)})
FrameAt(k) == CHOOSE m \in 1 .. Count : Start(m) < k /\ k <= Start(m + 1)
Cell(k) == LET m == FrameAt(k) IN Frame(m)[k - Start(m)]
Cells(c, n) == [k \in 1 .. n |-> Cell(taken[c] + k)]

(* What a server prints of a frame. *)
Printed(m) == IF protocol = "FixedVariable" THEN Text(m) ELSE Frame(m)

Init ==
    /\ SocketsInit([l \in Listeners |-> IF l = listen_sock THEN 3 ELSE 0])
    /\ protocol \in Protocols
    /\ pc = "accept"
    /\ client_sock = 0
    /\ len = 0
    /\ ahead = <<>>
    /\ line = <<>>
    /\ printed = [c \in Clients |-> <<>>]

-----------------------------------------------------------------------------
(* The server. *)

AcceptCall ==
    /\ pc = "accept"
    /\ \E c \in Clients, fd \in Fds : Accept(listen_sock, c, fd) /\ client_sock' = fd
    /\ pc' = "recv"
    /\ UNCHANGED <<protocol, len, ahead, line, printed>>

AcceptBreaks ==
    /\ pc = "accept"
    /\ AcceptFails(listen_sock)
    /\ CloseAll
    /\ pc' = "end"
    /\ UNCHANGED <<protocol, client_sock, len, ahead, line, printed>>

Peer == fdt[client_sock]
Show(text) == printed' = [printed EXCEPT ![Peer] = Append(@, text)]

(* recv() with MSG_WAITALL returns n of size bytes: less than size only     *)
(* when the stream ends.                                                    *)
WaitAll(size, n) ==
    /\ n \in 1 .. size
    /\ n <= Unread(Peer)
    /\ n < size => peer[Peer] # "up" /\ n = Unread(Peer)

(* recv() reports the end of the stream or an error, or nothing was to be   *)
(* received: the connection is closed.                                      *)
RecvBreaks ==
    /\ \/ pc = "recv" /\ ahead = <<>> /\ (RecvEof(Peer) \/ RecvError(Peer))
       \/ pc = "body" /\ (RecvEof(Peer) \/ RecvError(Peer) \/ len = 0)
    /\ pc' = "close"
    /\ IF line # <<>> /\ ~ RecvError(Peer) THEN Show(line) ELSE printed' = printed
    /\ line' = <<>>
    /\ UNCHANGED <<sockets, protocol, client_sock, len, ahead>>

RecvMessage ==
    \E n \in 1 .. BUFSIZE :
       /\ protocol \in {"Fixed", "CloseOnTransfer"}
       /\ pc = "recv"
       /\ WaitAll(BUFSIZE, n)
       /\ Take(Peer, n)
       /\ Show(Cells(Peer, n))
       /\ UNCHANGED <<protocol, pc, client_sock, len, ahead, line>>

(* A length of which only a part has arrived is some number; the stream has *)
(* ended then.                                                              *)
RecvLength ==
    \E n \in 1 .. INTSIZE :
       /\ protocol = "FixedVariable"
       /\ pc = "recv"
       /\ WaitAll(INTSIZE, n)
       /\ len' \in (IF n = INTSIZE THEN {Lengths[Cell(taken[Peer] + 1)[1]]} ELSE 0 .. BUFSIZE)
       /\ Take(Peer, n)
       /\ pc' = "body"
       /\ UNCHANGED <<protocol, client_sock, ahead, line, printed>>

RecvBody ==
    \E n \in 1 .. len :
       /\ pc = "body"
       /\ WaitAll(len, n)
       /\ Take(Peer, n)
       /\ Show(Cells(Peer, n))
       /\ pc' = "recv"
       /\ UNCHANGED <<protocol, client_sock, len, ahead, line>>

(* _recv_ahead() receives when its buffer is empty. *)
RecvAhead ==
    \E n \in 1 .. AHEAD :
       /\ protocol = "Variable"
       /\ pc = "recv"
       /\ ahead = <<>>
       /\ n <= Unread(Peer)
       /\ Take(Peer, n)
       /\ ahead' = Cells(Peer, n)
       /\ UNCHANGED <<protocol, pc, client_sock, len, line, printed>>

(* Mutation: what was received beyond the line is dropped. *)
NextCharAlone ==
    LET text == Append(line, Head(ahead))
        ends == Head(ahead)[2] = Newline \/ Len(text) = LINESIZE
    IN  /\ protocol = "Variable"
        /\ pc = "recv"
        /\ ahead # <<>>
        /\ ahead' = IF ends THEN <<>> ELSE Tail(ahead)
        /\ line' = IF ends THEN <<>> ELSE text
        /\ IF ends THEN Show(text) ELSE printed' = printed
        /\ UNCHANGED <<sockets, protocol, pc, client_sock, len>>

(* recvline() takes the next byte; the line ends with '\n' or when the      *)
(* caller's buffer is full.                                                 *)
NextChar ==
    LET text == Append(line, Head(ahead))
        ends == Head(ahead)[2] = Newline \/ Len(text) = LINESIZE
    IN  /\ protocol = "Variable"
        /\ pc = "recv"
        /\ ahead # <<>>
        /\ ahead' = Tail(ahead)
        /\ line' = IF ends THEN <<>> ELSE text
        /\ IF ends THEN Show(text) ELSE printed' = printed
        /\ UNCHANGED <<sockets, protocol, pc, client_sock, len>>

CloseCall ==
    /\ pc = "close"
    /\ Close(client_sock)
    /\ client_sock' = 0
    /\ pc' = "accept"
    /\ UNCHANGED <<protocol, len, ahead, line, printed>>

Server ==
    \/ AcceptCall \/ AcceptBreaks \/ RecvBreaks \/ RecvMessage \/ RecvLength
    \/ RecvBody \/ RecvAhead \/ NextChar \/ CloseCall

(* A client sends its frames and no more. *)
Environment ==
    /\ \E c \in Clients : Remote(c) /\ sent'[c] <= Start(Count + 1)
    /\ UNCHANGED server

Next == Server \/ Environment

Spec == Init /\ [][Next]_vars

-----------------------------------------------------------------------------
(* Properties. *)

TypeOK ==
    /\ SocketsTypeOK
    /\ protocol \in Protocols
    /\ pc \in {"accept", "recv", "body", "close", "end"}
    /\ client_sock \in Fds \cup {0}
    /\ len \in Nat
    /\ Len(ahead) <= AHEAD
    /\ Len(line) < LINESIZE

(* However the stream is cut, what a server prints for a client are that    *)
(* client's messages, whole and in order; only when the stream has ended in *)
(* the middle of a message is a piece of it printed, as the last text.  The *)
(* static buffer of _recv_ahead() carries nothing over to the next client.  *)
MessagesKept ==
    \A c \in Clients : \A j \in 1 .. Len(printed[c]) :
       \/ j <= Count /\ printed[c][j] = Printed(j)
       \/ /\ j = Len(printed[c])
          /\ j <= Count
          /\ peer[c] # "up"
          /\ IsPrefix(printed[c][j], Printed(j))

(* A frame of which every byte has arrived is printed, for CloseOnTransfer  *)
(* when the end of the stream has arrived as well.                          *)
Arrived(c, m) ==
    /\ link[c] = "open"
    /\ m <= Count
    /\ sent[c] >= Start(m + 1)
    /\ protocol = "CloseOnTransfer" => peer[c] # "up"
WasPrinted(c, m) == Len(printed[c]) >= m \/ peer[c] = "rst"
=============================================================================
