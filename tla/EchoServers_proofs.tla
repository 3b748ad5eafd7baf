------------------------- MODULE EchoServers_proofs -------------------------
(***************************************************************************)
(* Proofs about the completion port server, the servers with an accept     *)
(* loop and the WSAAsyncSelect() server, for any set of clients, any       *)
(* number of workers and threads and any size of the buffers and the       *)
(* descriptor table; and about the run of MCEchoServers, which is one run  *)
(* of each echo server.                                                    *)
(***************************************************************************)
EXTENDS MCEchoServers, EPollTCPServer_proofs

-----------------------------------------------------------------------------
(* The sockets x_link ... x_fdt, whichever program uses them. *)

XTyped ==
    /\ x_link \in [Clients -> {"new", "backlog", "open", "closed"}]
    /\ x_peer \in [Clients -> {"up", "fin", "rst"}]
    /\ x_sent \in [Clients -> Nat]
    /\ x_taken \in [Clients -> Nat]
    /\ x_out \in [Clients -> Seq(Bytes)]
    /\ x_got \in [Clients -> Nat]
    /\ x_fdt \in [Fds -> Clients \cup Listeners \cup {Free}]

(* Every open connection has a descriptor of its own. *)
Connections ==
    /\ \A f, g \in Fds : x_fdt[f] \in Clients /\ x_fdt[f] = x_fdt[g] => f = g
    /\ \A f \in Fds : x_fdt[f] \in Clients => x_link[x_fdt[f]] = "open"
    /\ \A c \in Clients : x_link[c] = "open" => \E f \in Fds : x_fdt[f] = c

(* Nothing is taken before it has arrived, and nothing from or given to a  *)
(* client that has not been accepted.                                      *)
InTime ==
    /\ \A c \in Clients : x_taken[c] <= x_sent[c]
    /\ \A c \in Clients :
          x_link[c] \in {"new", "backlog"} => x_taken[c] = 0 /\ x_out[c] = <<>>

XSockets == XTyped /\ Connections /\ InTime

Fins(c) == x_peer[c] = "fin" /\ x_taken[c] = x_sent[c]

LEMMA SameTypes ==
    /\ Port!Fds = Fds /\ Loops!Fds = Fds /\ Server1!Fds = Fds /\ Async!Fds = Fds
    /\ Port!Bytes = Bytes /\ Loops!Bytes = Bytes /\ Server1!Bytes = Bytes
    /\ Async!Bytes = Bytes
    /\ Port!SocketsTypeOK <=> XTyped
    /\ Loops!SocketsTypeOK <=> XTyped
    /\ Async!SocketsTypeOK <=> XTyped
<1>1. /\ Port!Fds = Fds /\ Loops!Fds = Fds /\ Server1!Fds = Fds /\ Async!Fds = Fds
      /\ Port!Bytes = Bytes /\ Loops!Bytes = Bytes /\ Server1!Bytes = Bytes
      /\ Async!Bytes = Bytes
  BY DEF Port!Fds, Loops!Fds, Server1!Fds, Async!Fds, Fds,
         Port!Bytes, Loops!Bytes, Server1!Bytes, Async!Bytes, Bytes
<1> QED
  BY <1>1 DEF Port!SocketsTypeOK, Loops!SocketsTypeOK, Async!SocketsTypeOK, XTyped

LEMMA Descriptors == /\ listenfd \in Fds /\ 0 \notin Fds /\ Fds \subseteq Nat
                     /\ listen_sock \in Listeners /\ Free \notin Clients
                     /\ \A l \in Listeners : l \notin Clients /\ l # Free
<1>1. NOFILE \in Nat /\ NOFILE > 3
  BY EPollAssumption, SocketsAssumption
<1>2. listenfd \in Fds /\ 0 \notin Fds /\ Fds \subseteq Nat
  BY <1>1 DEF Fds, listenfd
<1> QED
  BY <1>2, EPollAssumption, SocketsAssumption

-----------------------------------------------------------------------------
(* What the clients do. *)
RemoteX(c) ==
    Port!Remote(c) \/ Loops!Remote(c) \/ Server1!Remote(c) \/ Async!Remote(c)

LEMMA RemoteIs ==
    ASSUME NEW c \in Clients, RemoteX(c)
    PROVE  /\ UNCHANGED <<x_taken, x_out, x_fdt>>
           /\ \/ /\ x_link[c] = "new" /\ x_link' = [x_link EXCEPT ![c] = "backlog"]
                 /\ UNCHANGED <<x_peer, x_sent, x_got>>
              \/ /\ x_peer[c] = "up" /\ x_sent' = [x_sent EXCEPT ![c] = @ + 1]
                 /\ x_link[c] \in {"backlog", "open"}
                 /\ UNCHANGED <<x_link, x_peer, x_got>>
              \/ /\ x_got' = [x_got EXCEPT ![c] = @ + 1]
                 /\ UNCHANGED <<x_link, x_peer, x_sent>>
              \/ /\ x_peer[c] = "up" /\ x_peer' = [x_peer EXCEPT ![c] = "fin"]
                 /\ x_link[c] \in {"backlog", "open"}
                 /\ UNCHANGED <<x_link, x_sent, x_got>>
              \/ /\ x_peer[c] # "rst" /\ x_peer' = [x_peer EXCEPT ![c] = "rst"]
                 /\ x_link[c] \in {"backlog", "open"}
                 /\ UNCHANGED <<x_link, x_sent, x_got>>
<1>1. CASE Port!Remote(c)
  BY <1>1 DEF Port!Remote, Port!Connect, Port!ClientSend, Port!ClientRead, Port!ClientFin,
              Port!ClientReset
<1>2. CASE Loops!Remote(c)
  BY <1>2 DEF Loops!Remote, Loops!Connect, Loops!ClientSend, Loops!ClientRead, Loops!ClientFin,
              Loops!ClientReset
<1>3. CASE Server1!Remote(c)
  BY <1>3 DEF Server1!Remote, Server1!Connect, Server1!ClientSend, Server1!ClientRead,
              Server1!ClientFin, Server1!ClientReset
<1>4. CASE Async!Remote(c)
  BY <1>4 DEF Async!Remote, Async!Connect, Async!ClientSend, Async!ClientRead, Async!ClientFin,
              Async!ClientReset
<1> QED
  BY <1>1, <1>2, <1>3, <1>4 DEF RemoteX

(* They leave the server's books and descriptors alone, take no connection *)
(* away, and a client that has left stays away.                            *)
LEMMA RemoteSockets ==
    ASSUME XSockets, NEW c \in Clients, RemoteX(c)
    PROVE  /\ XSockets' /\ UNCHANGED <<x_taken, x_out, x_fdt>>
           /\ \A d \in Clients : /\ x_peer[d] = "rst" => x_peer'[d] = "rst"
                                 /\ Fins(d) => Fins(d)' \/ x_peer'[d] = "rst"
<1> USE DEF XSockets
<1>1. UNCHANGED <<x_taken, x_out, x_fdt>>
  BY RemoteIs
<1>2. /\ XTyped' /\ \A d \in Clients : x_sent'[d] >= x_sent[d]
      /\ \A d \in Clients : x_link'[d] = "open" <=> x_link[d] = "open"
      /\ \A d \in Clients : x_link'[d] \in {"new", "backlog"} <=> x_link[d] \in {"new", "backlog"}
      /\ \A d \in Clients : x_peer[d] = "rst" => x_peer'[d] = "rst"
      /\ \A d \in Clients : x_peer[d] = "fin" => x_peer'[d] \in {"fin", "rst"} /\ x_sent'[d] = x_sent[d]
  <2> USE DEF XTyped
  <2>1. CASE /\ x_link[c] = "new" /\ x_link' = [x_link EXCEPT ![c] = "backlog"]
             /\ UNCHANGED <<x_peer, x_sent, x_got>>
    BY <1>1, <2>1
  <2>2. CASE /\ x_peer[c] = "up" /\ x_sent' = [x_sent EXCEPT ![c] = @ + 1]
             /\ UNCHANGED <<x_link, x_peer, x_got>>
    <3>1. x_sent' \in [Clients -> Nat] /\ \A d \in Clients : x_sent'[d] >= x_sent[d]
      BY <2>2
    <3>2. \A d \in Clients : d # c => x_sent'[d] = x_sent[d]
      BY <2>2
    <3> QED
      BY <1>1, <2>2, <3>1, <3>2
  <2>3. CASE /\ x_got' = [x_got EXCEPT ![c] = @ + 1]
             /\ UNCHANGED <<x_link, x_peer, x_sent>>
    <3>1. x_got' \in [Clients -> Nat]
      BY <2>3
    <3>2. \A d \in Clients : x_sent'[d] >= x_sent[d]
      BY <2>3
    <3> QED
      BY <1>1, <2>3, <3>1, <3>2
  <2>4. CASE /\ x_peer[c] = "up" /\ x_peer' = [x_peer EXCEPT ![c] = "fin"]
             /\ UNCHANGED <<x_link, x_sent, x_got>>
    BY <1>1, <2>4
  <2>5. CASE /\ x_peer[c] # "rst" /\ x_peer' = [x_peer EXCEPT ![c] = "rst"]
             /\ UNCHANGED <<x_link, x_sent, x_got>>
    BY <1>1, <2>5
  <2> HIDE DEF XTyped
  <2> QED
    BY RemoteIs, <2>1, <2>2, <2>3, <2>4, <2>5
<1>3. Connections'
  BY <1>1, <1>2 DEF Connections
<1>4. InTime'
  <2>1. ASSUME NEW d \in Clients PROVE x_taken'[d] <= x_sent'[d]
    <3>1. x_taken[d] \in Nat /\ x_sent[d] \in Nat /\ x_sent'[d] \in Nat
      BY <1>2 DEF XTyped
    <3> QED
      BY <1>1, <1>2, <3>1 DEF InTime
  <2> QED
    BY <1>1, <1>2, <2>1 DEF InTime
<1> QED
  BY <1>1, <1>2, <1>3, <1>4 DEF Fins

-----------------------------------------------------------------------------
(* The system calls. *)

LEMMA AcceptSockets ==
    ASSUME XSockets, NEW c \in Clients, NEW fd \in Fds,
           x_link[c] = "backlog", x_fdt[fd] = Free,
           x_link' = [x_link EXCEPT ![c] = "open"], x_fdt' = [x_fdt EXCEPT ![fd] = c],
           UNCHANGED <<x_peer, x_sent, x_taken, x_out, x_got>>
    PROVE  /\ XSockets' /\ x_taken[c] = 0 /\ x_out[c] = <<>>
           /\ \A f \in Fds : x_fdt'[f] = IF f = fd THEN c ELSE x_fdt[f]
           /\ \A f \in Fds : x_fdt[f] # c
<1> USE DEF XSockets
<1>1. XTyped'
  BY DEF XTyped
<1>2. \A f \in Fds : x_fdt'[f] = IF f = fd THEN c ELSE x_fdt[f]
  BY DEF XTyped
<1>3. \A d \in Clients : x_link'[d] = IF d = c THEN "open" ELSE x_link[d]
  BY DEF XTyped
<1>4. \A f \in Fds : x_fdt[f] # c
  BY DEF Connections
<1>5. Connections'
  <2>1. \A f, g \in Fds : x_fdt'[f] \in Clients /\ x_fdt'[f] = x_fdt'[g] => f = g
    BY <1>2, <1>4 DEF Connections
  <2>2. \A f \in Fds : x_fdt'[f] \in Clients => x_link'[x_fdt'[f]] = "open"
    BY <1>2, <1>3 DEF Connections
  <2>3. ASSUME NEW d \in Clients, x_link'[d] = "open" PROVE \E f \in Fds : x_fdt'[f] = d
    <3>1. CASE d = c
      BY <1>2, <3>1
    <3>2. CASE d # c
      <4>1. PICK f \in Fds : x_fdt[f] = d
        BY <1>3, <2>3, <3>2 DEF Connections
      <4> QED
        BY <1>2, <4>1, Descriptors
    <3> QED
      BY <3>1, <3>2
  <2> QED
    BY <2>1, <2>2, <2>3 DEF Connections
<1>6. InTime' /\ x_taken[c] = 0 /\ x_out[c] = <<>>
  BY <1>3 DEF InTime
<1> QED
  BY <1>1, <1>2, <1>4, <1>5, <1>6

LEMMA CloseSockets ==
    ASSUME XSockets, NEW fd \in Fds, x_fdt[fd] \in Clients,
           x_link' = [x_link EXCEPT ![x_fdt[fd]] = "closed"],
           x_fdt' = [x_fdt EXCEPT ![fd] = Free],
           UNCHANGED <<x_peer, x_sent, x_taken, x_out, x_got>>
    PROVE  /\ XSockets'
           /\ \A f \in Fds : x_fdt'[f] = IF f = fd THEN Free ELSE x_fdt[f]
           /\ \A c \in Clients : x_link'[c] = IF c = x_fdt[fd] THEN "closed" ELSE x_link[c]
<1> USE DEF XSockets
<1>1. XTyped'
  BY DEF XTyped
<1>2. \A f \in Fds : x_fdt'[f] = IF f = fd THEN Free ELSE x_fdt[f]
  BY DEF XTyped
<1>3. \A c \in Clients : x_link'[c] = IF c = x_fdt[fd] THEN "closed" ELSE x_link[c]
  BY DEF XTyped
<1>4. Connections'
  <2>1. \A f, g \in Fds : x_fdt'[f] \in Clients /\ x_fdt'[f] = x_fdt'[g] => f = g
    BY <1>2, Descriptors DEF Connections
  <2>2. \A f \in Fds : x_fdt'[f] \in Clients => x_link'[x_fdt'[f]] = "open"
    BY <1>2, <1>3, Descriptors DEF Connections
  <2>3. ASSUME NEW d \in Clients, x_link'[d] = "open" PROVE \E f \in Fds : x_fdt'[f] = d
    <3>1. d # x_fdt[fd] /\ x_link[d] = "open"
      BY <1>3, <2>3
    <3>2. PICK f \in Fds : x_fdt[f] = d
      BY <3>1 DEF Connections
    <3> QED
      BY <1>2, <3>1, <3>2
  <2> QED
    BY <2>1, <2>2, <2>3 DEF Connections
<1>5. InTime'
  BY <1>3 DEF InTime
<1> QED
  BY <1>1, <1>2, <1>3, <1>4, <1>5

(* The process ends. *)
LEMMA EndSockets ==
    ASSUME XSockets,
           x_link' = [c \in Clients |-> IF x_link[c] \in {"backlog", "open"}
                                        THEN "closed" ELSE x_link[c]],
           x_fdt' = [fd \in Fds |-> Free],
           UNCHANGED <<x_peer, x_sent, x_taken, x_out, x_got>>
    PROVE  /\ XSockets'
           /\ \A f \in Fds : x_fdt'[f] = Free
           /\ \A c \in Clients : x_link'[c] # "open"
<1> USE DEF XSockets
<1>1. XTyped'
  BY DEF XTyped
<1>2. \A f \in Fds : x_fdt'[f] = Free
  OBVIOUS
<1>3. \A c \in Clients : /\ x_link'[c] # "open"
                         /\ x_link'[c] \in {"new", "backlog"} => x_link[c] = "new"
  BY DEF XTyped
<1>4. Connections'
  BY <1>2, <1>3, Descriptors DEF Connections
<1>5. InTime'
  BY <1>3 DEF InTime
<1> QED
  BY <1>1, <1>2, <1>3, <1>4, <1>5

(* recv() of n bytes of an open connection. *)
LEMMA TakeSockets ==
    ASSUME XSockets, NEW c \in Clients, x_link[c] = "open",
           NEW n \in Nat, n <= x_sent[c] - x_taken[c],
           x_taken' = [x_taken EXCEPT ![c] = @ + n],
           UNCHANGED <<x_link, x_peer, x_sent, x_out, x_got, x_fdt>>
    PROVE  /\ XSockets'
           /\ \A d \in Clients : x_taken'[d] = IF d = c THEN x_taken[c] + n ELSE x_taken[d]
<1> USE DEF XSockets
<1>1. x_taken[c] \in Nat /\ x_sent[c] \in Nat
  BY DEF XTyped
<1>2. \A d \in Clients : x_taken'[d] = IF d = c THEN x_taken[c] + n ELSE x_taken[d]
  BY DEF XTyped
<1>3. x_taken' \in [Clients -> Nat]
  BY <1>1 DEF XTyped
<1>4. XTyped'
  BY <1>3 DEF XTyped
<1>5. Connections'
  BY DEF Connections
<1>6. InTime'
  BY <1>1, <1>2 DEF InTime
<1> QED
  BY <1>2, <1>4, <1>5, <1>6

(* send() to an open connection. *)
LEMMA GiveSockets ==
    ASSUME XSockets, NEW c \in Clients, x_link[c] = "open", NEW bytes \in Seq(Bytes),
           x_out' = [x_out EXCEPT ![c] = @ \o bytes],
           UNCHANGED <<x_link, x_peer, x_sent, x_taken, x_got, x_fdt>>
    PROVE  /\ XSockets'
           /\ \A d \in Clients : x_out'[d] = IF d = c THEN x_out[c] \o bytes ELSE x_out[d]
           /\ Len(x_out'[c]) = Len(x_out[c]) + Len(bytes)
<1> USE DEF XSockets
<1>1. x_out[c] \o bytes \in Seq(Bytes) /\ x_out[c] \in Seq(Bytes)
  BY DEF XTyped
<1>2. \A d \in Clients : x_out'[d] = IF d = c THEN x_out[c] \o bytes ELSE x_out[d]
  BY DEF XTyped
<1>3. x_out' \in [Clients -> Seq(Bytes)]
  BY <1>1 DEF XTyped
<1>4. XTyped'
  BY <1>3 DEF XTyped
<1>5. Connections'
  BY DEF Connections
<1>6. InTime'
  BY <1>2 DEF InTime
<1>7. Len(x_out'[c]) = Len(x_out[c]) + Len(bytes)
  <2>1. x_out'[c] = x_out[c] \o bytes
    BY <1>2, Zenon
  <2>2. Len(x_out[c] \o bytes) = Len(x_out[c]) + Len(bytes)
    BY ONLY <1>1, Joining, bytes \in Seq(Bytes), Zenon
  <2> QED
    BY <2>1, <2>2
<1> QED
  BY <1>2, <1>4, <1>5, <1>6, <1>7

-----------------------------------------------------------------------------
(* The completion port server. *)

(* The listening socket keeps its descriptor while the process runs, and   *)
(* every other descriptor is a connection or unused.                       *)
OtherDescriptors(running) ==
    \A f \in Fds : /\ x_fdt[f] \notin Clients =>
                         x_fdt[f] = IF f = listenfd /\ running THEN listen_sock ELSE Free
                   /\ running /\ f = listenfd => x_fdt[f] \notin Clients

(* Who has the record of fd. *)
MainHas(fd) == main = "start" /\ newfd = fd
KernelHas(fd) == overlapped[fd] # "none"
PortHas(fd) == \E k \in DOMAIN hcp : hcp[k].fd = fd
WorkerHas(fd) == \E w \in Workers : held[w].fd = fd

SomeoneHas(fd) == MainHas(fd) \/ KernelHas(fd) \/ PortHas(fd) \/ WorkerHas(fd)

(* OneOwner, without counting: no two have it, and within the port and     *)
(* among the workers only one.                                             *)
OwnedOnce ==
    /\ main = "start" => newfd \in Fds
    /\ \A k, l \in DOMAIN hcp : hcp[k].fd = hcp[l].fd => k = l
    /\ \A w, v \in Workers : held[w].fd = held[v].fd /\ held[w].fd \in Fds => w = v
    /\ \A fd \in Fds :
          /\ MainHas(fd) => ~ KernelHas(fd) /\ ~ PortHas(fd) /\ ~ WorkerHas(fd)
          /\ KernelHas(fd) => ~ PortHas(fd) /\ ~ WorkerHas(fd)
          /\ PortHas(fd) => ~ WorkerHas(fd)
          /\ SomeoneHas(fd) => x_fdt[fd] \in Clients
          /\ x_fdt[fd] \in Clients => SomeoneHas(fd) \/ x_peer[x_fdt[fd]] = "rst"

(* What is in the buffer of a record from sendbytes on is what was taken   *)
(* from c and not yet given back.                                          *)
Owed(r, c) ==
    /\ r.sendbytes <= r.recvbytes /\ r.recvbytes <= Len(r.buf)
    /\ x_taken[c] = Len(x_out[c]) + r.recvbytes - r.sendbytes
    /\ \A m \in (r.sendbytes + 1) .. r.recvbytes :
          r.buf[m] = <<c, Len(x_out[c]) + m - r.sendbytes>>

EvenWith(c) == x_taken[c] = Len(x_out[c])

(* A completion that is still to be handled. *)
Pending(e) == (\E k \in DOMAIN hcp : hcp[k] = e) \/ (\E w \in Workers : held[w] = e)

(* A completion means what the worker will make of it: a failed one that   *)
(* the connection was reset, one of no bytes that the client has left and  *)
(* has got everything, and else the record fits once it is updated.        *)
Means(e) ==
    LET c == x_fdt[e.fd]
    IN  /\ ~ e.ok => x_peer[c] = "rst"
        /\ e.ok /\ e.n = 0 => EvenWith(c) /\ (Fins(c) \/ x_peer[c] = "rst")
        /\ e.ok /\ e.n > 0 => Owed(Port!Updated(p_info[e.fd], e.n), c)

(* The record of fd, by who has it. *)
Books(fd) ==
    /\ p_info[fd].recvbytes <= BUFSIZE
    /\ MainHas(fd) \/ overlapped[fd] = "WSARecv" =>
          p_info[fd].recvbytes = 0 /\ EvenWith(x_fdt[fd])
    /\ overlapped[fd] = "WSASend" =>
          p_info[fd].recvbytes > p_info[fd].sendbytes /\ Owed(p_info[fd], x_fdt[fd])
    /\ \A e \in Port!Completions : e.fd = fd /\ Pending(e) => Means(e)

PortBooks == \A fd \in Fds : Books(fd)

(* The types of what only this server has. *)
PortTyped ==
    /\ main \in {"accept", "start", "exit"}
    /\ newfd \in Fds \cup {0}
    /\ p_info \in [Fds -> Port!SOCKETINFO]
    /\ overlapped \in [Fds -> {"none", "WSARecv", "WSASend"}]
    /\ hcp \in Seq(Port!Completions)
    /\ held \in [Workers -> Port!Completions \cup {Port!NoCompletion}]

PortIInv == /\ XSockets /\ OtherDescriptors(main # "exit") /\ PortTyped
            /\ OwnedOnce /\ PortBooks

LEMMA CompletionFacts ==
    /\ \A e \in Port!Completions : e.fd \in Fds /\ e.ok \in BOOLEAN /\ e.n \in 0 .. BUFSIZE
    /\ \A fd \in Fds, ok \in BOOLEAN, n \in 0 .. BUFSIZE :
          Port!Completion(fd, ok, n) \in Port!Completions
    /\ \A fd, ok, n : /\ Port!Completion(fd, ok, n).fd = fd
                      /\ Port!Completion(fd, ok, n).ok = ok
                      /\ Port!Completion(fd, ok, n).n = n
    /\ Port!NoCompletion.fd = 0 /\ Port!NoCompletion \notin Port!Completions
    /\ BUFSIZE \in Nat /\ BUFSIZE > 0
<1>1. \A fd, ok, n : /\ Port!Completion(fd, ok, n).fd = fd
                     /\ Port!Completion(fd, ok, n).ok = ok
                     /\ Port!Completion(fd, ok, n).n = n
  BY DEF Port!Completion
<1>2. /\ \A e \in Port!Completions : e.fd \in Fds /\ e.ok \in BOOLEAN /\ e.n \in 0 .. BUFSIZE
  BY <1>1, SameTypes DEF Port!Completions
<1>3. \A fd \in Fds, ok \in BOOLEAN, n \in 0 .. BUFSIZE :
          Port!Completion(fd, ok, n) \in Port!Completions
  BY SameTypes DEF Port!Completions
<1>4. Port!NoCompletion.fd = 0
  BY <1>1, Zenon DEF Port!NoCompletion
<1>5. Port!NoCompletion \notin Port!Completions
  BY <1>2, <1>4, Descriptors
<1>6. BUFSIZE \in Nat /\ BUFSIZE > 0
  BY SocketsAssumption
<1> QED
  BY <1>1, <1>2, <1>3, <1>4, <1>5, <1>6

(* A completion is put at the end of the port. *)
LEMMA PostMoves ==
    ASSUME hcp \in Seq(Port!Completions), NEW e \in Port!Completions, hcp' = Append(hcp, e)
    PROVE  /\ hcp' \in Seq(Port!Completions)
           /\ \A f : PortHas(f)' <=> PortHas(f) \/ f = e.fd
           /\ \A d : (\E k \in DOMAIN hcp' : hcp'[k] = d)
                        <=> d = e \/ \E k \in DOMAIN hcp : hcp[k] = d
           /\ (\A k, l \in DOMAIN hcp : hcp[k].fd = hcp[l].fd => k = l) /\ ~ PortHas(e.fd)
                 => \A k, l \in DOMAIN hcp' : hcp'[k].fd = hcp'[l].fd => k = l
<1>1. /\ hcp' \in Seq(Port!Completions) /\ Len(hcp) \in Nat
      /\ DOMAIN hcp = 1 .. Len(hcp) /\ DOMAIN hcp' = 1 .. (Len(hcp) + 1)
      /\ hcp'[Len(hcp) + 1] = e /\ \A k \in 1 .. Len(hcp) : hcp'[k] = hcp[k]
  OBVIOUS
<1>2. \A d : (\E k \in DOMAIN hcp' : hcp'[k] = d)
                        <=> d = e \/ \E k \in DOMAIN hcp : hcp[k] = d
  BY <1>1
<1>3. \A f : PortHas(f)' <=> PortHas(f) \/ f = e.fd
  BY <1>1 DEF PortHas
<1>4. ASSUME \A k, l \in DOMAIN hcp : hcp[k].fd = hcp[l].fd => k = l, ~ PortHas(e.fd),
             NEW k \in DOMAIN hcp', NEW l \in DOMAIN hcp', hcp'[k].fd = hcp'[l].fd
      PROVE  k = l
  <2>1. \A m \in 1 .. Len(hcp) : hcp[m].fd # e.fd
    BY <1>1, <1>4 DEF PortHas
  <2> QED
    BY <1>1, <1>4, <2>1
<1> QED
  BY <1>1, <1>2, <1>3, <1>4

(* A worker fetches the first one. *)
LEMMA FetchMoves ==
    ASSUME hcp \in Seq(Port!Completions), hcp # <<>>, hcp' = Tail(hcp),
           \A k, l \in DOMAIN hcp : hcp[k].fd = hcp[l].fd => k = l
    PROVE  /\ hcp' \in Seq(Port!Completions) /\ Head(hcp) \in Port!Completions
           /\ \A f : PortHas(f)' <=> PortHas(f) /\ f # Head(hcp).fd
           /\ PortHas(Head(hcp).fd)
           /\ \A d : (\E k \in DOMAIN hcp' : hcp'[k] = d) => \E k \in DOMAIN hcp : hcp[k] = d
           /\ \E k \in DOMAIN hcp : hcp[k] = Head(hcp)
           /\ \A k, l \in DOMAIN hcp' : hcp'[k].fd = hcp'[l].fd => k = l
<1>1. /\ hcp' \in Seq(Port!Completions) /\ Len(hcp) \in Nat /\ Len(hcp) > 0
      /\ Head(hcp) = hcp[1] /\ hcp[1] \in Port!Completions
      /\ DOMAIN hcp = 1 .. Len(hcp) /\ DOMAIN hcp' = 1 .. (Len(hcp) - 1)
      /\ \A k \in 1 .. (Len(hcp) - 1) : hcp'[k] = hcp[k + 1]
  OBVIOUS
<1>2. \A k \in DOMAIN hcp' : k + 1 \in DOMAIN hcp /\ hcp'[k] = hcp[k + 1] /\ k + 1 # 1
  BY <1>1
<1>3. \A k \in DOMAIN hcp : k # 1 => k - 1 \in DOMAIN hcp' /\ hcp'[k - 1] = hcp[k]
  <2> SUFFICES ASSUME NEW k \in DOMAIN hcp, k # 1
               PROVE  k - 1 \in DOMAIN hcp' /\ hcp'[k - 1] = hcp[k]
    OBVIOUS
  <2>1. k \in Nat /\ k - 1 \in 1 .. (Len(hcp) - 1) /\ (k - 1) + 1 = k
    BY <1>1
  <2>2. hcp'[k - 1] = hcp[(k - 1) + 1]
    BY <1>1, <2>1
  <2> QED
    BY <1>1, <2>1, <2>2
<1>4. 1 \in DOMAIN hcp
  BY <1>1
<1>5. ASSUME NEW f PROVE PortHas(f)' <=> PortHas(f) /\ f # Head(hcp).fd
  <2>1. ASSUME PortHas(f)' PROVE PortHas(f) /\ f # Head(hcp).fd
    <3>1. PICK k \in DOMAIN hcp' : hcp'[k].fd = f
      BY <2>1 DEF PortHas
    <3>2. k + 1 \in DOMAIN hcp /\ hcp[k + 1].fd = f /\ k + 1 # 1
      BY <1>2, <3>1
    <3> QED
      BY <1>1, <1>4, <3>2 DEF PortHas
  <2>2. ASSUME PortHas(f), f # Head(hcp).fd PROVE PortHas(f)'
    <3>1. PICK k \in DOMAIN hcp : hcp[k].fd = f
      BY <2>2 DEF PortHas
    <3>2. k # 1
      BY <1>1, <2>2, <3>1
    <3> QED
      BY <1>3, <3>1, <3>2, Zenon DEF PortHas
  <2> QED
    BY <2>1, <2>2
<1>6. PortHas(Head(hcp).fd) /\ \E k \in DOMAIN hcp : hcp[k] = Head(hcp)
  BY <1>1, <1>4 DEF PortHas
<1>7. \A d : (\E k \in DOMAIN hcp' : hcp'[k] = d) => \E k \in DOMAIN hcp : hcp[k] = d
  BY <1>2
<1>8. ASSUME NEW k \in DOMAIN hcp', NEW l \in DOMAIN hcp', hcp'[k].fd = hcp'[l].fd PROVE k = l
  <2>1. k + 1 = l + 1
    BY <1>2, <1>8
  <2> QED
    BY <1>1, <2>1
<1> QED
  BY <1>1, <1>5, <1>6, <1>7, <1>8

(* A worker takes a completion over, or is done with it. *)
LEMMA HeldMoves ==
    ASSUME PortTyped, NEW w \in Workers, NEW e \in Port!Completions \cup {Port!NoCompletion},
           held' = [held EXCEPT ![w] = e],
           \A v, u \in Workers : held[v].fd = held[u].fd /\ held[v].fd \in Fds => v = u
    PROVE  /\ held' \in [Workers -> Port!Completions \cup {Port!NoCompletion}]
           /\ held[w] = Port!NoCompletion => \A f \in Fds : WorkerHas(f)' <=> WorkerHas(f) \/ f = e.fd
           /\ e = Port!NoCompletion => \A f \in Fds : WorkerHas(f)' <=> WorkerHas(f) /\ f # held[w].fd
           /\ \A d \in Port!Completions : (\E v \in Workers : held'[v] = d) =>
                 d = e \/ \E v \in Workers : held[v] = d
           /\ ~ WorkerHas(e.fd) \/ e = Port!NoCompletion =>
                 \A v, u \in Workers : held'[v].fd = held'[u].fd /\ held'[v].fd \in Fds => v = u
<1>1. /\ held' \in [Workers -> Port!Completions \cup {Port!NoCompletion}]
      /\ \A v \in Workers : held'[v] = IF v = w THEN e ELSE held[v]
  BY DEF PortTyped
<1>2. Port!NoCompletion.fd \notin Fds
  BY CompletionFacts, Descriptors
<1>3. held[w] = Port!NoCompletion => \A f \in Fds : WorkerHas(f)' <=> WorkerHas(f) \/ f = e.fd
  BY <1>1, <1>2 DEF WorkerHas
<1>4. e = Port!NoCompletion => \A f \in Fds : WorkerHas(f)' <=> WorkerHas(f) /\ f # held[w].fd
  BY <1>1, <1>2 DEF WorkerHas
<1>5. \A d \in Port!Completions : (\E v \in Workers : held'[v] = d) =>
                 d = e \/ \E v \in Workers : held[v] = d
  BY <1>1
<1>6. ~ WorkerHas(e.fd) \/ e = Port!NoCompletion =>
                 \A v, u \in Workers : held'[v].fd = held'[u].fd /\ held'[v].fd \in Fds => v = u
  BY <1>1, <1>2 DEF WorkerHas
<1> QED
  BY <1>1, <1>3, <1>4, <1>5, <1>6

LEMMA PendingHas ==
    ASSUME NEW e \in Port!Completions, Pending(e)
    PROVE  PortHas(e.fd) \/ WorkerHas(e.fd)
  BY DEF Pending, PortHas, WorkerHas

(* The books of a record nothing happens to. *)
LEMMA BooksKept ==
    ASSUME NEW fd \in Fds, Books(fd), p_info'[fd] = p_info[fd],
           MainHas(fd)' => MainHas(fd), overlapped'[fd] \in {overlapped[fd], "none"},
           \A e \in Port!Completions : e.fd = fd /\ Pending(e)' => Pending(e),
           SomeoneHas(fd)' =>
              /\ x_fdt[fd] \in Clients /\ x_fdt'[fd] = x_fdt[fd]
              /\ \A c \in Clients : c = x_fdt[fd] =>
                    /\ x_taken'[c] = x_taken[c] /\ x_out'[c] = x_out[c]
                    /\ x_peer[c] = "rst" => x_peer'[c] = "rst"
                    /\ Fins(c) => Fins(c)' \/ x_peer'[c] = "rst"
    PROVE  Books(fd)'
<1>1. CASE ~ SomeoneHas(fd)'
  <2>1. ~ MainHas(fd)' /\ overlapped'[fd] = "none"
    BY <1>1 DEF SomeoneHas, KernelHas
  <2>2. ASSUME NEW e \in Port!Completions, e.fd = fd PROVE ~ Pending(e)'
    <3>1. Pending(e)' => PortHas(fd)' \/ WorkerHas(fd)'
      BY <2>2 DEF Pending, PortHas, WorkerHas
    <3> QED
      BY <1>1, <3>1 DEF SomeoneHas
  <2> QED
    BY <2>1, <2>2 DEF Books
<1>2. CASE SomeoneHas(fd)'
  <2>1. PICK c \in Clients :
          /\ c = x_fdt[fd] /\ x_fdt'[fd] = c /\ x_taken'[c] = x_taken[c] /\ x_out'[c] = x_out[c]
          /\ x_peer[c] = "rst" => x_peer'[c] = "rst"
          /\ Fins(c) => Fins(c)' \/ x_peer'[c] = "rst"
    BY <1>2
  <2>2. /\ EvenWith(c)' <=> EvenWith(c)
        /\ \A r : Owed(r, c)' <=> Owed(r, c)
    BY <2>1 DEF EvenWith, Owed
  <2>3. MainHas(fd)' \/ overlapped'[fd] = "WSARecv" =>
          p_info'[fd].recvbytes = 0 /\ EvenWith(x_fdt[fd])'
    <3>1. EvenWith(x_fdt[fd])' <=> EvenWith(c)
      BY <2>1 DEF EvenWith
    <3> QED
      BY <2>1, <3>1 DEF Books
  <2>4. overlapped'[fd] = "WSASend" =>
          p_info'[fd].recvbytes > p_info'[fd].sendbytes /\ Owed(p_info[fd], x_fdt[fd])'
    <3>1. Owed(p_info[fd], x_fdt[fd])' <=> Owed(p_info[fd], c)
      BY <2>1 DEF Owed
    <3> QED
      BY <2>1, <3>1 DEF Books
  <2>5. ASSUME NEW e \in Port!Completions, e.fd = fd, Pending(e)' PROVE Means(e)'
    <3>1. Means(e)
      BY <2>5 DEF Books
    <3>2. Port!Updated(p_info[e.fd], e.n)' = Port!Updated(p_info[e.fd], e.n)
      BY <2>5, Zenon DEF Port!Updated
    <3>3. Owed(Port!Updated(p_info[e.fd], e.n), x_fdt[e.fd])' <=>
          Owed(Port!Updated(p_info[e.fd], e.n), x_fdt[e.fd])
      BY <2>1, <2>5, <3>2 DEF Owed
    <3>4. EvenWith(x_fdt[e.fd])' <=> EvenWith(x_fdt[e.fd])
      BY <2>1, <2>5 DEF EvenWith
    <3>5. Fins(x_fdt[e.fd]) \/ x_peer[x_fdt[e.fd]] = "rst" =>
          Fins(x_fdt[e.fd])' \/ x_peer'[x_fdt'[e.fd]] = "rst"
      BY <2>1, <2>5 DEF Fins
    <3>6. x_peer[x_fdt[e.fd]] = "rst" => x_peer'[x_fdt'[e.fd]] = "rst"
      BY <2>1, <2>5
    <3> QED
      BY <3>1, <3>3, <3>4, <3>5, <3>6 DEF Means
  <2> QED
    BY <2>3, <2>4, <2>5 DEF Books
<1> QED
  BY <1>1, <1>2

(* What else a step has to show, once it is known who has which record.    *)
LEMMA PortStep ==
    ASSUME PortIInv, XSockets', OtherDescriptors(main # "exit")', PortTyped',
           main' = "start" => newfd' \in Fds,
           \A k, l \in DOMAIN hcp' : hcp'[k].fd = hcp'[l].fd => k = l,
           \A w, v \in Workers : held'[w].fd = held'[v].fd /\ held'[w].fd \in Fds => w = v,
           NEW fd \in Fds,
           (* only the record fd changes, or changes hands *)
           \A f \in Fds \ {fd} :
              /\ MainHas(f)' <=> MainHas(f)
              /\ overlapped'[f] = overlapped[f]
              /\ PortHas(f)' <=> PortHas(f)
              /\ WorkerHas(f)' <=> WorkerHas(f)
              /\ x_fdt'[f] = x_fdt[f] /\ p_info'[f] = p_info[f],
           \A e \in Port!Completions : e.fd # fd /\ Pending(e)' => Pending(e),
           \A c \in Clients : c # x_fdt'[fd] /\ c # x_fdt[fd] =>
              x_taken'[c] = x_taken[c] /\ x_out'[c] = x_out[c],
           UNCHANGED <<x_peer, x_sent>>,
           (* nobody has fd, or one has *)
           \/ /\ ~ SomeoneHas(fd)'
              /\ x_fdt'[fd] \in Clients => x_peer'[x_fdt'[fd]] = "rst"
           \/ /\ x_fdt'[fd] \in Clients
              /\ \/ MainHas(fd)' /\ ~ KernelHas(fd)' /\ ~ PortHas(fd)' /\ ~ WorkerHas(fd)'
                 \/ KernelHas(fd)' /\ ~ MainHas(fd)' /\ ~ PortHas(fd)' /\ ~ WorkerHas(fd)'
                 \/ PortHas(fd)' /\ ~ MainHas(fd)' /\ ~ KernelHas(fd)' /\ ~ WorkerHas(fd)'
                 \/ WorkerHas(fd)' /\ ~ MainHas(fd)' /\ ~ KernelHas(fd)' /\ ~ PortHas(fd)',
           Books(fd)'
    PROVE  PortIInv'
<1>1. \A f \in Fds \ {fd} :
        /\ SomeoneHas(f)' <=> SomeoneHas(f)
        /\ KernelHas(f)' <=> KernelHas(f)
  BY DEF SomeoneHas, KernelHas
<1>2. \A f \in Fds \ {fd} : x_fdt[f] \in Clients => x_fdt[f] # x_fdt[fd] /\ x_fdt'[f] # x_fdt'[fd]
  <2>1. \A f \in Fds \ {fd} : x_fdt[f] \in Clients => x_fdt[f] # x_fdt[fd]
    BY DEF PortIInv, XSockets, Connections
  <2>2. \A f \in Fds \ {fd} : x_fdt'[f] \in Clients => x_fdt'[f] # x_fdt'[fd]
    BY DEF XSockets, Connections
  <2> QED
    BY <2>1, <2>2
<1>3. OwnedOnce'
  <2>1. ASSUME NEW f \in Fds, f # fd
        PROVE  /\ MainHas(f)' => ~ KernelHas(f)' /\ ~ PortHas(f)' /\ ~ WorkerHas(f)'
               /\ KernelHas(f)' => ~ PortHas(f)' /\ ~ WorkerHas(f)'
               /\ PortHas(f)' => ~ WorkerHas(f)'
               /\ SomeoneHas(f)' => x_fdt'[f] \in Clients
               /\ x_fdt'[f] \in Clients => SomeoneHas(f)' \/ x_peer'[x_fdt'[f]] = "rst"
    BY <1>1, <2>1 DEF PortIInv, OwnedOnce
  <2>2. /\ MainHas(fd)' => ~ KernelHas(fd)' /\ ~ PortHas(fd)' /\ ~ WorkerHas(fd)'
        /\ KernelHas(fd)' => ~ PortHas(fd)' /\ ~ WorkerHas(fd)'
        /\ PortHas(fd)' => ~ WorkerHas(fd)'
        /\ SomeoneHas(fd)' => x_fdt'[fd] \in Clients
        /\ x_fdt'[fd] \in Clients => SomeoneHas(fd)' \/ x_peer'[x_fdt'[fd]] = "rst"
    BY DEF SomeoneHas
  <2>3. \A f \in Fds :
               /\ MainHas(f)' => ~ KernelHas(f)' /\ ~ PortHas(f)' /\ ~ WorkerHas(f)'
               /\ KernelHas(f)' => ~ PortHas(f)' /\ ~ WorkerHas(f)'
               /\ PortHas(f)' => ~ WorkerHas(f)'
               /\ SomeoneHas(f)' => x_fdt'[f] \in Clients
               /\ x_fdt'[f] \in Clients => SomeoneHas(f)' \/ x_peer'[x_fdt'[f]] = "rst"
    BY <2>1, <2>2
  <2> QED
    BY <2>3 DEF OwnedOnce
<1>4. ASSUME NEW f \in Fds PROVE Books(f)'
  <2>1. CASE f = fd
    BY <2>1
  <2>2. CASE f # fd
    <3>1. Books(f) /\ (SomeoneHas(f) => x_fdt[f] \in Clients)
      BY DEF PortIInv, PortBooks, OwnedOnce
    <3>2. ASSUME SomeoneHas(f)'
          PROVE  /\ x_fdt[f] \in Clients /\ x_fdt'[f] = x_fdt[f]
                 /\ \A c \in Clients : c = x_fdt[f] =>
                       /\ x_taken'[c] = x_taken[c] /\ x_out'[c] = x_out[c]
                       /\ x_peer[c] = "rst" => x_peer'[c] = "rst"
                       /\ Fins(c) => Fins(c)' \/ x_peer'[c] = "rst"
      <4>1. x_fdt[f] \in Clients /\ x_fdt'[f] = x_fdt[f]
        BY <1>1, <2>2, <3>1, <3>2
      <4>2. ASSUME NEW c \in Clients, c = x_fdt[f]
            PROVE  /\ x_taken'[c] = x_taken[c] /\ x_out'[c] = x_out[c]
                   /\ x_peer'[c] = x_peer[c] /\ (Fins(c) => Fins(c)')
        <5>1. c # x_fdt'[fd] /\ c # x_fdt[fd]
          BY <1>2, <2>2, <4>1, <4>2
        <5> QED
          BY <5>1 DEF Fins
      <4> QED
        BY <4>1, <4>2
    <3>3. /\ p_info'[f] = p_info[f] /\ (MainHas(f)' => MainHas(f))
          /\ overlapped'[f] \in {overlapped[f], "none"}
          /\ \A e \in Port!Completions : e.fd = f /\ Pending(e)' => Pending(e)
      BY <2>2
    <3> QED
      BY <3>1, <3>2, <3>3, BooksKept
  <2> QED
    BY <2>1, <2>2
<1> QED
  BY <1>3, <1>4 DEF PortIInv, PortBooks

LEMMA NewPortInfo ==
    /\ Port!NewSocketInfo \in Port!SOCKETINFO
    /\ Port!NewSocketInfo.recvbytes = 0 /\ Port!NewSocketInfo.sendbytes = 0
  BY DEF Port!NewSocketInfo, Port!SOCKETINFO

(* Nobody has a record that is not in use. *)
LEMMA UnusedRecord ==
    ASSUME PortIInv, NEW fd \in Fds, x_fdt[fd] \notin Clients
    PROVE  /\ ~ MainHas(fd) /\ ~ KernelHas(fd) /\ ~ PortHas(fd) /\ ~ WorkerHas(fd)
           /\ overlapped[fd] = "none"
           /\ \A e \in Port!Completions : e.fd = fd => ~ Pending(e)
<1>1. ~ MainHas(fd) /\ ~ KernelHas(fd) /\ ~ PortHas(fd) /\ ~ WorkerHas(fd)
  BY DEF PortIInv, OwnedOnce, SomeoneHas
<1> QED
  BY <1>1, PendingHas DEF KernelHas

LEMMA PortAcceptStep == ASSUME PortIInv, Port!AcceptCall PROVE PortIInv'
<1>1. PICK c \in Clients, fd \in Fds :
         /\ Port!Accept(listen_sock, c, fd) /\ newfd' = fd
         /\ p_info' = [p_info EXCEPT ![fd] = Port!NewSocketInfo]
  BY SameTypes, Zenon DEF Port!AcceptCall
<1>2. /\ x_link[c] = "backlog" /\ x_fdt[fd] = Free
      /\ x_link' = [x_link EXCEPT ![c] = "open"] /\ x_fdt' = [x_fdt EXCEPT ![fd] = c]
      /\ UNCHANGED <<x_peer, x_sent, x_taken, x_out, x_got>>
  BY <1>1 DEF Port!Accept, Port!Backlog, Port!LowestFree
<1>3. XSockets
  BY DEF PortIInv
<1>4. /\ XSockets' /\ x_taken[c] = 0 /\ x_out[c] = <<>>
      /\ \A f \in Fds : x_fdt'[f] = IF f = fd THEN c ELSE x_fdt[f]
  BY <1>2, <1>3, AcceptSockets, ZenonT(60)
<1>5. /\ main = "accept" /\ main' = "start" /\ overlapped' = overlapped
      /\ hcp' = hcp /\ held' = held
  BY DEF Port!AcceptCall
<1>6. fd # listenfd
  BY <1>2, <1>5, Descriptors DEF PortIInv, OtherDescriptors
<1>7. OtherDescriptors(main # "exit")'
  BY <1>4, <1>5, <1>6, Descriptors DEF PortIInv, OtherDescriptors
<1>8. /\ PortTyped' /\ p_info'[fd] = Port!NewSocketInfo
      /\ \A f \in Fds \ {fd} : p_info'[f] = p_info[f]
  BY <1>1, <1>5, NewPortInfo DEF PortIInv, PortTyped
<1>9. /\ ~ MainHas(fd) /\ ~ KernelHas(fd) /\ ~ PortHas(fd) /\ ~ WorkerHas(fd)
      /\ overlapped[fd] = "none" /\ \A e \in Port!Completions : e.fd = fd => ~ Pending(e)
  <2>1. x_fdt[fd] \notin Clients
    BY <1>2, Descriptors
  <2> QED
    BY <2>1, UnusedRecord
<1>10. /\ \A f \in Fds : MainHas(f)' <=> f = fd
       /\ \A f \in Fds : ~ MainHas(f)
       /\ \A f : (PortHas(f)' <=> PortHas(f)) /\ (WorkerHas(f)' <=> WorkerHas(f))
       /\ \A f : KernelHas(f)' <=> KernelHas(f)
       /\ \A e : Pending(e)' <=> Pending(e)
  BY <1>1, <1>5 DEF MainHas, PortHas, WorkerHas, KernelHas, Pending
<1>11. Books(fd)'
  <2>1. EvenWith(x_fdt[fd])'
    <3>1. x_fdt'[fd] = c /\ x_taken'[c] = 0 /\ x_out'[c] = <<>>
      BY <1>2, <1>4
    <3> QED
      BY <3>1 DEF EvenWith
  <2>2. p_info'[fd].recvbytes = 0 /\ 0 <= BUFSIZE /\ overlapped'[fd] = "none"
    BY <1>5, <1>8, <1>9, NewPortInfo, CompletionFacts
  <2> QED
    BY <1>9, <1>10, <2>1, <2>2 DEF Books
<1> QED
  <2>1. \A f \in Fds \ {fd} :
              /\ MainHas(f)' <=> MainHas(f)
              /\ overlapped'[f] = overlapped[f]
              /\ PortHas(f)' <=> PortHas(f)
              /\ WorkerHas(f)' <=> WorkerHas(f)
              /\ x_fdt'[f] = x_fdt[f] /\ p_info'[f] = p_info[f]
    BY <1>4, <1>5, <1>8, <1>10
  <2>2. /\ x_fdt'[fd] \in Clients /\ MainHas(fd)' /\ ~ KernelHas(fd)' /\ ~ PortHas(fd)'
        /\ ~ WorkerHas(fd)'
    BY <1>4, <1>9, <1>10
  <2>3. /\ main' = "start" => newfd' \in Fds
        /\ \A k, l \in DOMAIN hcp' : hcp'[k].fd = hcp'[l].fd => k = l
        /\ \A w, v \in Workers : held'[w].fd = held'[v].fd /\ held'[w].fd \in Fds => w = v
    BY <1>1, <1>5 DEF PortIInv, OwnedOnce
  <2>4. \A e \in Port!Completions : e.fd # fd /\ Pending(e)' => Pending(e)
    BY <1>10
  <2> QED
    BY <1>2, <1>4, <1>7, <1>8, <1>11, <2>1, <2>2, <2>3, <2>4, PortStep

(* WSARecv() or WSASend() is started, or fails on a reset connection. *)
LEMMA IssueIs ==
    ASSUME PortTyped, NEW fd \in Fds, NEW what \in {"WSARecv", "WSASend"}, Port!Issue(fd, what)
    PROVE  /\ overlapped' \in [Fds -> {"none", "WSARecv", "WSASend"}]
           /\ \A f \in Fds \ {fd} : overlapped'[f] = overlapped[f]
           /\ overlapped'[fd] = what \/ (overlapped'[fd] = overlapped[fd] /\ x_peer[x_fdt[fd]] = "rst")
<1>1. \/ overlapped' = [overlapped EXCEPT ![fd] = what]
      \/ overlapped' = overlapped /\ x_peer[x_fdt[fd]] = "rst"
  BY DEF Port!Issue
<1> QED
  BY <1>1 DEF PortTyped

LEMMA PortStartStep == ASSUME PortIInv, Port!StartConnection PROVE PortIInv'
<1>1. /\ main = "start" /\ main' = "accept" /\ newfd' = 0
      /\ UNCHANGED <<x_link, x_peer, x_sent, x_taken, x_out, x_got, x_fdt, p_info, hcp, held>>
      /\ Port!Issue(newfd, "WSARecv")
  BY DEF Port!StartConnection, Port!sockets
<1>2. PICK fd \in Fds : fd = newfd
  BY <1>1 DEF PortIInv, OwnedOnce
<1>3. /\ overlapped' \in [Fds -> {"none", "WSARecv", "WSASend"}]
      /\ \A f \in Fds \ {fd} : overlapped'[f] = overlapped[f]
      /\ overlapped'[fd] = "WSARecv" \/ (overlapped'[fd] = overlapped[fd] /\ x_peer[x_fdt[fd]] = "rst")
  BY <1>1, <1>2, IssueIs DEF PortIInv
<1>4. MainHas(fd) /\ ~ KernelHas(fd) /\ ~ PortHas(fd) /\ ~ WorkerHas(fd) /\ x_fdt[fd] \in Clients
  BY <1>1, <1>2 DEF PortIInv, OwnedOnce, MainHas, SomeoneHas
<1>5. /\ \A f \in Fds : ~ MainHas(f)'
      /\ \A f \in Fds \ {fd} : ~ MainHas(f)
      /\ \A f : (PortHas(f)' <=> PortHas(f)) /\ (WorkerHas(f)' <=> WorkerHas(f))
      /\ \A e : Pending(e)' <=> Pending(e)
  BY <1>1, <1>2 DEF MainHas, PortHas, WorkerHas, Pending
<1>6. \A e \in Port!Completions : e.fd = fd => ~ Pending(e)
  BY <1>4, PendingHas
<1>7. XSockets' /\ OtherDescriptors(main # "exit")' /\ PortTyped'
  <2>1. XSockets'
    BY <1>1 DEF PortIInv, XSockets, XTyped, Connections, InTime
  <2>2. OtherDescriptors(main # "exit")'
    BY <1>1 DEF PortIInv, OtherDescriptors
  <2>3. PortTyped'
    BY <1>1, <1>3 DEF PortIInv, PortTyped
  <2> QED
    BY <2>1, <2>2, <2>3
<1>8. overlapped[fd] = "none" /\ (overlapped'[fd] = "none" <=> ~ KernelHas(fd)')
  BY <1>4 DEF KernelHas
<1>9. Books(fd)'
  <2>1. p_info[fd].recvbytes <= BUFSIZE /\ p_info[fd].recvbytes = 0 /\ EvenWith(x_fdt[fd])
    BY <1>4 DEF PortIInv, PortBooks, Books
  <2>2. EvenWith(x_fdt[fd])'
    BY <1>1, <2>1 DEF EvenWith
  <2>3. overlapped'[fd] # "WSASend"
    BY <1>3, <1>8
  <2> QED
    BY <1>1, <1>5, <1>6, <2>1, <2>2, <2>3 DEF Books
<1> QED
  <2>1. \A f \in Fds \ {fd} :
              /\ MainHas(f)' <=> MainHas(f)
              /\ overlapped'[f] = overlapped[f]
              /\ PortHas(f)' <=> PortHas(f)
              /\ WorkerHas(f)' <=> WorkerHas(f)
              /\ x_fdt'[f] = x_fdt[f] /\ p_info'[f] = p_info[f]
    BY <1>1, <1>3, <1>5
  <2>2. ~ MainHas(fd)' /\ ~ PortHas(fd)' /\ ~ WorkerHas(fd)' /\ x_fdt'[fd] \in Clients
    BY <1>1, <1>4, <1>5
  <2>3. /\ main' = "start" => newfd' \in Fds
        /\ \A k, l \in DOMAIN hcp' : hcp'[k].fd = hcp'[l].fd => k = l
        /\ \A w, v \in Workers : held'[w].fd = held'[v].fd /\ held'[w].fd \in Fds => w = v
    BY <1>1 DEF PortIInv, OwnedOnce
  <2>4. \A e \in Port!Completions : e.fd # fd /\ Pending(e)' => Pending(e)
    BY <1>5
  <2>5. \/ KernelHas(fd)'
        \/ ~ SomeoneHas(fd)' /\ x_peer'[x_fdt'[fd]] = "rst"
    <3>1. KernelHas(fd)' \/ x_peer'[x_fdt'[fd]] = "rst"
      BY <1>1, <1>3, <1>8 DEF KernelHas
    <3> QED
      BY <2>2, <3>1 DEF SomeoneHas
  <2> QED
    BY <1>1, <1>7, <1>9, <2>1, <2>2, <2>3, <2>4, <2>5, PortStep

(* The kernel is done with the operation of fd. *)
LEMMA PostStep ==
    ASSUME PortIInv, NEW fd \in Fds, KernelHas(fd),
           NEW ok \in BOOLEAN, NEW n \in 0 .. BUFSIZE, Port!Post(fd, ok, n),
           XSockets', UNCHANGED <<x_peer, x_sent, x_fdt>>,
           \A c \in Clients : c # x_fdt[fd] => x_taken'[c] = x_taken[c] /\ x_out'[c] = x_out[c],
           p_info' \in [Fds -> Port!SOCKETINFO], p_info'[fd].recvbytes <= BUFSIZE,
           \A f \in Fds \ {fd} : p_info'[f] = p_info[f],
           Means(Port!Completion(fd, ok, n))'
    PROVE  PortIInv'
<1>1. PICK e \in Port!Completions : e = Port!Completion(fd, ok, n) /\ e.fd = fd
  BY CompletionFacts
<1>2. /\ hcp' = Append(hcp, e) /\ overlapped' = [overlapped EXCEPT ![fd] = "none"]
      /\ UNCHANGED <<main, newfd, held>>
  BY <1>1 DEF Port!Post
<1>3. /\ ~ MainHas(fd) /\ ~ PortHas(fd) /\ ~ WorkerHas(fd) /\ x_fdt[fd] \in Clients
  BY DEF PortIInv, OwnedOnce, SomeoneHas
<1>4. hcp \in Seq(Port!Completions)
  BY DEF PortIInv, PortTyped
<1>5. /\ hcp' \in Seq(Port!Completions)
      /\ \A f : PortHas(f)' <=> PortHas(f) \/ f = fd
      /\ \A d : (\E k \in DOMAIN hcp' : hcp'[k] = d)
                   <=> d = e \/ \E k \in DOMAIN hcp : hcp[k] = d
      /\ (\A k, l \in DOMAIN hcp : hcp[k].fd = hcp[l].fd => k = l) /\ ~ PortHas(fd)
            => \A k, l \in DOMAIN hcp' : hcp'[k].fd = hcp'[l].fd => k = l
  BY <1>1, <1>2, <1>4, PostMoves, ZenonT(60)
<1>6. \A f : (MainHas(f)' <=> MainHas(f)) /\ (WorkerHas(f)' <=> WorkerHas(f))
  BY <1>2 DEF MainHas, WorkerHas
<1>7. /\ overlapped' \in [Fds -> {"none", "WSARecv", "WSASend"}] /\ overlapped'[fd] = "none"
      /\ \A f \in Fds \ {fd} : overlapped'[f] = overlapped[f]
  BY <1>2 DEF PortIInv, PortTyped
<1>8. \A d \in Port!Completions : Pending(d)' => Pending(d) \/ d = e
  BY <1>2, <1>5 DEF Pending
<1>9. PortTyped' /\ OtherDescriptors(main # "exit")'
  <2>1. PortTyped'
    BY <1>2, <1>5, <1>7 DEF PortIInv, PortTyped
  <2> QED
    BY <1>2, <2>1 DEF PortIInv, OtherDescriptors
<1>10. Books(fd)'
  <2>1. \A d \in Port!Completions : d.fd = fd => ~ Pending(d)
    BY <1>3, PendingHas
  <2>2. ASSUME NEW d \in Port!Completions, d.fd = fd, Pending(d)' PROVE Means(d)'
    <3>1. d = Port!Completion(fd, ok, n)
      BY <1>1, <1>8, <2>1, <2>2
    <3> QED
      BY <3>1
  <2> QED
    BY <1>3, <1>6, <1>7, <2>2 DEF Books
<1> QED
  <2>1. \A f \in Fds \ {fd} :
              /\ MainHas(f)' <=> MainHas(f)
              /\ overlapped'[f] = overlapped[f]
              /\ PortHas(f)' <=> PortHas(f)
              /\ WorkerHas(f)' <=> WorkerHas(f)
              /\ x_fdt'[f] = x_fdt[f] /\ p_info'[f] = p_info[f]
    BY <1>5, <1>6, <1>7
  <2>2. /\ x_fdt'[fd] \in Clients /\ ~ MainHas(fd)' /\ ~ KernelHas(fd)' /\ PortHas(fd)'
        /\ ~ WorkerHas(fd)'
    BY <1>3, <1>5, <1>6, <1>7 DEF KernelHas
  <2>3. /\ main' = "start" => newfd' \in Fds
        /\ \A k, l \in DOMAIN hcp' : hcp'[k].fd = hcp'[l].fd => k = l
        /\ \A w, v \in Workers : held'[w].fd = held'[v].fd /\ held'[w].fd \in Fds => w = v
    BY <1>2, <1>3, <1>5 DEF PortIInv, OwnedOnce
  <2>4. \A d \in Port!Completions : d.fd # fd /\ Pending(d)' => Pending(d)
    BY <1>1, <1>8
  <2> QED
    BY <1>9, <1>10, <2>1, <2>2, <2>3, <2>4, PortStep

LEMMA UpdatedFacts ==
    ASSUME NEW ptr \in Port!SOCKETINFO, NEW n \in Nat
    PROVE  /\ Port!Updated(ptr, n) \in Port!SOCKETINFO
           /\ Port!Updated(ptr, n).buf = ptr.buf
           /\ ptr.recvbytes = 0 => /\ Port!Updated(ptr, n).recvbytes = n
                                   /\ Port!Updated(ptr, n).sendbytes = 0
           /\ ptr.recvbytes # 0 => /\ Port!Updated(ptr, n).recvbytes = ptr.recvbytes
                                   /\ Port!Updated(ptr, n).sendbytes = ptr.sendbytes + n
<1>1. /\ ptr.buf \in Seq(Port!Bytes) /\ ptr.recvbytes \in Nat /\ ptr.sendbytes \in Nat
      /\ ptr = [buf |-> ptr.buf, recvbytes |-> ptr.recvbytes, sendbytes |-> ptr.sendbytes]
  BY DEF Port!SOCKETINFO
<1>2. ptr.recvbytes = 0 =>
        Port!Updated(ptr, n) = [buf |-> ptr.buf, recvbytes |-> n, sendbytes |-> 0]
  BY <1>1, Zenon DEF Port!Updated
<1>3. ptr.recvbytes # 0 =>
        Port!Updated(ptr, n) =
           [buf |-> ptr.buf, recvbytes |-> ptr.recvbytes, sendbytes |-> ptr.sendbytes + n]
  BY <1>1 DEF Port!Updated
<1>4. CASE ptr.recvbytes = 0
  BY <1>1, <1>2, <1>4 DEF Port!SOCKETINFO
<1>5. CASE ptr.recvbytes # 0
  BY <1>1, <1>3, <1>5 DEF Port!SOCKETINFO
<1> QED
  BY <1>4, <1>5

(* What the invariant says of a record that is in use. *)
LEMMA PortRecord ==
    ASSUME PortIInv, NEW fd \in Fds
    PROVE  /\ p_info[fd] \in Port!SOCKETINFO /\ p_info[fd].buf \in Seq(Bytes)
           /\ p_info[fd].recvbytes \in Nat /\ p_info[fd].sendbytes \in Nat
           /\ p_info[fd].recvbytes <= BUFSIZE
           /\ SomeoneHas(fd) =>
                 /\ x_fdt[fd] \in Clients /\ x_link[x_fdt[fd]] = "open"
                 /\ x_taken[x_fdt[fd]] \in Nat /\ x_sent[x_fdt[fd]] \in Nat
                 /\ x_out[x_fdt[fd]] \in Seq(Bytes) /\ Len(x_out[x_fdt[fd]]) \in Nat
<1>1. p_info[fd] \in Port!SOCKETINFO
  BY DEF PortIInv, PortTyped
<1>2. /\ p_info[fd].buf \in Seq(Bytes) /\ p_info[fd].recvbytes \in Nat
      /\ p_info[fd].sendbytes \in Nat
  BY <1>1, SameTypes DEF Port!SOCKETINFO
<1>3. SomeoneHas(fd) => x_fdt[fd] \in Clients /\ x_link[x_fdt[fd]] = "open"
  BY DEF PortIInv, OwnedOnce, XSockets, Connections
<1>4. \A c \in Clients : /\ x_taken[c] \in Nat /\ x_sent[c] \in Nat
                         /\ x_out[c] \in Seq(Bytes) /\ Len(x_out[c]) \in Nat
  BY DEF PortIInv, XSockets, XTyped
<1> QED
  BY <1>1, <1>2, <1>3, <1>4 DEF PortIInv, PortBooks, Books

LEMMA PortRecvStep ==
    ASSUME PortIInv, NEW fd \in Fds, Port!RecvCompletes(fd) PROVE PortIInv'
<1>1. KernelHas(fd) /\ SomeoneHas(fd) /\ overlapped[fd] = "WSARecv"
  BY DEF Port!RecvCompletes, KernelHas, SomeoneHas
<1>2. PICK c \in Clients : c = x_fdt[fd]
  BY <1>1, PortRecord
<1>3. /\ x_link[c] = "open" /\ x_taken[c] \in Nat /\ x_sent[c] \in Nat
      /\ x_out[c] \in Seq(Bytes) /\ Len(x_out[c]) \in Nat
      /\ p_info[fd] \in Port!SOCKETINFO /\ p_info[fd].recvbytes = 0
      /\ x_taken[c] = Len(x_out[c])
  BY <1>1, <1>2, PortRecord DEF PortIInv, PortBooks, Books, EvenWith
<1>4. XSockets /\ PortTyped
  BY DEF PortIInv
<1>5. ASSUME NEW ok \in BOOLEAN, Port!Post(fd, ok, 0), UNCHANGED <<Port!sockets, p_info>>,
             (Port!RecvEof(c) /\ ok) \/ (Port!RecvError(c) /\ ~ ok)
      PROVE  PortIInv'
  <2>1. /\ UNCHANGED <<x_link, x_peer, x_sent, x_taken, x_out, x_got, x_fdt>> /\ p_info' = p_info
    BY <1>5 DEF Port!sockets
  <2>2. XSockets'
    BY <1>4, <2>1 DEF XSockets, XTyped, Connections, InTime
  <2>3. Means(Port!Completion(fd, ok, 0))'
    <3>1. /\ Port!Completion(fd, ok, 0).fd = fd /\ Port!Completion(fd, ok, 0).ok = ok
          /\ Port!Completion(fd, ok, 0).n = 0
      BY CompletionFacts
    <3>2. ~ ok => x_peer'[x_fdt'[fd]] = "rst"
      BY <1>2, <1>5, <2>1 DEF Port!RecvError
    <3>3. ok => EvenWith(x_fdt[fd])' /\ Fins(x_fdt[fd])'
      <4>1. ASSUME ok PROVE x_peer[c] = "fin" /\ x_taken[c] = x_sent[c]
        BY <1>3, <1>5, <4>1 DEF Port!RecvEof, Port!Unread
      <4> QED
        BY <1>2, <1>3, <2>1, <4>1 DEF EvenWith, Fins
    <3> QED
      BY <3>1, <3>2, <3>3 DEF Means
  <2>4. 0 \in 0 .. BUFSIZE /\ p_info'[fd].recvbytes <= BUFSIZE
    BY <1>3, <2>1, CompletionFacts
  <2> QED
    BY <1>1, <1>4, <1>5, <2>1, <2>2, <2>3, <2>4, PostStep DEF PortTyped
<1>6. ASSUME NEW n \in 1 .. BUFSIZE, Port!RecvReturns(c, n), Port!Take(c, n),
             p_info' = [p_info EXCEPT ![fd].buf = Port!Chunk(c, x_taken[c], n)],
             Port!Post(fd, TRUE, n)
      PROVE  PortIInv'
  <2>1. /\ n \in Nat /\ n \in 0 .. BUFSIZE /\ n <= x_sent[c] - x_taken[c]
        /\ x_taken' = [x_taken EXCEPT ![c] = @ + n]
        /\ UNCHANGED <<x_link, x_peer, x_sent, x_out, x_got, x_fdt>>
    BY <1>6, CompletionFacts DEF Port!RecvReturns, Port!Unread, Port!Take
  <2>2. /\ XSockets'
        /\ \A d \in Clients : x_taken'[d] = IF d = c THEN x_taken[c] + n ELSE x_taken[d]
    BY <1>3, <1>4, <2>1, TakeSockets, Zenon
  <2>3. PICK b \in Seq(Bytes) : /\ b = Port!Chunk(c, x_taken[c], n) /\ Len(b) = n
                                /\ \A j \in 1 .. n : b[j] = <<c, x_taken[c] + j>>
    <3>1. Port!Chunk(c, x_taken[c], n) = Chunk(c, x_taken[c], n)
      BY DEF Port!Chunk, Chunk
    <3>2. /\ Chunk(c, x_taken[c], n) \in Seq(Bytes) /\ Len(Chunk(c, x_taken[c], n)) = n
          /\ \A j \in 1 .. n : Chunk(c, x_taken[c], n)[j] = <<c, x_taken[c] + j>>
      <4>1. x_taken[c] \in Nat /\ n \in Nat
        BY <1>3, <2>1
      <4> QED
        BY <4>1, ChunkType, Zenon
    <3> QED
      BY <3>1, <3>2
  <2>4. p_info' = [p_info EXCEPT ![fd] = [p_info[fd] EXCEPT !.buf = b]]
    BY <1>6, <2>3
  <2>5. [p_info[fd] EXCEPT !.buf = b] \in Port!SOCKETINFO
    BY <1>3, <2>3, SameTypes, Zenon DEF Port!SOCKETINFO
  <2>6. /\ p_info' \in [Fds -> Port!SOCKETINFO] /\ \A f \in Fds \ {fd} : p_info'[f] = p_info[f]
        /\ p_info'[fd] = [p_info[fd] EXCEPT !.buf = b]
    BY <1>4, <2>4, <2>5 DEF PortTyped
  <2>7. /\ p_info'[fd] \in Port!SOCKETINFO
        /\ p_info'[fd].recvbytes = 0 /\ p_info'[fd].buf = b /\ 0 <= BUFSIZE
    <3>1. [p_info[fd] EXCEPT !.buf = b].recvbytes = 0 /\ [p_info[fd] EXCEPT !.buf = b].buf = b
      BY <1>3 DEF Port!SOCKETINFO
    <3> QED
      BY <2>5, <2>6, <3>1, CompletionFacts
  <2>8. Means(Port!Completion(fd, TRUE, n))'
    <3>1. /\ Port!Completion(fd, TRUE, n).fd = fd
          /\ Port!Completion(fd, TRUE, n).n = n /\ n # 0
      BY DEF Port!Completion
    <3>2. PICK r : r = Port!Updated(p_info'[fd], n)
      OBVIOUS
    <3>3. r.recvbytes = n /\ r.sendbytes = 0 /\ r.buf = b
      BY <2>1, <2>7, <3>2, UpdatedFacts, Zenon
    <3>4. Owed(r, c)'
      <4>1. /\ x_taken'[c] = Len(x_out'[c]) + n - 0 /\ 0 <= n
            /\ \A m \in (0 + 1) .. n : b[m] = <<c, Len(x_out'[c]) + m - 0>>
        <5>1. x_taken'[c] = x_taken[c] + n /\ x_out'[c] = x_out[c]
          BY <2>1, <2>2
        <5>2. \A m \in 1 .. n : b[m] = <<c, x_taken[c] + m>> /\ x_taken[c] + m = Len(x_out[c]) + m - 0
          BY <1>3, <2>3
        <5> QED
          BY <1>3, <2>1, <5>1, <5>2
      <4> QED
        BY <2>3, <3>3, <4>1 DEF Owed
    <3>5. Owed(Port!Updated(p_info[fd], n), x_fdt[fd])'
      <4>1. Port!Updated(p_info[fd], n)' = r
        BY <3>2 DEF Port!Updated
      <4>2. x_fdt'[fd] = c
        BY <1>2, <2>1
      <4> QED
        BY <3>4, <4>1, <4>2 DEF Owed
    <3>6. PICK e : e = Port!Completion(fd, TRUE, n)
      BY Zenon
    <3>7. e.fd = fd /\ e.ok /\ e.n = n /\ e.n # 0
      <4>1. e.fd = fd /\ e.n = n /\ e.n # 0
        BY <3>1, <3>6, Zenon
      <4>2. e.ok
        BY <3>6, Zenon DEF Port!Completion
      <4> QED
        BY <4>1, <4>2
    <3>8. Owed(Port!Updated(p_info[e.fd], e.n), x_fdt[e.fd])'
      BY <3>5, <3>7
    <3>9. Means(e)'
      BY <3>7, <3>8 DEF Means
    <3> QED
      BY <3>6, <3>9, Zenon
  <2>9. \A d \in Clients : d # x_fdt[fd] => x_taken'[d] = x_taken[d] /\ x_out'[d] = x_out[d]
    BY <1>2, <2>1, <2>2
  <2> QED
    BY <1>1, <1>6, <2>1, <2>2, <2>6, <2>7, <2>8, <2>9, PostStep, Zenon
<1> QED
  <2>1. \/ \E n \in 1 .. BUFSIZE :
              /\ Port!RecvReturns(c, n) /\ Port!Take(c, n)
              /\ p_info' = [p_info EXCEPT ![fd].buf = Port!Chunk(c, x_taken[c], n)]
              /\ Port!Post(fd, TRUE, n)
        \/ Port!RecvEof(c) /\ Port!Post(fd, TRUE, 0) /\ UNCHANGED <<Port!sockets, p_info>>
        \/ Port!RecvError(c) /\ Port!Post(fd, FALSE, 0) /\ UNCHANGED <<Port!sockets, p_info>>
    BY <1>2, Zenon DEF Port!RecvCompletes
  <2> QED
    BY <1>5, <1>6, <2>1, Zenon

LEMMA PortSendStep ==
    ASSUME PortIInv, NEW fd \in Fds, Port!SendCompletes(fd) PROVE PortIInv'
<1> DEFINE ptr == p_info[fd]
<1>1. KernelHas(fd) /\ SomeoneHas(fd) /\ overlapped[fd] = "WSASend"
  BY DEF Port!SendCompletes, KernelHas, SomeoneHas
<1>2. PICK c \in Clients : c = x_fdt[fd]
  BY <1>1, PortRecord
<1>3. /\ x_link[c] = "open" /\ x_taken[c] \in Nat /\ x_sent[c] \in Nat
      /\ x_out[c] \in Seq(Bytes) /\ Len(x_out[c]) \in Nat
      /\ ptr \in Port!SOCKETINFO /\ ptr.buf \in Seq(Bytes)
      /\ ptr.recvbytes \in Nat /\ ptr.sendbytes \in Nat
      /\ ptr.recvbytes <= BUFSIZE /\ ptr.recvbytes > ptr.sendbytes /\ Owed(ptr, c)
  BY <1>1, <1>2, PortRecord DEF PortIInv, PortBooks, Books
<1>4. XSockets /\ PortTyped /\ p_info' = p_info
  BY DEF PortIInv, Port!SendCompletes
<1>5. ASSUME Port!SendError(c), Port!Post(fd, FALSE, 0), UNCHANGED Port!sockets
      PROVE  PortIInv'
  <2>1. UNCHANGED <<x_link, x_peer, x_sent, x_taken, x_out, x_got, x_fdt>>
    BY <1>5 DEF Port!sockets
  <2>2. XSockets'
    BY <1>4, <2>1 DEF XSockets, XTyped, Connections, InTime
  <2>3. Means(Port!Completion(fd, FALSE, 0))'
    <3>1. /\ Port!Completion(fd, FALSE, 0).fd = fd
          /\ Port!Completion(fd, FALSE, 0).n = 0
      BY DEF Port!Completion
    <3>2. ~ Port!Completion(fd, FALSE, 0).ok
      BY Zenon DEF Port!Completion
    <3>3. x_peer'[x_fdt'[fd]] = "rst"
      BY <1>2, <1>5, <2>1 DEF Port!SendError
    <3> QED
      BY <3>1, <3>2, <3>3, Zenon DEF Means
  <2>4. FALSE \in BOOLEAN /\ 0 \in 0 .. BUFSIZE /\ p_info'[fd].recvbytes <= BUFSIZE
    BY <1>3, <1>4, CompletionFacts
  <2> QED
    BY <1>1, <1>4, <1>5, <2>1, <2>2, <2>3, <2>4, PostStep, Zenon DEF PortTyped
<1>6. ASSUME NEW n \in 1 .. (ptr.recvbytes - ptr.sendbytes),
             Port!Give(c, SubSeq(ptr.buf, ptr.sendbytes + 1, ptr.sendbytes + n)),
             Port!Post(fd, TRUE, n)
      PROVE  PortIInv'
  <2>1. n \in Nat /\ n # 0 /\ n <= ptr.recvbytes - ptr.sendbytes /\ n \in 0 .. BUFSIZE
    BY <1>3, CompletionFacts
  <2>2. PICK b \in Seq(Bytes) :
          b = SubSeq(ptr.buf, ptr.sendbytes + 1, ptr.sendbytes + n) /\ Len(b) = n
    <3>1. ptr.sendbytes + n <= Len(ptr.buf)
      BY <1>3, <2>1, SMTT(60) DEF Owed
    <3>2. ptr.buf \in Seq(Bytes) /\ ptr.sendbytes \in Nat /\ n \in Nat
      BY <1>3, <2>1
    <3>3. /\ SubSeq(ptr.buf, ptr.sendbytes + 1, ptr.sendbytes + n) \in Seq(Bytes)
          /\ Len(SubSeq(ptr.buf, ptr.sendbytes + 1, ptr.sendbytes + n)) = n
      BY ONLY <3>1, <3>2, Slice, ZenonT(60)
    <3> QED
      BY <3>3, Zenon
  <2>3. /\ x_out' = [x_out EXCEPT ![c] = @ \o b]
        /\ UNCHANGED <<x_link, x_peer, x_sent, x_taken, x_got, x_fdt>>
    BY <1>6, <2>2 DEF Port!Give
  <2>4. /\ XSockets'
        /\ \A d \in Clients : x_out'[d] = IF d = c THEN x_out[c] \o b ELSE x_out[d]
        /\ Len(x_out'[c]) = Len(x_out[c]) + n
    BY <1>3, <1>4, <2>2, <2>3, GiveSockets, Zenon
  <2>5. Means(Port!Completion(fd, TRUE, n))'
    <3>1. PICK r : r = Port!Updated(ptr, n)
      OBVIOUS
    <3>2. r.recvbytes = ptr.recvbytes /\ r.sendbytes = ptr.sendbytes + n /\ r.buf = ptr.buf
      <4>1. ptr \in Port!SOCKETINFO /\ n \in Nat /\ ptr.recvbytes # 0
        BY <1>3, <2>1
      <4> QED
        BY ONLY <3>1, <4>1, UpdatedFacts, Zenon
    <3>3. Owed(r, c)'
      <4> HIDE DEF ptr
      <4>1. /\ ptr.sendbytes <= ptr.recvbytes /\ ptr.recvbytes <= Len(ptr.buf)
            /\ x_taken[c] = Len(x_out[c]) + ptr.recvbytes - ptr.sendbytes
            /\ \A m \in (ptr.sendbytes + 1) .. ptr.recvbytes :
                  ptr.buf[m] = <<c, Len(x_out[c]) + m - ptr.sendbytes>>
        BY <1>3, Zenon DEF Owed
      <4>2. /\ ptr.sendbytes + n <= ptr.recvbytes
            /\ x_taken'[c] = Len(x_out'[c]) + ptr.recvbytes - (ptr.sendbytes + n)
        BY <1>3, <2>1, <2>3, <2>4, <4>1
      <4>3. ASSUME NEW m \in (ptr.sendbytes + n + 1) .. ptr.recvbytes
            PROVE  ptr.buf[m] = <<c, Len(x_out'[c]) + m - (ptr.sendbytes + n)>>
        <5>1. m \in (ptr.sendbytes + 1) .. ptr.recvbytes
          BY <1>3, <2>1
        <5>2. Len(x_out[c]) + m - ptr.sendbytes = Len(x_out'[c]) + m - (ptr.sendbytes + n)
          BY <1>3, <2>1, <2>4, <5>1
        <5> QED
          BY <4>1, <5>1, <5>2
      <4> QED
        BY <3>2, <4>1, <4>2, <4>3 DEF Owed
    <3>4. Owed(Port!Updated(p_info[fd], n), x_fdt[fd])'
      <4>1. Port!Updated(p_info[fd], n)' = r
        BY <1>4, <3>1 DEF Port!Updated
      <4>2. x_fdt'[fd] = c
        BY <1>2, <2>3
      <4> QED
        BY <3>3, <4>1, <4>2 DEF Owed
    <3>5. PICK e : e = Port!Completion(fd, TRUE, n)
      BY Zenon
    <3>6. e.fd = fd /\ e.n = n /\ e.n # 0
      BY <2>1, <3>5 DEF Port!Completion
    <3>7. e.ok
      BY <3>5, Zenon DEF Port!Completion
    <3>8. Owed(Port!Updated(p_info[e.fd], e.n), x_fdt[e.fd])'
      BY <3>4, <3>6
    <3>9. Means(e)'
      BY <3>6, <3>7, <3>8 DEF Means
    <3> QED
      BY <3>5, <3>9, Zenon
  <2>6. /\ \A d \in Clients : d # x_fdt[fd] => x_taken'[d] = x_taken[d] /\ x_out'[d] = x_out[d]
        /\ p_info' \in [Fds -> Port!SOCKETINFO] /\ p_info'[fd].recvbytes <= BUFSIZE
        /\ \A f \in Fds \ {fd} : p_info'[f] = p_info[f]
    BY <1>2, <1>3, <1>4, <2>3, <2>4 DEF PortTyped
  <2> QED
    BY <1>1, <1>6, <2>1, <2>3, <2>4, <2>5, <2>6, PostStep, Zenon
<1> QED
  <2>1. \/ \E n \in 1 .. (ptr.recvbytes - ptr.sendbytes) :
              /\ Port!Give(c, SubSeq(ptr.buf, ptr.sendbytes + 1, ptr.sendbytes + n))
              /\ Port!Post(fd, TRUE, n)
        \/ Port!SendError(c) /\ Port!Post(fd, FALSE, 0) /\ UNCHANGED Port!sockets
    BY <1>2, Zenon DEF Port!SendCompletes
  <2> QED
    BY <1>5, <1>6, <2>1, Zenon

LEMMA PortFetchStep ==
    ASSUME PortIInv, NEW w \in Workers, Port!GetQueuedCompletionStatus(w) PROVE PortIInv'
<1>1. /\ held[w] = Port!NoCompletion /\ hcp # <<>> /\ hcp' = Tail(hcp)
      /\ held' = [held EXCEPT ![w] = Head(hcp)]
      /\ UNCHANGED <<x_link, x_peer, x_sent, x_taken, x_out, x_got, x_fdt>>
      /\ UNCHANGED <<main, newfd, p_info, overlapped>>
  BY DEF Port!GetQueuedCompletionStatus, Port!sockets
<1>2. /\ hcp \in Seq(Port!Completions) /\ PortTyped
      /\ \A k, l \in DOMAIN hcp : hcp[k].fd = hcp[l].fd => k = l
      /\ \A v, u \in Workers : held[v].fd = held[u].fd /\ held[v].fd \in Fds => v = u
  BY DEF PortIInv, PortTyped, OwnedOnce
<1>3. PICK e \in Port!Completions : e = Head(hcp)
  BY <1>1, <1>2, FetchMoves
<1>4. PICK fd \in Fds : fd = e.fd
  BY CompletionFacts
<1>5. /\ hcp' \in Seq(Port!Completions)
      /\ \A f : PortHas(f)' <=> PortHas(f) /\ f # fd
      /\ PortHas(fd)
      /\ \A d : (\E k \in DOMAIN hcp' : hcp'[k] = d) => \E k \in DOMAIN hcp : hcp[k] = d
      /\ \E k \in DOMAIN hcp : hcp[k] = e
      /\ \A k, l \in DOMAIN hcp' : hcp'[k].fd = hcp'[l].fd => k = l
  BY <1>1, <1>2, <1>3, <1>4, FetchMoves
<1>6. /\ ~ MainHas(fd) /\ ~ KernelHas(fd) /\ ~ WorkerHas(fd) /\ x_fdt[fd] \in Clients
  BY <1>5 DEF PortIInv, OwnedOnce, SomeoneHas
<1>7. /\ held' \in [Workers -> Port!Completions \cup {Port!NoCompletion}]
      /\ \A f \in Fds : WorkerHas(f)' <=> WorkerHas(f) \/ f = fd
      /\ \A d \in Port!Completions : (\E v \in Workers : held'[v] = d) =>
                 d = e \/ \E v \in Workers : held[v] = d
      /\ \A v, u \in Workers : held'[v].fd = held'[u].fd /\ held'[v].fd \in Fds => v = u
  <2>1. held' = [held EXCEPT ![w] = e] /\ ~ WorkerHas(e.fd)
    BY <1>1, <1>3, <1>4, <1>6
  <2> QED
    BY <1>1, <1>2, <1>4, <2>1, HeldMoves, Zenon
<1>8. \A d \in Port!Completions : Pending(d)' => Pending(d)
  BY <1>5, <1>7 DEF Pending
<1>9. \A f : (MainHas(f)' <=> MainHas(f)) /\ (KernelHas(f)' <=> KernelHas(f))
  BY <1>1 DEF MainHas, KernelHas
<1>10. XSockets' /\ OtherDescriptors(main # "exit")' /\ PortTyped'
  <2>1. XSockets'
    BY <1>1 DEF PortIInv, XSockets, XTyped, Connections, InTime
  <2>2. OtherDescriptors(main # "exit")'
    BY <1>1 DEF PortIInv, OtherDescriptors
  <2>3. PortTyped'
    BY <1>1, <1>5, <1>7 DEF PortIInv, PortTyped
  <2> QED
    BY <2>1, <2>2, <2>3
<1>11. Books(fd)'
  <2>1. Books(fd)
    BY DEF PortIInv, PortBooks
  <2>2. /\ x_fdt'[fd] = x_fdt[fd] /\ p_info'[fd] = p_info[fd] /\ overlapped'[fd] = overlapped[fd]
        /\ \A c \in Clients : /\ x_taken'[c] = x_taken[c] /\ x_out'[c] = x_out[c]
                              /\ x_peer[c] = "rst" => x_peer'[c] = "rst"
                              /\ Fins(c) => Fins(c)'
    BY <1>1 DEF Fins
  <2> QED
    BY <1>6, <1>8, <1>9, <2>1, <2>2, BooksKept
<1> QED
  <2>1. \A f \in Fds \ {fd} :
              /\ MainHas(f)' <=> MainHas(f)
              /\ overlapped'[f] = overlapped[f]
              /\ PortHas(f)' <=> PortHas(f)
              /\ WorkerHas(f)' <=> WorkerHas(f)
              /\ x_fdt'[f] = x_fdt[f] /\ p_info'[f] = p_info[f]
    BY <1>1, <1>5, <1>7, <1>9
  <2>2. /\ x_fdt'[fd] \in Clients /\ ~ MainHas(fd)' /\ ~ KernelHas(fd)' /\ ~ PortHas(fd)'
        /\ WorkerHas(fd)'
    BY <1>1, <1>5, <1>6, <1>7, <1>9
  <2>3. main' = "start" => newfd' \in Fds
    BY <1>1 DEF PortIInv, OwnedOnce
  <2> QED
    BY <1>1, <1>5, <1>7, <1>8, <1>10, <1>11, <2>1, <2>2, <2>3, PortStep

(* What the invariant says of a completion that a worker has. *)
LEMMA WorkerFacts ==
    ASSUME PortIInv, NEW w \in Workers, held[w] # Port!NoCompletion
    PROVE  /\ held[w] \in Port!Completions /\ held[w].fd \in Fds
           /\ WorkerHas(held[w].fd) /\ ~ MainHas(held[w].fd) /\ ~ KernelHas(held[w].fd)
           /\ ~ PortHas(held[w].fd) /\ SomeoneHas(held[w].fd) /\ x_fdt[held[w].fd] \in Clients
           /\ Means(held[w]) /\ (main # "exit" => held[w].fd # listenfd)
<1>1. PICK e \in Port!Completions : e = held[w]
  BY DEF PortIInv, PortTyped
<1>2. PICK fd \in Fds : fd = e.fd
  BY CompletionFacts
<1>3. WorkerHas(fd)
  BY <1>1, <1>2 DEF WorkerHas
<1>4. ~ MainHas(fd) /\ ~ KernelHas(fd) /\ ~ PortHas(fd) /\ SomeoneHas(fd) /\ x_fdt[fd] \in Clients
  BY <1>3 DEF PortIInv, OwnedOnce, SomeoneHas
<1>5. Pending(e)
  BY <1>1 DEF Pending
<1>6. Means(e)
  BY <1>2, <1>5 DEF PortIInv, PortBooks, Books
<1>7. main # "exit" => fd # listenfd
  BY <1>4 DEF PortIInv, OtherDescriptors
<1> QED
  BY <1>1, <1>2, <1>3, <1>4, <1>6, <1>7

LEMMA PortCloseStep ==
    ASSUME PortIInv, NEW w \in Workers, Port!CloseConnection(w) PROVE PortIInv'
<1>1. held[w] # Port!NoCompletion
  BY DEF Port!CloseConnection
<1>2. PICK fd \in Fds : fd = held[w].fd
  BY <1>1, WorkerFacts
<1>3. /\ WorkerHas(fd) /\ ~ MainHas(fd) /\ ~ KernelHas(fd) /\ ~ PortHas(fd)
      /\ x_fdt[fd] \in Clients /\ (main # "exit" => fd # listenfd)
  BY <1>1, <1>2, WorkerFacts
<1>4. /\ x_link' = [x_link EXCEPT ![x_fdt[fd]] = "closed"]
      /\ x_fdt' = [x_fdt EXCEPT ![fd] = Free]
      /\ UNCHANGED <<x_peer, x_sent, x_taken, x_out, x_got>>
      /\ p_info' = [p_info EXCEPT ![fd] = Port!NewSocketInfo]
      /\ held' = [held EXCEPT ![w] = Port!NoCompletion]
      /\ UNCHANGED <<main, newfd, hcp, overlapped>>
  BY <1>2 DEF Port!CloseConnection, Port!Close, Port!Done
<1>5. XSockets /\ PortTyped
  BY DEF PortIInv
<1>6. /\ XSockets' /\ \A f \in Fds : x_fdt'[f] = IF f = fd THEN Free ELSE x_fdt[f]
  BY <1>3, <1>4, <1>5, CloseSockets, Zenon
<1>7. OtherDescriptors(main # "exit")'
  BY <1>3, <1>4, <1>6, Descriptors DEF PortIInv, OtherDescriptors
<1>8. \A v, u \in Workers : held[v].fd = held[u].fd /\ held[v].fd \in Fds => v = u
  BY DEF PortIInv, OwnedOnce
<1>9. /\ held' \in [Workers -> Port!Completions \cup {Port!NoCompletion}]
      /\ \A f \in Fds : WorkerHas(f)' <=> WorkerHas(f) /\ f # fd
      /\ \A d \in Port!Completions : (\E v \in Workers : held'[v] = d) =>
            \E v \in Workers : held[v] = d
      /\ \A v, u \in Workers : held'[v].fd = held'[u].fd /\ held'[v].fd \in Fds => v = u
  BY <1>2, <1>4, <1>5, <1>8, HeldMoves, CompletionFacts, ZenonT(60)
<1>10. /\ p_info' \in [Fds -> Port!SOCKETINFO] /\ p_info'[fd] = Port!NewSocketInfo
       /\ \A f \in Fds \ {fd} : p_info'[f] = p_info[f]
  BY <1>4, <1>5, NewPortInfo DEF PortTyped
<1>11. PortTyped'
  BY <1>4, <1>5, <1>9, <1>10 DEF PortTyped
<1>12. \A f : (MainHas(f)' <=> MainHas(f)) /\ (KernelHas(f)' <=> KernelHas(f))
              /\ (PortHas(f)' <=> PortHas(f))
  BY <1>4 DEF MainHas, KernelHas, PortHas
<1>13. \A d \in Port!Completions : Pending(d)' => Pending(d)
  BY <1>4, <1>9 DEF Pending
<1>14. ~ SomeoneHas(fd)' /\ x_fdt'[fd] = Free
  BY <1>3, <1>6, <1>9, <1>12 DEF SomeoneHas
<1>15. Books(fd)'
  <2>1. ~ MainHas(fd)' /\ overlapped'[fd] = "none"
    BY <1>14 DEF SomeoneHas, KernelHas
  <2>2. ASSUME NEW e \in Port!Completions, e.fd = fd PROVE ~ Pending(e)'
    <3>1. Pending(e)' => PortHas(fd)' \/ WorkerHas(fd)'
      BY <2>2 DEF Pending, PortHas, WorkerHas
    <3> QED
      BY <1>14, <3>1 DEF SomeoneHas
  <2>3. p_info'[fd].recvbytes <= BUFSIZE
    BY <1>10, NewPortInfo, CompletionFacts
  <2> QED
    BY <2>1, <2>2, <2>3 DEF Books
<1> QED
  <2>1. \A f \in Fds \ {fd} :
              /\ MainHas(f)' <=> MainHas(f)
              /\ overlapped'[f] = overlapped[f]
              /\ PortHas(f)' <=> PortHas(f)
              /\ WorkerHas(f)' <=> WorkerHas(f)
              /\ x_fdt'[f] = x_fdt[f] /\ p_info'[f] = p_info[f]
    BY <1>4, <1>6, <1>9, <1>10, <1>12
  <2>2. /\ main' = "start" => newfd' \in Fds
        /\ \A k, l \in DOMAIN hcp' : hcp'[k].fd = hcp'[l].fd => k = l
    BY <1>4 DEF PortIInv, OwnedOnce
  <2>3. x_fdt'[fd] \in Clients => x_peer'[x_fdt'[fd]] = "rst"
    BY <1>14, Descriptors
  <2> QED
    BY <1>4, <1>6, <1>7, <1>9, <1>11, <1>13, <1>14, <1>15, <2>1, <2>2, <2>3, PortStep

LEMMA PortContinueStep ==
    ASSUME PortIInv, NEW w \in Workers, Port!Continue(w) PROVE PortIInv'
<1>1. PICK e : e = held[w]
  OBVIOUS
<1>2. e # Port!NoCompletion
  <2>1. e.n > 0
    BY <1>1 DEF Port!Continue
  <2>2. Port!NoCompletion.n = 0
    BY DEF Port!NoCompletion, Port!Completion
  <2> QED
    BY <2>1, <2>2
<1>3. PICK fd \in Fds : fd = e.fd
  BY <1>1, <1>2, WorkerFacts
<1>4. /\ WorkerHas(fd) /\ ~ MainHas(fd) /\ ~ KernelHas(fd) /\ ~ PortHas(fd)
      /\ SomeoneHas(fd) /\ x_fdt[fd] \in Clients /\ overlapped[fd] = "none"
      /\ e \in Port!Completions /\ Means(e)
  BY <1>1, <1>2, <1>3, WorkerFacts DEF KernelHas
<1>5. PICK c \in Clients : c = x_fdt[fd]
  BY <1>4
<1>6. PICK n \in Nat : n = e.n /\ n > 0 /\ n <= BUFSIZE
  BY <1>1, <1>4, CompletionFacts DEF Port!Continue
<1>7. PICK r \in Port!SOCKETINFO : r = Port!Updated(p_info[fd], n)
  BY PortRecord, UpdatedFacts
<1>8. /\ r.buf \in Seq(Bytes) /\ r.recvbytes \in Nat /\ r.sendbytes \in Nat
      /\ r.recvbytes <= BUFSIZE
  <2>1. /\ p_info[fd] \in Port!SOCKETINFO /\ p_info[fd].recvbytes \in Nat
        /\ p_info[fd].recvbytes <= BUFSIZE
    BY PortRecord
  <2>2. r.recvbytes = n \/ r.recvbytes = p_info[fd].recvbytes
    BY <1>7, <2>1, UpdatedFacts, Zenon
  <2> QED
    BY <1>6, <1>7, <2>1, <2>2, SameTypes DEF Port!SOCKETINFO
<1>9. Owed(r, c)
  <2>1. e.ok
    BY <1>1, Zenon DEF Port!Continue
  <2>2. Owed(Port!Updated(p_info[e.fd], e.n), x_fdt[e.fd])
    BY <1>4, <1>6, <2>1 DEF Means
  <2> QED
    BY <1>3, <1>5, <1>6, <1>7, <2>2
<1>10. /\ UNCHANGED <<x_link, x_peer, x_sent, x_taken, x_out, x_got, x_fdt>>
       /\ held' = [held EXCEPT ![w] = Port!NoCompletion]
       /\ UNCHANGED <<main, newfd, hcp>>
  BY DEF Port!Continue, Port!Done, Port!sockets
<1>11. \/ /\ r.recvbytes > r.sendbytes
          /\ p_info' = [p_info EXCEPT ![fd] = r] /\ Port!Issue(fd, "WSASend")
       \/ /\ ~ (r.recvbytes > r.sendbytes)
          /\ p_info' = [p_info EXCEPT ![fd] = [r EXCEPT !.recvbytes = 0]]
          /\ Port!Issue(fd, "WSARecv")
  BY <1>1, <1>3, <1>6, <1>7 DEF Port!Continue
<1>12. XSockets /\ PortTyped
  BY DEF PortIInv
<1>13. PICK what \in {"WSARecv", "WSASend"}, s \in Port!SOCKETINFO :
         /\ p_info' = [p_info EXCEPT ![fd] = s] /\ Port!Issue(fd, what)
         /\ s.recvbytes <= BUFSIZE
         /\ what = "WSASend" => s = r /\ r.recvbytes > r.sendbytes
         /\ what = "WSARecv" => s.recvbytes = 0 /\ ~ (r.recvbytes > r.sendbytes)
  <2>1. CASE r.recvbytes > r.sendbytes
    BY <1>8, <1>11, <2>1
  <2>2. CASE ~ (r.recvbytes > r.sendbytes)
    <3>1. [r EXCEPT !.recvbytes = 0] \in Port!SOCKETINFO /\ [r EXCEPT !.recvbytes = 0].recvbytes = 0
      BY DEF Port!SOCKETINFO
    <3>2. PICK s \in Port!SOCKETINFO : s = [r EXCEPT !.recvbytes = 0] /\ s.recvbytes = 0
      BY <3>1, Zenon
    <3>3. p_info' = [p_info EXCEPT ![fd] = s] /\ Port!Issue(fd, "WSARecv")
      BY <1>11, <2>2, <3>2
    <3>4. s.recvbytes <= BUFSIZE
      BY <3>2, CompletionFacts
    <3> QED
      BY <2>2, <3>2, <3>3, <3>4, Zenon
  <2> QED
    BY <2>1, <2>2
<1>14. /\ overlapped' \in [Fds -> {"none", "WSARecv", "WSASend"}]
       /\ \A f \in Fds \ {fd} : overlapped'[f] = overlapped[f]
       /\ overlapped'[fd] = what \/ (overlapped'[fd] = "none" /\ x_peer[x_fdt[fd]] = "rst")
  BY <1>4, <1>12, <1>13, IssueIs
<1>15. /\ p_info' \in [Fds -> Port!SOCKETINFO] /\ p_info'[fd] = s
       /\ \A f \in Fds \ {fd} : p_info'[f] = p_info[f]
  BY <1>12, <1>13 DEF PortTyped
<1>16. \A v, u \in Workers : held[v].fd = held[u].fd /\ held[v].fd \in Fds => v = u
  BY DEF PortIInv, OwnedOnce
<1>17. /\ held' \in [Workers -> Port!Completions \cup {Port!NoCompletion}]
       /\ \A f \in Fds : WorkerHas(f)' <=> WorkerHas(f) /\ f # fd
       /\ \A d \in Port!Completions : (\E v \in Workers : held'[v] = d) =>
             \E v \in Workers : held[v] = d
       /\ \A v, u \in Workers : held'[v].fd = held'[u].fd /\ held'[v].fd \in Fds => v = u
  BY <1>1, <1>3, <1>10, <1>12, <1>16, HeldMoves, CompletionFacts, ZenonT(60)
<1>18. XSockets' /\ OtherDescriptors(main # "exit")' /\ PortTyped'
  <2>1. XSockets'
    BY <1>10, <1>12 DEF XSockets, XTyped, Connections, InTime
  <2>2. OtherDescriptors(main # "exit")'
    BY <1>10 DEF PortIInv, OtherDescriptors
  <2>3. PortTyped'
    BY <1>10, <1>12, <1>14, <1>15, <1>17 DEF PortTyped
  <2> QED
    BY <2>1, <2>2, <2>3
<1>19. \A f : (MainHas(f)' <=> MainHas(f)) /\ (PortHas(f)' <=> PortHas(f))
  BY <1>10 DEF MainHas, PortHas
<1>20. \A d \in Port!Completions : Pending(d)' => Pending(d)
  BY <1>10, <1>17 DEF Pending
<1>21. Books(fd)'
  <2>1. ASSUME NEW d \in Port!Completions, d.fd = fd PROVE ~ Pending(d)'
    <3>1. Pending(d)' => PortHas(fd)' \/ WorkerHas(fd)'
      BY <2>1 DEF Pending, PortHas, WorkerHas
    <3> QED
      BY <1>4, <1>17, <1>19, <3>1
  <2>2. (Owed(r, c)' <=> Owed(r, c)) /\ x_fdt'[fd] = c /\ x_taken'[c] = x_taken[c] /\ x_out'[c] = x_out[c]
    BY <1>5, <1>10 DEF Owed
  <2>3. overlapped'[fd] = "WSASend" =>
          p_info'[fd].recvbytes > p_info'[fd].sendbytes /\ Owed(p_info[fd], x_fdt[fd])'
    <3>1. ASSUME overlapped'[fd] = "WSASend" PROVE p_info'[fd] = r /\ r.recvbytes > r.sendbytes
      BY <1>13, <1>14, <1>15, <3>1
    <3>2. ASSUME p_info'[fd] = r PROVE Owed(p_info[fd], x_fdt[fd])'
      BY <1>9, <2>2, <3>2 DEF Owed
    <3> QED
      BY <3>1, <3>2
  <2>4. overlapped'[fd] = "WSARecv" => p_info'[fd].recvbytes = 0 /\ EvenWith(x_fdt[fd])'
    <3>1. ASSUME overlapped'[fd] = "WSARecv"
          PROVE  p_info'[fd].recvbytes = 0 /\ ~ (r.recvbytes > r.sendbytes)
      BY <1>13, <1>14, <1>15, <3>1
    <3>2. ASSUME ~ (r.recvbytes > r.sendbytes) PROVE EvenWith(x_fdt[fd])'
      <4>1. Len(x_out[c]) \in Nat
        BY <1>4, <1>5, PortRecord
      <4>2. r.recvbytes = r.sendbytes /\ x_taken[c] = Len(x_out[c]) + r.recvbytes - r.sendbytes
        BY <1>8, <1>9, <3>2 DEF Owed
      <4>3. x_taken[c] = Len(x_out[c])
        BY <1>8, <4>1, <4>2
      <4> QED
        BY <2>2, <4>3 DEF EvenWith
    <3> QED
      BY <3>1, <3>2
  <2>5. ~ MainHas(fd)' /\ p_info'[fd].recvbytes <= BUFSIZE
    BY <1>4, <1>13, <1>15, <1>19
  <2> QED
    BY <2>1, <2>3, <2>4, <2>5 DEF Books
<1> QED
  <2>1. \A f \in Fds \ {fd} :
              /\ MainHas(f)' <=> MainHas(f)
              /\ overlapped'[f] = overlapped[f]
              /\ PortHas(f)' <=> PortHas(f)
              /\ WorkerHas(f)' <=> WorkerHas(f)
              /\ x_fdt'[f] = x_fdt[f] /\ p_info'[f] = p_info[f]
    BY <1>10, <1>14, <1>15, <1>17, <1>19
  <2>2. ~ MainHas(fd)' /\ ~ PortHas(fd)' /\ ~ WorkerHas(fd)' /\ x_fdt'[fd] \in Clients
    BY <1>4, <1>10, <1>17, <1>19
  <2>3. /\ main' = "start" => newfd' \in Fds
        /\ \A k, l \in DOMAIN hcp' : hcp'[k].fd = hcp'[l].fd => k = l
    BY <1>10 DEF PortIInv, OwnedOnce
  <2>4. \/ KernelHas(fd)'
        \/ ~ SomeoneHas(fd)' /\ x_peer'[x_fdt'[fd]] = "rst"
    <3>1. KernelHas(fd)' \/ (~ KernelHas(fd)' /\ x_peer'[x_fdt'[fd]] = "rst")
      BY <1>10, <1>13, <1>14 DEF KernelHas
    <3> QED
      BY <2>2, <3>1 DEF SomeoneHas
  <2> QED
    BY <1>10, <1>17, <1>18, <1>20, <1>21, <2>1, <2>2, <2>3, <2>4, PortStep

LEMMA PortBreakStep == ASSUME PortIInv, Port!AcceptBreaks PROVE PortIInv'
<1>1. /\ x_link' = [c \in Clients |-> IF x_link[c] \in {"backlog", "open"}
                                      THEN "closed" ELSE x_link[c]]
      /\ x_fdt' = [fd \in Fds |-> Free]
      /\ UNCHANGED <<x_peer, x_sent, x_taken, x_out, x_got>>
      /\ main' = "exit" /\ newfd' = 0 /\ hcp' = <<>>
      /\ p_info' = [fd \in Fds |-> Port!NewSocketInfo]
      /\ overlapped' = [fd \in Fds |-> "none"]
      /\ held' = [w \in Workers |-> Port!NoCompletion]
  BY SameTypes DEF Port!AcceptBreaks, Port!CloseAll
<1>2. XSockets' /\ \A f \in Fds : x_fdt'[f] = Free
  BY <1>1, EndSockets DEF PortIInv
<1>3. OtherDescriptors(main # "exit")'
  BY <1>1, <1>2, Descriptors DEF OtherDescriptors
<1>4. PortTyped'
  <2>1. hcp' \in Seq(Port!Completions)
    BY <1>1
  <2> QED
    BY <1>1, <2>1, NewPortInfo DEF PortTyped
<1>5. \A f \in Fds : ~ MainHas(f)' /\ ~ KernelHas(f)' /\ ~ PortHas(f)' /\ ~ WorkerHas(f)'
  <2>1. DOMAIN hcp' = {}
    BY <1>1
  <2>2. \A w \in Workers : held'[w].fd = 0
    BY <1>1, CompletionFacts
  <2> QED
    BY <1>1, <2>1, <2>2, Descriptors DEF MainHas, KernelHas, PortHas, WorkerHas
<1>6. OwnedOnce'
  <2>1. DOMAIN hcp' = {} /\ \A w \in Workers : held'[w].fd \notin Fds
    BY <1>1, CompletionFacts, Descriptors
  <2>2. \A f \in Fds : ~ SomeoneHas(f)' /\ x_fdt'[f] \notin Clients
    BY <1>2, <1>5, Descriptors DEF SomeoneHas
  <2> QED
    BY <1>1, <1>5, <2>1, <2>2 DEF OwnedOnce
<1>7. ASSUME NEW f \in Fds PROVE Books(f)'
  <2>1. ASSUME NEW e \in Port!Completions, e.fd = f PROVE ~ Pending(e)'
    <3>1. Pending(e)' => PortHas(f)' \/ WorkerHas(f)'
      BY <2>1 DEF Pending, PortHas, WorkerHas
    <3> QED
      BY <1>5, <3>1
  <2>2. p_info'[f].recvbytes <= BUFSIZE /\ overlapped'[f] = "none"
    BY <1>1, NewPortInfo, CompletionFacts
  <2> QED
    BY <1>5, <2>1, <2>2 DEF Books
<1> QED
  BY <1>2, <1>3, <1>4, <1>6, <1>7 DEF PortIInv, PortBooks

(* What is not of this server's doing. *)
LEMMA PortRemoteStep ==
    ASSUME PortIInv, XSockets', UNCHANGED <<x_taken, x_out, x_fdt>>,
           UNCHANGED <<main, newfd, p_info, overlapped, hcp, held>>,
           \A d \in Clients : /\ x_peer[d] = "rst" => x_peer'[d] = "rst"
                              /\ Fins(d) => Fins(d)' \/ x_peer'[d] = "rst"
    PROVE  PortIInv'
<1>1. \A f : /\ MainHas(f)' <=> MainHas(f)
             /\ KernelHas(f)' <=> KernelHas(f)
             /\ PortHas(f)' <=> PortHas(f)
             /\ WorkerHas(f)' <=> WorkerHas(f)
             /\ SomeoneHas(f)' <=> SomeoneHas(f)
  BY DEF MainHas, KernelHas, PortHas, WorkerHas, SomeoneHas
<1>2. OwnedOnce'
  BY <1>1 DEF PortIInv, OwnedOnce
<1>3. PortTyped' /\ OtherDescriptors(main # "exit")'
  BY DEF PortIInv, PortTyped, OtherDescriptors
<1>4. ASSUME NEW f \in Fds PROVE Books(f)'
  <2>1. Books(f) /\ (SomeoneHas(f) => x_fdt[f] \in Clients)
    BY DEF PortIInv, PortBooks, OwnedOnce
  <2>2. \A e \in Port!Completions : e.fd = f /\ Pending(e)' => Pending(e)
    BY DEF Pending
  <2> QED
    BY <1>1, <2>1, <2>2, BooksKept
<1> QED
  BY <1>2, <1>3, <1>4 DEF PortIInv, PortBooks

LEMMA PortNext ==
    ASSUME PortIInv, [Port!Next]_(Port!vars) PROVE PortIInv'
<1>1. CASE Port!Server
  BY <1>1, SameTypes, PortAcceptStep, PortBreakStep, PortStartStep, PortRecvStep, PortSendStep,
     PortFetchStep, PortCloseStep, PortContinueStep
     DEF Port!Server, Port!MainThread, Port!Kernel, Port!WorkerThread
<1>2. CASE Port!Environment
  <2>1. PICK c \in Clients : Port!Remote(c)
    BY <1>2 DEF Port!Environment
  <2>2. RemoteX(c)
    BY <2>1 DEF RemoteX
  <2>3. /\ XSockets' /\ UNCHANGED <<x_taken, x_out, x_fdt>>
        /\ \A d \in Clients : /\ x_peer[d] = "rst" => x_peer'[d] = "rst"
                              /\ Fins(d) => Fins(d)' \/ x_peer'[d] = "rst"
    BY <2>2, RemoteSockets DEF PortIInv
  <2>4. UNCHANGED <<main, newfd, p_info, overlapped, hcp, held>>
    BY <1>2 DEF Port!Environment, Port!server
  <2> QED
    BY <2>3, <2>4, PortRemoteStep
<1>3. CASE UNCHANGED Port!vars
  <2>1. /\ UNCHANGED <<x_link, x_peer, x_sent, x_taken, x_out, x_got, x_fdt>>
        /\ UNCHANGED <<main, newfd, p_info, overlapped, hcp, held>>
    BY <1>3 DEF Port!vars, Port!sockets, Port!server
  <2>2. XSockets'
    BY <2>1 DEF PortIInv, XSockets, XTyped, Connections, InTime
  <2> QED
    BY <2>1, <2>2, PortRemoteStep DEF Fins
<1> QED
  BY <1>1, <1>2, <1>3 DEF Port!Next

(* fdt of a server that has just called listen(). *)
LEMMA FirstSocket ==
    ASSUME x_fdt = [fd \in Fds |->
                      IF \E l \in Listeners : [k \in Listeners |-> IF k = listen_sock THEN 3 ELSE 0][l] = fd
                      THEN CHOOSE l \in Listeners :
                              [k \in Listeners |-> IF k = listen_sock THEN 3 ELSE 0][l] = fd
                      ELSE Free],
           x_link = [c \in Clients |-> "new"], x_peer = [c \in Clients |-> "up"],
           x_sent = [c \in Clients |-> 0], x_taken = [c \in Clients |-> 0],
           x_out = [c \in Clients |-> <<>>], x_got = [c \in Clients |-> 0]
    PROVE  XSockets /\ \A f \in Fds : x_fdt[f] = IF f = listenfd THEN listen_sock ELSE Free
<1> DEFINE listenFd == [k \in Listeners |-> IF k = listen_sock THEN 3 ELSE 0]
<1>1. x_fdt = [fd \in Fds |-> IF \E l \in Listeners : listenFd[l] = fd
                              THEN CHOOSE l \in Listeners : listenFd[l] = fd ELSE Free]
  OBVIOUS
<1>2. \A fd \in Fds, l \in Listeners : listenFd[l] = fd <=> (l = listen_sock /\ fd = listenfd)
  BY Descriptors DEF listenfd
<1> HIDE DEF listenFd
<1>3. ASSUME NEW f \in Fds PROVE x_fdt[f] = IF f = listenfd THEN listen_sock ELSE Free
  <2>1. CASE f = listenfd
    <3>1. listenFd[listen_sock] = f /\ \A l \in Listeners : listenFd[l] = f => l = listen_sock
      BY <1>2, <2>1, Descriptors
    <3>2. (CHOOSE l \in Listeners : listenFd[l] = f) = listen_sock
      BY <3>1, Descriptors
    <3> QED
      BY <1>1, <2>1, <3>1, <3>2, Descriptors, Zenon
  <2>2. CASE f # listenfd
    <3>1. ~ \E l \in Listeners : listenFd[l] = f
      BY <1>2, <2>2
    <3> QED
      BY <1>1, <2>2, <3>1, Zenon
  <2> QED
    BY <2>1, <2>2
<1>4. XTyped
  <2>1. x_fdt \in [Fds -> Clients \cup Listeners \cup {Free}]
    BY <1>1, <1>3, Descriptors
  <2>2. x_out \in [Clients -> Seq(Bytes)]
    OBVIOUS
  <2> QED
    BY <2>1, <2>2 DEF XTyped
<1>5. \A f \in Fds : x_fdt[f] \notin Clients
  BY <1>3, Descriptors
<1>6. Connections /\ InTime
  <2>1. \A c \in Clients : /\ x_link[c] = "new" /\ x_taken[c] = 0 /\ x_sent[c] = 0
                           /\ x_out[c] = <<>>
    OBVIOUS
  <2>2. Connections
    BY ONLY <1>5, <2>1 DEF Connections
  <2>3. InTime
    BY ONLY <2>1 DEF InTime
  <2> QED
    BY <2>2, <2>3
<1> QED
  BY <1>3, <1>4, <1>5, <1>6, Zenon DEF XSockets

LEMMA PortInit == ASSUME Port!Init PROVE PortIInv
<1>1. XSockets /\ \A f \in Fds : x_fdt[f] = IF f = listenfd THEN listen_sock ELSE Free
  <2>1. Port!SocketsInit([l \in Listeners |-> IF l = listen_sock THEN 3 ELSE 0])
    BY DEF Port!Init, Port!listenfd
  <2> QED
    BY <2>1, FirstSocket, SameTypes, Zenon DEF Port!SocketsInit
<1>2. /\ main = "accept" /\ newfd = 0 /\ hcp = <<>>
      /\ p_info = [f \in Fds |-> Port!NewSocketInfo]
      /\ overlapped = [f \in Fds |-> "none"]
      /\ held = [w \in Workers |-> Port!NoCompletion]
  BY SameTypes DEF Port!Init
<1>3. \A f \in Fds : x_fdt[f] \notin Clients
  BY <1>1, Descriptors
<1>4. OtherDescriptors(main # "exit")
  BY <1>1, <1>2, <1>3 DEF OtherDescriptors
<1>5. PortTyped
  <2>1. hcp \in Seq(Port!Completions)
    BY <1>2
  <2> QED
    BY <1>2, <2>1, NewPortInfo DEF PortTyped
<1>6. /\ DOMAIN hcp = {} /\ \A w \in Workers : held[w].fd \notin Fds
      /\ \A f \in Fds : ~ MainHas(f) /\ ~ KernelHas(f) /\ ~ PortHas(f) /\ ~ WorkerHas(f)
  <2>1. DOMAIN hcp = {}
    BY <1>2
  <2>2. \A w \in Workers : held[w].fd \notin Fds
    BY <1>2, CompletionFacts, Descriptors
  <2> QED
    BY <1>2, <2>1, <2>2 DEF MainHas, KernelHas, PortHas, WorkerHas
<1>7. OwnedOnce
  BY <1>2, <1>3, <1>6 DEF OwnedOnce, SomeoneHas
<1>8. ASSUME NEW f \in Fds PROVE Books(f)
  <2>1. \A e \in Port!Completions : e.fd = f => ~ Pending(e)
    BY <1>6, PendingHas
  <2>2. p_info[f].recvbytes <= BUFSIZE /\ overlapped[f] = "none"
    BY <1>2, NewPortInfo, CompletionFacts
  <2> QED
    BY <1>6, <2>1, <2>2 DEF Books
<1> QED
  BY <1>1, <1>4, <1>5, <1>7, <1>8 DEF PortIInv, PortBooks

(* How many elements of a set have a property that at most one of them has. *)
LEMMA AtMostOne ==
    ASSUME NEW S, \A s, t \in S : s = t
    PROVE  /\ (\E s \in S : TRUE) => Cardinality(S) = 1
           /\ ~ (\E s \in S : TRUE) => Cardinality(S) = 0
<1>1. ASSUME NEW s \in S PROVE Cardinality(S) = 1
  <2>1. S = {s}
    BY <1>1
  <2> QED
    BY <2>1, FS_Singleton
<1>2. ASSUME \A s \in S : FALSE PROVE Cardinality(S) = 0
  <2>1. S = {}
    BY <1>2
  <2> QED
    BY <2>1, FS_EmptySet
<1> QED
  BY <1>1, <1>2

LEMMA Owned == ASSUME PortIInv PROVE Port!OneOwner
<1> SUFFICES ASSUME NEW fd \in Fds
             PROVE  IF Port!Connected(fd)
                    THEN \/ Port!Owners(fd) = 1
                         \/ Port!Owners(fd) = 0 /\ x_peer[x_fdt[fd]] = "rst"
                    ELSE Port!Owners(fd) = 0
  BY SameTypes DEF Port!OneOwner
<1> DEFINE a == IF MainHas(fd) THEN 1 ELSE 0
           b == IF KernelHas(fd) THEN 1 ELSE 0
           P == {k \in DOMAIN hcp : hcp[k].fd = fd}
           W == {w \in Workers : held[w].fd = fd}
<1>1. Port!Owners(fd) = a + b + Cardinality(P) + Cardinality(W)
  <2>1. \A S : Port!Cardinality(S) = Cardinality(S)
    BY DEF Port!Cardinality, Cardinality
  <2>2. Port!Owners(fd) = a + b + Port!Cardinality(P) + Port!Cardinality(W)
    BY DEF Port!Owners, Port!Quantify, MainHas, KernelHas
  <2> QED
    BY <2>1, <2>2
<1>2. Cardinality(P) = IF PortHas(fd) THEN 1 ELSE 0
  <2>1. (\E k \in P : TRUE) <=> PortHas(fd)
    BY DEF PortHas
  <2>2. \A k, l \in P : k = l
    BY DEF PortIInv, OwnedOnce
  <2> HIDE DEF P
  <2> QED
    BY <2>1, <2>2, AtMostOne
<1>3. Cardinality(W) = IF WorkerHas(fd) THEN 1 ELSE 0
  <2>1. (\E w \in W : TRUE) <=> WorkerHas(fd)
    BY DEF WorkerHas
  <2>2. \A w, v \in W : w = v
    BY DEF PortIInv, OwnedOnce
  <2> HIDE DEF W
  <2> QED
    BY <2>1, <2>2, AtMostOne
<1>4. /\ MainHas(fd) => ~ KernelHas(fd) /\ ~ PortHas(fd) /\ ~ WorkerHas(fd)
      /\ KernelHas(fd) => ~ PortHas(fd) /\ ~ WorkerHas(fd)
      /\ PortHas(fd) => ~ WorkerHas(fd)
      /\ SomeoneHas(fd) => x_fdt[fd] \in Clients
      /\ x_fdt[fd] \in Clients => SomeoneHas(fd) \/ x_peer[x_fdt[fd]] = "rst"
  BY DEF PortIInv, OwnedOnce
<1> HIDE DEF P, W
<1>5. Port!Owners(fd) = IF SomeoneHas(fd) THEN 1 ELSE 0
  BY <1>1, <1>2, <1>3, <1>4 DEF SomeoneHas
<1> QED
  BY <1>4, <1>5 DEF Port!Connected

(* The records of the completion port server are kept: what the kernel, a  *)
(* completion or a worker is about to do with a record fits what its       *)
(* client was given.  See PortIInv.                                        *)
THEOREM PortInvariance == Port!Spec => []PortIInv
<1>1. Port!Init => PortIInv
  BY PortInit
<1>2. PortIInv /\ [Port!Next]_(Port!vars) => PortIInv'
  BY PortNext
<1> QED
  BY <1>1, <1>2, PTL DEF Port!Spec

(* The variables of the completion port server stay in their sets. *)
THEOREM PortTypeCorrect == Port!Spec => []Port!TypeOK
<1>1. PortIInv => Port!TypeOK
  BY SameTypes DEF PortIInv, XSockets, PortTyped, Port!TypeOK
<1> QED
  BY <1>1, PortInvariance, PTL

(* No lock protects the records of CompletionPortTCPServer, and none is    *)
(* needed: with any number of workers, main(), the kernel, the port and    *)
(* the workers never have the same record twice between them, and nobody   *)
(* has one that was deleted.                                               *)
THEOREM OwnersKept == Port!Spec => []Port!OneOwner
<1>1. PortIInv => Port!OneOwner
  BY Owned
<1> QED
  BY <1>1, PortInvariance, PTL

-----------------------------------------------------------------------------
(* The servers with an accept loop. *)

LoopTyped ==
    /\ loop \in [Listeners -> {"new", "runs", "ended"}]
    /\ conn \in [Fds -> [at: {"none", "recv", "send", "SEND_AGAIN", "close"},
                         buf: Seq(Bytes)]]
    /\ spoilt \subseteq Clients

(* A descriptor is served exactly while it is a connection. *)
Attended == \A fd \in Fds : conn[fd].at # "none" <=> x_fdt[fd] \in Clients

(* Server alone has a second loop around accept(). *)
OneLoop == \A l \in Listeners : l # listen_sock => loop[l] # "runs"

(* Between recv() and the end of send() the buffer has what was taken from *)
(* c and not yet given back, before recv() nothing; a connection is only   *)
(* closed when its client has left.                                        *)
InAnswer(fd, c) ==
    /\ conn[fd].at \in {"recv", "send", "close"}
    /\ conn[fd].at # "close" =>
          /\ x_taken[c] = Len(x_out[c]) + Len(conn[fd].buf)
          /\ \A m \in 1 .. Len(conn[fd].buf) : conn[fd].buf[m] = <<c, Len(x_out[c]) + m>>
    /\ conn[fd].at = "recv" => conn[fd].buf = <<>>
    /\ conn[fd].at = "close" => x_peer[c] = "rst" \/ (Fins(c) /\ EvenWith(c))

InOrderTo(c) == \A m \in 1 .. Len(x_out[c]) : x_out[c][m] = <<c, m>>

LoopBooks ==
    \A c \in Clients \ spoilt :
       InOrderTo(c) /\ \A fd \in Fds : x_fdt[fd] = c => InAnswer(fd, c)

LoopIInv ==
    /\ XSockets /\ LoopTyped /\ Attended
    /\ program # "Server" =>
          LoopBooks /\ OneLoop /\ OtherDescriptors(loop[listen_sock] = "runs")
    /\ program # "NonblockTCPServer" => spoilt = {}

(* What is not of these servers' doing. *)
LEMMA LoopRemoteStep ==
    ASSUME LoopIInv, XSockets', UNCHANGED <<x_taken, x_out, x_fdt>>,
           UNCHANGED <<program, loop, conn, spoilt>>,
           \A d \in Clients : /\ x_peer[d] = "rst" => x_peer'[d] = "rst"
                              /\ Fins(d) => Fins(d)' \/ x_peer'[d] = "rst"
    PROVE  LoopIInv'
<1>1. LoopTyped' /\ Attended' /\ (program # "NonblockTCPServer" => spoilt = {})'
  BY DEF LoopIInv, LoopTyped, Attended
<1>2. ASSUME program # "Server"
      PROVE  OneLoop' /\ OtherDescriptors(loop[listen_sock] = "runs")'
  BY <1>2 DEF LoopIInv, OneLoop, OtherDescriptors
<1>3. ASSUME program # "Server", NEW c \in Clients \ spoilt'
      PROVE  InOrderTo(c)' /\ \A fd \in Fds : x_fdt'[fd] = c => InAnswer(fd, c)'
  <2>1. InOrderTo(c) /\ \A fd \in Fds : x_fdt[fd] = c => InAnswer(fd, c)
    BY <1>3 DEF LoopIInv, LoopBooks
  <2> QED
    BY <2>1, Zenon DEF InOrderTo, InAnswer, EvenWith
<1> QED
  BY <1>1, <1>2, <1>3 DEF LoopIInv, LoopBooks

(* A step of the code that serves c on fd. *)
LEMMA LoopServeStep ==
    ASSUME LoopIInv, XSockets', NEW fd \in Fds, NEW c \in Clients, x_fdt[fd] = c,
           UNCHANGED <<x_fdt, program, loop>>,
           NEW to \in [at: {"recv", "send", "SEND_AGAIN", "close"}, buf: Seq(Bytes)],
           conn' = [conn EXCEPT ![fd] = to],
           spoilt \subseteq spoilt', spoilt' \subseteq spoilt \cup {c},
           program # "NonblockTCPServer" => spoilt' = spoilt,
           \A d \in Clients : /\ d # c => x_taken'[d] = x_taken[d] /\ x_out'[d] = x_out[d]
                              /\ x_peer'[d] = x_peer[d] /\ x_sent'[d] = x_sent[d],
           program # "Server" /\ c \notin spoilt' => InOrderTo(c)' /\ InAnswer(fd, c)'
    PROVE  LoopIInv'
<1>1. /\ conn' \in [Fds -> [at: {"none", "recv", "send", "SEND_AGAIN", "close"},
                            buf: Seq(Bytes)]]
      /\ \A f \in Fds : conn'[f] = IF f = fd THEN to ELSE conn[f]
  BY DEF LoopIInv, LoopTyped
<1>2. LoopTyped'
  BY <1>1 DEF LoopIInv, LoopTyped
<1>3. Attended'
  <2>1. to.at # "none"
    OBVIOUS
  <2> QED
    BY <1>1, <2>1 DEF LoopIInv, Attended
<1>4. (program # "NonblockTCPServer" => spoilt = {})'
  BY DEF LoopIInv
<1>5. ASSUME program # "Server"
      PROVE  OneLoop' /\ OtherDescriptors(loop[listen_sock] = "runs")'
  BY <1>5 DEF LoopIInv, OneLoop, OtherDescriptors
<1>6. ASSUME program # "Server", NEW d \in Clients \ spoilt'
      PROVE  InOrderTo(d)' /\ \A f \in Fds : x_fdt'[f] = d => InAnswer(f, d)'
  <2>1. InOrderTo(d) /\ \A f \in Fds : x_fdt[f] = d => InAnswer(f, d)
    BY <1>6 DEF LoopIInv, LoopBooks
  <2>2. CASE d = c
    <3>1. \A f \in Fds : x_fdt[f] = d => f = fd
      BY <2>2 DEF LoopIInv, XSockets, Connections
    <3> QED
      BY <1>6, <2>2, <3>1
  <2>3. CASE d # c
    <3>1. \A f \in Fds : x_fdt[f] = d => conn'[f] = conn[f]
      BY <1>1, <2>3
    <3>2. /\ x_taken'[d] = x_taken[d] /\ x_out'[d] = x_out[d]
          /\ x_peer'[d] = x_peer[d] /\ x_sent'[d] = x_sent[d]
      BY <2>3
    <3>3. InOrderTo(d)'
      BY <2>1, <3>2 DEF InOrderTo
    <3>4. ASSUME NEW f \in Fds, x_fdt[f] = d PROVE InAnswer(f, d)'
      <4>1. InAnswer(f, d) /\ conn'[f] = conn[f]
        BY <2>1, <3>1, <3>4
      <4> QED
        BY <3>2, <4>1, ZenonT(60) DEF InAnswer, EvenWith, Fins
    <3> QED
      BY <3>3, <3>4
  <2> QED
    BY <2>2, <2>3
<1> QED
  BY <1>2, <1>3, <1>4, <1>5, <1>6 DEF LoopIInv, LoopBooks

LEMMA ServedIs ==
    ASSUME LoopIInv, NEW fd \in Fds, conn[fd].at # "none"
    PROVE  /\ x_fdt[fd] \in Clients /\ x_link[x_fdt[fd]] = "open"
           /\ conn[fd].buf \in Seq(Bytes) /\ Len(conn[fd].buf) \in Nat
           /\ x_out[x_fdt[fd]] \in Seq(Bytes) /\ Len(x_out[x_fdt[fd]]) \in Nat
           /\ x_taken[x_fdt[fd]] \in Nat /\ x_sent[x_fdt[fd]] \in Nat
           /\ program # "Server" /\ x_fdt[fd] \notin spoilt =>
                 InOrderTo(x_fdt[fd]) /\ InAnswer(fd, x_fdt[fd])
<1>1. PICK c \in Clients : x_fdt[fd] = c /\ x_link[c] = "open"
  BY DEF LoopIInv, Attended, XSockets, Connections
<1>2. /\ conn[fd].buf \in Seq(Bytes) /\ Len(conn[fd].buf) \in Nat
      /\ x_out[c] \in Seq(Bytes) /\ Len(x_out[c]) \in Nat
      /\ x_taken[c] \in Nat /\ x_sent[c] \in Nat
  BY DEF LoopIInv, LoopTyped, XSockets, XTyped
<1>3. program # "Server" /\ c \notin spoilt => InOrderTo(c) /\ InAnswer(fd, c)
  BY <1>1 DEF LoopIInv, LoopBooks
<1> QED
  BY <1>1, <1>2, <1>3

LEMMA LoopRecvStep ==
    ASSUME LoopIInv, NEW fd \in Fds, Loops!RecvCall(fd) \/ Server1!RecvCall(fd)
    PROVE  LoopIInv'
<1>1. PICK c \in Clients : c = x_fdt[fd]
  <2>1. conn[fd].at = "recv"
    BY DEF Loops!RecvCall, Server1!RecvCall
  <2> QED
    BY <2>1, ServedIs
<1>2. /\ conn[fd].at = "recv" /\ UNCHANGED <<program, loop, spoilt>>
      /\ \/ \E n \in 1 .. BUFSIZE :
               /\ n <= x_sent[c] - x_taken[c] /\ x_taken' = [x_taken EXCEPT ![c] = @ + n]
               /\ UNCHANGED <<x_link, x_peer, x_sent, x_out, x_got, x_fdt>>
               /\ conn' = [conn EXCEPT ![fd] =
                             IF program # "Server"
                             THEN [at |-> "send", buf |-> Chunk(c, x_taken[c], n)]
                             ELSE [at |-> "recv", buf |-> <<>>]]
         \/ /\ (x_peer[c] = "fin" /\ x_sent[c] - x_taken[c] = 0) \/ x_peer[c] = "rst"
            /\ conn' = [conn EXCEPT ![fd] = [at |-> "close", buf |-> <<>>]]
            /\ UNCHANGED <<x_link, x_peer, x_sent, x_taken, x_out, x_got, x_fdt>>
  <2>1. CASE Loops!RecvCall(fd)
    BY <1>1, <2>1 DEF Loops!RecvCall, Loops!RecvReturns, Loops!Unread, Loops!Take, Loops!Goto,
       Loops!Echoes, Loops!RecvEof, Loops!RecvError, Loops!sockets, Loops!Chunk, Chunk
  <2>2. CASE Server1!RecvCall(fd)
    BY <1>1, <2>2 DEF Server1!RecvCall, Server1!RecvReturns, Server1!Unread, Server1!Take,
       Server1!Goto, Server1!Echoes, Server1!RecvEof, Server1!RecvError, Server1!sockets,
       Server1!Chunk, Chunk
  <2> QED
    BY <2>1, <2>2
<1>3. /\ x_link[c] = "open" /\ x_taken[c] \in Nat /\ x_sent[c] \in Nat
      /\ Len(x_out[c]) \in Nat /\ XSockets
      /\ program # "Server" /\ c \notin spoilt => InOrderTo(c) /\ InAnswer(fd, c)
  BY <1>1, <1>2, ServedIs DEF LoopIInv
<1>4. program # "Server" /\ c \notin spoilt => x_taken[c] = Len(x_out[c])
  <2>1. ASSUME program # "Server", c \notin spoilt
        PROVE  conn[fd].buf = <<>> /\ x_taken[c] = Len(x_out[c]) + Len(conn[fd].buf)
    BY <1>2, <1>3, <2>1, Zenon DEF InAnswer
  <2>2. ASSUME program # "Server", c \notin spoilt PROVE x_taken[c] = Len(x_out[c])
    <3>1. Len(conn[fd].buf) = 0
      BY <2>1, <2>2
    <3> QED
      BY <1>3, <2>1, <2>2, <3>1
  <2> QED
    BY <2>2
<1>7. UNCHANGED <<program, loop, spoilt>> /\ conn[fd].at = "recv"
  BY <1>2
<1>5. CASE \E n \in 1 .. BUFSIZE :
               /\ n <= x_sent[c] - x_taken[c] /\ x_taken' = [x_taken EXCEPT ![c] = @ + n]
               /\ UNCHANGED <<x_link, x_peer, x_sent, x_out, x_got, x_fdt>>
               /\ conn' = [conn EXCEPT ![fd] =
                             IF program # "Server"
                             THEN [at |-> "send", buf |-> Chunk(c, x_taken[c], n)]
                             ELSE [at |-> "recv", buf |-> <<>>]]
  <2>1. PICK n \in 1 .. BUFSIZE :
               /\ n <= x_sent[c] - x_taken[c] /\ x_taken' = [x_taken EXCEPT ![c] = @ + n]
               /\ UNCHANGED <<x_link, x_peer, x_sent, x_out, x_got, x_fdt>>
               /\ conn' = [conn EXCEPT ![fd] =
                             IF program # "Server"
                             THEN [at |-> "send", buf |-> Chunk(c, x_taken[c], n)]
                             ELSE [at |-> "recv", buf |-> <<>>]]
    BY <1>5, Zenon
  <2>2. n \in Nat /\ BUFSIZE \in Nat
    BY SocketsAssumption
  <2>3. /\ XSockets'
        /\ \A d \in Clients : x_taken'[d] = IF d = c THEN x_taken[c] + n ELSE x_taken[d]
    BY <1>3, <2>1, <2>2, TakeSockets, Zenon
  <2>4. PICK to : to = IF program # "Server"
                       THEN [at |-> "send", buf |-> Chunk(c, x_taken[c], n)]
                       ELSE [at |-> "recv", buf |-> <<>>]
    BY Zenon
  <2>5. /\ Chunk(c, x_taken[c], n) \in Seq(Bytes) /\ Len(Chunk(c, x_taken[c], n)) = n
        /\ \A j \in 1 .. n : Chunk(c, x_taken[c], n)[j] = <<c, x_taken[c] + j>>
    BY <1>3, <2>2, ChunkType, Zenon
  <2>6. to \in [at: {"recv", "send", "SEND_AGAIN", "close"}, buf: Seq(Bytes)]
    BY <2>4, <2>5
  <2>7. ASSUME program # "Server", c \notin spoilt' PROVE InOrderTo(c)' /\ InAnswer(fd, c)'
    <3>1. conn'[fd].at = "send" /\ conn'[fd].buf = Chunk(c, x_taken[c], n)
      BY <2>1, <2>7 DEF LoopIInv, LoopTyped
    <3>2. InOrderTo(c)'
      BY <1>2, <1>3, <2>1, <2>7 DEF InOrderTo
    <3>3. InAnswer(fd, c)'
      BY <1>2, <1>3, <1>4, <2>1, <2>2, <2>3, <2>5, <2>7, <3>1, ZenonT(60) DEF InAnswer
    <3> QED
      BY <3>2, <3>3
  <2>8. conn' = [conn EXCEPT ![fd] = to]
    BY <2>1, <2>4
  <2>9. \A d \in Clients : /\ d # c => x_taken'[d] = x_taken[d] /\ x_out'[d] = x_out[d]
                           /\ x_peer'[d] = x_peer[d] /\ x_sent'[d] = x_sent[d]
    BY <2>1, <2>3
  <2> QED
    <3>1. /\ UNCHANGED <<x_fdt, program, loop>> /\ x_fdt[fd] = c
          /\ spoilt \subseteq spoilt' /\ spoilt' \subseteq spoilt \cup {c} /\ spoilt' = spoilt
      BY <1>1, <1>7, <2>1
    <3>2. program # "Server" /\ c \notin spoilt' => InOrderTo(c)' /\ InAnswer(fd, c)'
      BY <2>7
    <3> QED
      BY <2>3, <2>6, <2>8, <2>9, <3>1, <3>2, LoopServeStep, Zenon
<1>6. CASE /\ (x_peer[c] = "fin" /\ x_sent[c] - x_taken[c] = 0) \/ x_peer[c] = "rst"
           /\ conn' = [conn EXCEPT ![fd] = [at |-> "close", buf |-> <<>>]]
           /\ UNCHANGED <<x_link, x_peer, x_sent, x_taken, x_out, x_got, x_fdt>>
  <2>1. XSockets'
    BY <1>3, <1>6 DEF XSockets, XTyped, Connections, InTime
  <2>2. PICK to : to = [at |-> "close", buf |-> <<>>]
    BY Zenon
  <2>3. to \in [at: {"recv", "send", "SEND_AGAIN", "close"}, buf: Seq(Bytes)]
    BY <2>2
  <2>4. ASSUME program # "Server", c \notin spoilt' PROVE InOrderTo(c)' /\ InAnswer(fd, c)'
    <3>1. conn'[fd].at = "close"
      BY <1>6 DEF LoopIInv, LoopTyped
    <3>2. x_taken[c] = Len(x_out[c]) /\ InOrderTo(c)
      BY <1>2, <1>3, <1>4, <2>4
    <3>3. x_peer'[c] = "rst" \/ (Fins(c)' /\ EvenWith(c)')
      BY <1>3, <1>6, <3>2 DEF EvenWith, Fins
    <3> QED
      BY <1>6, <3>1, <3>2, <3>3, Zenon DEF InOrderTo, InAnswer
  <2>5. conn' = [conn EXCEPT ![fd] = to]
    BY <1>6, <2>2
  <2> QED
    BY <1>1, <1>7, <1>6, <2>1, <2>3, <2>4, <2>5, LoopServeStep, Zenon
<1> QED
  BY <1>2, <1>5, <1>6

(* To the end of the connection without a word. *)
LEMMA LoopHangStep ==
    ASSUME LoopIInv, NEW fd \in Fds, conn[fd].at # "none",
           \/ x_peer[x_fdt[fd]] = "rst"
           \/ program # "Server" => x_fdt[fd] \in spoilt,
           conn' = [conn EXCEPT ![fd] = [at |-> "close", buf |-> <<>>]],
           UNCHANGED <<x_link, x_peer, x_sent, x_taken, x_out, x_got, x_fdt>>,
           UNCHANGED <<program, loop, spoilt>>
    PROVE  LoopIInv'
<1>1. PICK c \in Clients : c = x_fdt[fd]
  BY ServedIs
<1>2. XSockets'
  BY DEF LoopIInv, XSockets, XTyped, Connections, InTime
<1>3. PICK to : to = [at |-> "close", buf |-> <<>>]
  BY Zenon
<1>4. to \in [at: {"recv", "send", "SEND_AGAIN", "close"}, buf: Seq(Bytes)]
  BY <1>3
<1>5. ASSUME program # "Server", c \notin spoilt' PROVE InOrderTo(c)' /\ InAnswer(fd, c)'
  <2>1. conn'[fd].at = "close" /\ x_peer'[c] = "rst"
    BY <1>1, <1>5 DEF LoopIInv, LoopTyped
  <2>2. InOrderTo(c)
    BY <1>1, <1>5, ServedIs
  <2> QED
    BY <2>1, <2>2, Zenon DEF InOrderTo, InAnswer
<1>6. conn' = [conn EXCEPT ![fd] = to]
  BY <1>3
<1> QED
  BY <1>1, <1>2, <1>4, <1>5, <1>6, LoopServeStep, Zenon

LEMMA Parts ==
    ASSUME NEW S, NEW s \in Seq(S), NEW n \in 1 .. Len(s)
    PROVE  /\ SubSeq(s, 1, n) \in Seq(S) /\ SubSeq(s, n + 1, Len(s)) \in Seq(S)
           /\ n \in Nat /\ Len(s) \in Nat /\ n <= Len(s)
           /\ Len(SubSeq(s, n + 1, Len(s))) = Len(s) - n
           /\ \A m \in 1 .. (Len(s) - n) : SubSeq(s, n + 1, Len(s))[m] = s[n + m]
<1>1. PICK len \in Nat : len = Len(s)
  OBVIOUS
<1>2. n \in Nat /\ n <= len /\ n + 1 \in Nat /\ n + 1 >= 1 /\ n + 1 <= len + 1
  BY <1>1
<1>3. SubSeq(s, 1, n) \in Seq(S)
  BY <1>1, <1>2
<1>4. SubSeq(s, n + 1, len) \in Seq(S)
  BY <1>1, <1>2
<1>5. Len(SubSeq(s, n + 1, len)) = len - n
  BY <1>1, <1>2
<1>6. ASSUME NEW m \in 1 .. (len - n) PROVE SubSeq(s, n + 1, len)[m] = s[n + m]
  BY <1>1, <1>2, <1>6
<1> QED
  BY <1>1, <1>2, <1>3, <1>4, <1>5, <1>6

(* send(): the bytes that come first in the buffer, and what is left stays *)
(* there -- unless the connection is spoilt.                               *)
LEMMA LoopGiveStep ==
    ASSUME LoopIInv, NEW fd \in Fds, conn[fd].at \in {"send", "SEND_AGAIN"},
           NEW c \in Clients, c = x_fdt[fd],
           NEW bytes \in Seq(Bytes), x_out' = [x_out EXCEPT ![c] = @ \o bytes],
           UNCHANGED <<x_link, x_peer, x_sent, x_taken, x_got, x_fdt, program, loop>>,
           NEW to \in [at: {"recv", "send", "SEND_AGAIN", "close"}, buf: Seq(Bytes)],
           conn' = [conn EXCEPT ![fd] = to],
           spoilt \subseteq spoilt', spoilt' \subseteq spoilt \cup {c},
           program # "NonblockTCPServer" => spoilt' = spoilt,
           NEW n \in 1 .. Len(conn[fd].buf),
           program # "Server" /\ c \notin spoilt' =>
              /\ bytes = SubSeq(conn[fd].buf, 1, n)
              /\ \/ /\ n = Len(conn[fd].buf) /\ to = [at |-> "recv", buf |-> <<>>]
                 \/ /\ n < Len(conn[fd].buf)
                    /\ to = [at |-> "send",
                             buf |-> SubSeq(conn[fd].buf, n + 1, Len(conn[fd].buf))]
    PROVE  LoopIInv'
<1> DEFINE buf == conn[fd].buf
<1>1. /\ buf \in Seq(Bytes) /\ Len(buf) \in Nat /\ x_out[c] \in Seq(Bytes)
      /\ Len(x_out[c]) \in Nat /\ x_taken[c] \in Nat /\ x_link[c] = "open" /\ XSockets
      /\ program # "Server" /\ c \notin spoilt => InOrderTo(c) /\ InAnswer(fd, c)
  BY ServedIs DEF LoopIInv
<1>2. /\ XSockets' /\ \A d \in Clients : x_out'[d] = IF d = c THEN x_out[c] \o bytes ELSE x_out[d]
      /\ Len(x_out'[c]) = Len(x_out[c]) + Len(bytes)
  BY <1>1, GiveSockets, Zenon
<1>3. conn'[fd] = to
  BY DEF LoopIInv, LoopTyped
<1>4. ASSUME program # "Server", c \notin spoilt' PROVE InOrderTo(c)' /\ InAnswer(fd, c)'
  <2>1. PICK b, s, took : b = buf /\ s = x_out[c] /\ took = x_taken[c]
    OBVIOUS
  <2>2. PICK t, rest : t = s \o SubSeq(b, 1, n) /\ rest = SubSeq(b, n + 1, Len(b))
    BY Zenon
  <2>3. /\ took = Len(s) + Len(b) /\ \A m \in 1 .. Len(s) : s[m] = <<c, m>>
        /\ \A m \in 1 .. Len(b) : b[m] = <<c, Len(s) + m>>
    <3>1. InOrderTo(c) /\ InAnswer(fd, c)
      BY <1>1, <1>4
    <3> QED
      BY <2>1, <3>1, Zenon DEF InOrderTo, InAnswer
  <2>4. b \in Seq(Bytes) /\ s \in Seq(Bytes) /\ took \in Nat /\ n \in 1 .. Len(b)
    BY <1>1, <2>1
  <2>5. /\ Len(t) = Len(s) + n /\ \A m \in 1 .. Len(t) : t[m] = <<c, m>>
        /\ Len(rest) = Len(b) - n
        /\ \A m \in 1 .. Len(rest) : rest[m] = <<c, Len(t) + m>>
    <3>1. n \in Nat /\ Len(b) \in Nat /\ Len(s) \in Nat /\ n <= Len(b)
      BY <2>4
    <3>2. /\ SubSeq(b, 1, n) \in Seq(Bytes) /\ Len(SubSeq(b, 1, n)) = n
          /\ \A j \in 1 .. n : SubSeq(b, 1, n)[j] = b[j]
      BY ONLY <2>4
    <3>3. SubSeq(b, 1, n) = Chunk(c, Len(s), n)
      <4>1. /\ Chunk(c, Len(s), n) \in Seq(Bytes) /\ Len(Chunk(c, Len(s), n)) = n
            /\ \A j \in 1 .. n : Chunk(c, Len(s), n)[j] = <<c, Len(s) + j>>
        <5>1. PICK k \in Nat : k = Len(s)
          BY <3>1
        <5>2. /\ Chunk(c, k, n) \in Seq(Bytes) /\ Len(Chunk(c, k, n)) = n
              /\ \A j \in 1 .. n : Chunk(c, k, n)[j] = <<c, k + j>>
          <6>1. c \in Clients /\ k \in Nat /\ n \in Nat
            BY <3>1
          <6> QED
            BY ONLY <6>1, ChunkType, Zenon
        <5> HIDE DEF Chunk
        <5> QED
          BY ONLY <5>1, <5>2, Zenon
      <4>2. \A j \in 1 .. n : SubSeq(b, 1, n)[j] = <<c, Len(s) + j>>
        BY ONLY <2>3, <3>1, <3>2
      <4> HIDE DEF Chunk
      <4>3. PICK u, v : u = SubSeq(b, 1, n) /\ v = Chunk(c, Len(s), n)
        BY Zenon
      <4>4. u \in Seq(Bytes) /\ v \in Seq(Bytes) /\ Len(u) = Len(v) /\ \A j \in 1 .. Len(u) : u[j] = v[j]
        BY <3>2, <4>1, <4>2, <4>3, Zenon
      <4>5. u = v
        BY <4>4, SeqEqual
      <4> QED
        BY <4>3, <4>5
    <3>4. Len(t) = Len(s) + n /\ \A m \in 1 .. Len(t) : t[m] = <<c, m>>
      <4>1. /\ Len(s \o Chunk(c, Len(s), n)) = Len(s) + n
            /\ \A m \in 1 .. (Len(s) + n) : (s \o Chunk(c, Len(s), n))[m] = <<c, m>>
        <5>1. /\ c \in Clients /\ s \in Seq(Bytes) /\ n \in Nat
              /\ \A m \in 1 .. Len(s) : s[m] = <<c, m>>
          BY <2>3, <2>4, <3>1, Zenon
        <5> QED
          BY ONLY <5>1, InOrder, ZenonT(60)
      <4>2. t = s \o Chunk(c, Len(s), n)
        BY <2>2, <3>3, Zenon
      <4> HIDE DEF Chunk
      <4> QED
        BY ONLY <4>1, <4>2, Zenon
    <3>5. /\ rest \in Seq(Bytes) /\ Len(rest) = Len(b) - n
          /\ \A m \in 1 .. Len(rest) : rest[m] = b[n + m]
      <4>1. /\ SubSeq(b, n + 1, Len(b)) \in Seq(Bytes)
            /\ Len(SubSeq(b, n + 1, Len(b))) = Len(b) - n
            /\ \A m \in 1 .. (Len(b) - n) : SubSeq(b, n + 1, Len(b))[m] = b[n + m]
        BY <2>4, Parts
      <4>2. rest = SubSeq(b, n + 1, Len(b))
        BY <2>2, Zenon
      <4>3. /\ rest \in Seq(Bytes) /\ Len(rest) = Len(b) - n
            /\ \A m \in 1 .. (Len(b) - n) : rest[m] = b[n + m]
        BY ONLY <4>1, <4>2, Zenon
      <4>4. 1 .. Len(rest) = 1 .. (Len(b) - n)
        BY ONLY <4>3, Zenon
      <4> QED
        BY ONLY <4>3, <4>4, Zenon
    <3>6. \A m \in 1 .. Len(rest) : rest[m] = <<c, Len(t) + m>>
      <4> SUFFICES ASSUME NEW m \in 1 .. Len(rest) PROVE rest[m] = <<c, Len(t) + m>>
        BY Zenon
      <4>1. n + m \in 1 .. Len(b) /\ Len(s) + (n + m) = Len(t) + m
        BY <3>1, <3>4, <3>5
      <4>2. b[n + m] = <<c, Len(s) + (n + m)>>
        BY <2>3, <4>1
      <4> QED
        BY <3>5, <4>1, <4>2, Zenon
    <3> QED
      BY <3>4, <3>5, <3>6, Zenon
  <2>6. x_out'[c] = t /\ x_taken'[c] = took
    BY <1>2, <1>4, <2>1, <2>2, Zenon
  <2>7. InOrderTo(c)'
    BY <2>5, <2>6, Zenon DEF InOrderTo
  <2>8. CASE n = Len(buf) /\ to = [at |-> "recv", buf |-> <<>>]
    <3>1. conn'[fd].at = "recv" /\ conn'[fd].buf = <<>>
      BY <1>3, <2>8
    <3>2. Len(conn'[fd].buf) = 0
      BY <3>1
    <3>3. took = Len(t) + Len(conn'[fd].buf)
      <4>1. n = Len(b) /\ Len(b) \in Nat /\ Len(s) \in Nat
        BY <2>1, <2>4, <2>8
      <4> QED
        BY ONLY <2>3, <2>5, <3>2, <4>1
    <3>4. ~ \E m \in 1 .. Len(conn'[fd].buf) : TRUE
      BY <3>2
    <3> QED
      BY <2>6, <2>7, <3>1, <3>3, <3>4, Zenon DEF InAnswer
  <2>9. CASE n < Len(buf) /\ to = [at |-> "send", buf |-> SubSeq(buf, n + 1, Len(buf))]
    <3>1. conn'[fd].at = "send" /\ conn'[fd].buf = rest
      BY <1>3, <2>1, <2>2, <2>9
    <3>2. took = Len(t) + Len(rest)
      BY <2>3, <2>4, <2>5
    <3> QED
      BY <2>5, <2>6, <2>7, <3>1, <3>2, Zenon DEF InAnswer
  <2> QED
    BY <1>4, <2>8, <2>9
<1>5. \A d \in Clients : /\ d # c => x_taken'[d] = x_taken[d] /\ x_out'[d] = x_out[d]
                         /\ x_peer'[d] = x_peer[d] /\ x_sent'[d] = x_sent[d]
  BY <1>2
<1>6. program # "Server" /\ c \notin spoilt' => InOrderTo(c)' /\ InAnswer(fd, c)'
  BY <1>4
<1> HIDE DEF buf
<1> QED
  BY <1>2, <1>5, <1>6, LoopServeStep, Zenon

LEMMA LoopSendStep ==
    ASSUME LoopIInv, NEW fd \in Fds, Loops!SendCall(fd) \/ Server1!SendCall(fd)
    PROVE  LoopIInv'
<1>1. conn[fd].at = "send"
  BY DEF Loops!SendCall, Server1!SendCall
<1>2. PICK c \in Clients : c = x_fdt[fd]
  BY <1>1, ServedIs
<1>3. PICK buf \in Seq(Bytes) : buf = conn[fd].buf
  BY <1>1, ServedIs
<1>4. /\ program # "NonblockTCPServer" /\ UNCHANGED <<program, loop, spoilt>>
      /\ \/ \E n \in 1 .. Len(buf) :
               /\ x_out' = [x_out EXCEPT ![c] = @ \o SubSeq(buf, 1, n)]
               /\ UNCHANGED <<x_link, x_peer, x_sent, x_taken, x_got, x_fdt>>
               /\ \/ n = Len(buf) /\ conn' = [conn EXCEPT ![fd] = [at |-> "recv", buf |-> <<>>]]
                  \/ /\ n # Len(buf)
                     /\ conn' = [conn EXCEPT ![fd] =
                                   [at |-> "send", buf |-> SubSeq(buf, n + 1, Len(buf))]]
         \/ /\ x_peer[c] = "rst"
            /\ conn' = [conn EXCEPT ![fd] = [at |-> "close", buf |-> <<>>]]
            /\ UNCHANGED <<x_link, x_peer, x_sent, x_taken, x_out, x_got, x_fdt>>
  <2>1. CASE Loops!SendCall(fd)
    BY <1>2, <1>3, <2>1 DEF Loops!SendCall, Loops!Give, Loops!Goto, Loops!SendError, Loops!sockets
  <2>2. CASE Server1!SendCall(fd)
    BY <1>2, <1>3, <2>2 DEF Server1!SendCall, Server1!Give, Server1!Goto, Server1!SendError,
       Server1!sockets
  <2> QED
    BY <2>1, <2>2, Zenon
<1>5. CASE /\ x_peer[c] = "rst"
           /\ conn' = [conn EXCEPT ![fd] = [at |-> "close", buf |-> <<>>]]
           /\ UNCHANGED <<x_link, x_peer, x_sent, x_taken, x_out, x_got, x_fdt>>
  BY <1>1, <1>2, <1>4, <1>5, LoopHangStep, Zenon
<1>6. ASSUME NEW n \in 1 .. Len(buf),
             x_out' = [x_out EXCEPT ![c] = @ \o SubSeq(buf, 1, n)],
             UNCHANGED <<x_link, x_peer, x_sent, x_taken, x_got, x_fdt>>,
             \/ n = Len(buf) /\ conn' = [conn EXCEPT ![fd] = [at |-> "recv", buf |-> <<>>]]
             \/ /\ n # Len(buf)
                /\ conn' = [conn EXCEPT ![fd] =
                              [at |-> "send", buf |-> SubSeq(buf, n + 1, Len(buf))]]
      PROVE  LoopIInv'
  <2>0. /\ SubSeq(buf, 1, n) \in Seq(Bytes) /\ SubSeq(buf, n + 1, Len(buf)) \in Seq(Bytes)
        /\ n \in Nat /\ Len(buf) \in Nat /\ n <= Len(buf)
    BY Parts
  <2>1. PICK to : to = IF n = Len(buf) THEN [at |-> "recv", buf |-> <<>>]
                       ELSE [at |-> "send", buf |-> SubSeq(buf, n + 1, Len(buf))]
    BY Zenon
  <2>6. conn' = [conn EXCEPT ![fd] = to]
    BY <1>6, <2>1
  <2>2. PICK bytes \in Seq(Bytes) : bytes = SubSeq(buf, 1, n)
    BY <2>0, Zenon
  <2>3. \/ n = Len(buf) /\ to = [at |-> "recv", buf |-> <<>>]
        \/ n < Len(buf) /\ to = [at |-> "send", buf |-> SubSeq(buf, n + 1, Len(buf))]
    BY <2>0, <2>1
  <2>4. to \in [at: {"recv", "send", "SEND_AGAIN", "close"}, buf: Seq(Bytes)]
    <3>1. CASE to = [at |-> "recv", buf |-> <<>>]
      BY <3>1
    <3>2. PICK rest \in Seq(Bytes) : rest = SubSeq(buf, n + 1, Len(buf))
      BY <2>0, Zenon
    <3>3. CASE to = [at |-> "send", buf |-> rest]
      BY <3>3
    <3> QED
      BY <2>3, <3>1, <3>2, <3>3
  <2>5. /\ UNCHANGED <<x_link, x_peer, x_sent, x_taken, x_got, x_fdt, program, loop>>
        /\ spoilt' = spoilt /\ x_out' = [x_out EXCEPT ![c] = @ \o bytes]
        /\ n \in 1 .. Len(conn[fd].buf) /\ conn[fd].at \in {"send", "SEND_AGAIN"}
    BY <1>1, <1>3, <1>4, <1>6, <2>2
  <2> QED
    BY <1>2, <1>3, <2>2, <2>3, <2>4, <2>5, <2>6, LoopGiveStep, Zenon
<1> QED
  BY <1>4, <1>5, <1>6, Zenon

LEMMA LoopNonblockStep ==
    ASSUME LoopIInv, NEW fd \in Fds, Loops!NonblockSend(fd) \/ Server1!NonblockSend(fd)
    PROVE  LoopIInv'
<1>1. conn[fd].at = "send" /\ program = "NonblockTCPServer"
  BY DEF Loops!NonblockSend, Server1!NonblockSend
<1>2. PICK c \in Clients : c = x_fdt[fd]
  BY <1>1, ServedIs
<1>3. PICK buf \in Seq(Bytes) : buf = conn[fd].buf
  BY <1>1, ServedIs
<1>4. /\ UNCHANGED <<program, loop>>
      /\ \/ \E n \in 1 .. Len(buf) :
               /\ x_out' = [x_out EXCEPT ![c] = @ \o SubSeq(buf, 1, n)]
               /\ UNCHANGED <<x_link, x_peer, x_sent, x_taken, x_got, x_fdt>>
               /\ conn' = [conn EXCEPT ![fd] = [at |-> "recv", buf |-> <<>>]]
               /\ spoilt' = IF n < Len(buf) THEN spoilt \cup {c} ELSE spoilt
         \/ /\ x_peer[c] = "rst" /\ spoilt' = spoilt
            /\ conn' = [conn EXCEPT ![fd] = [at |-> "close", buf |-> <<>>]]
            /\ UNCHANGED <<x_link, x_peer, x_sent, x_taken, x_out, x_got, x_fdt>>
         \/ /\ spoilt' = spoilt \cup {c}
            /\ conn' = [conn EXCEPT ![fd] = [at |-> "SEND_AGAIN", buf |-> buf]]
            /\ UNCHANGED <<x_link, x_peer, x_sent, x_taken, x_out, x_got, x_fdt>>
  <2>1. CASE Loops!NonblockSend(fd)
    BY <1>2, <1>3, <2>1, Zenon DEF Loops!NonblockSend, Loops!Give, Loops!Goto, Loops!SendError,
       Loops!sockets
  <2>2. CASE Server1!NonblockSend(fd)
    BY <1>2, <1>3, <2>2 DEF Server1!NonblockSend, Server1!Give, Server1!Goto, Server1!SendError,
       Server1!sockets
  <2> QED
    BY <2>1, <2>2, Zenon
<1>5. CASE /\ x_peer[c] = "rst" /\ spoilt' = spoilt
           /\ conn' = [conn EXCEPT ![fd] = [at |-> "close", buf |-> <<>>]]
           /\ UNCHANGED <<x_link, x_peer, x_sent, x_taken, x_out, x_got, x_fdt>>
  BY <1>1, <1>2, <1>4, <1>5, LoopHangStep, Zenon
<1>6. ASSUME NEW n \in 1 .. Len(buf),
             x_out' = [x_out EXCEPT ![c] = @ \o SubSeq(buf, 1, n)],
             UNCHANGED <<x_link, x_peer, x_sent, x_taken, x_got, x_fdt>>,
             conn' = [conn EXCEPT ![fd] = [at |-> "recv", buf |-> <<>>]],
             spoilt' = IF n < Len(buf) THEN spoilt \cup {c} ELSE spoilt
      PROVE  LoopIInv'
  <2>1. PICK to : to = [at |-> "recv", buf |-> <<>>]
    BY Zenon
  <2>2. PICK bytes \in Seq(Bytes) : bytes = SubSeq(buf, 1, n)
    BY Parts, Zenon
  <2>3. to \in [at: {"recv", "send", "SEND_AGAIN", "close"}, buf: Seq(Bytes)]
    BY <2>1
  <2>4. /\ UNCHANGED <<x_link, x_peer, x_sent, x_taken, x_got, x_fdt, program, loop>>
        /\ x_out' = [x_out EXCEPT ![c] = @ \o bytes] /\ conn' = [conn EXCEPT ![fd] = to]
        /\ n \in 1 .. Len(conn[fd].buf) /\ conn[fd].at \in {"send", "SEND_AGAIN"}
        /\ spoilt \subseteq spoilt' /\ spoilt' \subseteq spoilt \cup {c}
        /\ program = "NonblockTCPServer"
    BY <1>1, <1>3, <1>4, <1>6, <2>1, <2>2
  <2>5. c \notin spoilt' => n = Len(conn[fd].buf)
    BY <1>3, <1>6
  <2> QED
    BY <1>2, <1>3, <2>1, <2>2, <2>3, <2>4, <2>5, LoopGiveStep, Zenon
<1>7. CASE /\ spoilt' = spoilt \cup {c}
           /\ conn' = [conn EXCEPT ![fd] = [at |-> "SEND_AGAIN", buf |-> buf]]
           /\ UNCHANGED <<x_link, x_peer, x_sent, x_taken, x_out, x_got, x_fdt>>
  <2>1. XSockets'
    BY <1>7 DEF LoopIInv, XSockets, XTyped, Connections, InTime
  <2>2. PICK to : to = [at |-> "SEND_AGAIN", buf |-> buf]
    BY Zenon
  <2>3. to \in [at: {"recv", "send", "SEND_AGAIN", "close"}, buf: Seq(Bytes)]
    BY <1>3, <2>2
  <2>4. /\ UNCHANGED <<x_fdt, program, loop>> /\ conn' = [conn EXCEPT ![fd] = to]
        /\ spoilt \subseteq spoilt' /\ spoilt' \subseteq spoilt \cup {c} /\ c \in spoilt'
        /\ program = "NonblockTCPServer" /\ x_fdt[fd] = c
        /\ UNCHANGED <<x_taken, x_out, x_peer, x_sent>>
    BY <1>1, <1>2, <1>4, <1>7, <2>2
  <2> QED
    BY <2>1, <2>3, <2>4, LoopServeStep, Zenon
<1> QED
  BY <1>4, <1>5, <1>6, <1>7, Zenon

(* From SEND_AGAIN on nothing is promised to the client. *)
LEMMA LoopAgainStep ==
    ASSUME LoopIInv, NEW fd \in Fds, Loops!SendAgain(fd) \/ Server1!SendAgain(fd)
    PROVE  LoopIInv'
<1>1. conn[fd].at = "SEND_AGAIN"
  BY DEF Loops!SendAgain, Server1!SendAgain
<1>2. PICK c \in Clients : c = x_fdt[fd]
  BY <1>1, ServedIs
<1>3. PICK buf \in Seq(Bytes) : buf = conn[fd].buf
  BY <1>1, ServedIs
<1>4. program # "Server" => c \in spoilt
  BY <1>1, <1>2, ServedIs, Zenon DEF InAnswer
<1>5. /\ UNCHANGED <<program, loop, spoilt>>
      /\ \/ \E n \in Nat, b \in {<<c, k>> : k \in 1 .. x_taken[c]} :
               /\ x_out' = [x_out EXCEPT ![c] = @ \o [k \in 1 .. n |->
                                                        IF k <= Len(buf) THEN buf[k] ELSE b]]
               /\ UNCHANGED <<x_link, x_peer, x_sent, x_taken, x_got, x_fdt>>
               /\ conn' = [conn EXCEPT ![fd] = [at |-> "recv", buf |-> <<>>]]
         \/ /\ conn' = [conn EXCEPT ![fd] = [at |-> "close", buf |-> <<>>]]
            /\ UNCHANGED <<x_link, x_peer, x_sent, x_taken, x_out, x_got, x_fdt>>
  <2>1. SNDBUF - (Len(x_out[c]) - x_got[c]) \in Int
    BY SocketsAssumption DEF LoopIInv, XSockets, XTyped
  <2>2. CASE Loops!SendAgain(fd)
    <3>1. UNCHANGED <<program, loop, spoilt>>
      BY <2>2 DEF Loops!SendAgain
    <3>2. ASSUME NEW n \in 1 .. Loops!SendSpace(c), NEW b \in {<<c, k>> : k \in 1 .. x_taken[c]},
                 Loops!Give(c, [k \in 1 .. n |-> IF k <= Len(buf) THEN buf[k] ELSE b]),
                 Loops!Goto(fd, "recv", <<>>)
          PROVE  /\ n \in Nat
                 /\ x_out' = [x_out EXCEPT ![c] = @ \o [k \in 1 .. n |->
                                                          IF k <= Len(buf) THEN buf[k] ELSE b]]
                 /\ UNCHANGED <<x_link, x_peer, x_sent, x_taken, x_got, x_fdt>>
                 /\ conn' = [conn EXCEPT ![fd] = [at |-> "recv", buf |-> <<>>]]
      BY <2>1, <3>2 DEF Loops!Give, Loops!Goto, Loops!SendSpace
    <3>3. \/ \E n \in 1 .. Loops!SendSpace(c), b \in {<<c, k>> : k \in 1 .. x_taken[c]} :
                /\ Loops!Give(c, [k \in 1 .. n |-> IF k <= Len(buf) THEN buf[k] ELSE b])
                /\ Loops!Goto(fd, "recv", <<>>)
          \/ /\ conn' = [conn EXCEPT ![fd] = [at |-> "close", buf |-> <<>>]]
             /\ UNCHANGED <<x_link, x_peer, x_sent, x_taken, x_out, x_got, x_fdt>>
      BY <1>2, <1>3, <2>2, ZenonT(60)
      DEF Loops!SendAgain, Loops!Goto, Loops!sockets
    <3> QED
      BY <3>1, <3>2, <3>3, Zenon
  <2>3. CASE Server1!SendAgain(fd)
    <3>1. UNCHANGED <<program, loop, spoilt>>
      BY <2>3 DEF Server1!SendAgain
    <3>2. ASSUME NEW n \in 1 .. Server1!SendSpace(c), NEW b \in {<<c, k>> : k \in 1 .. x_taken[c]},
                 Server1!Give(c, [k \in 1 .. n |-> IF k <= Len(buf) THEN buf[k] ELSE b]),
                 Server1!Goto(fd, "recv", <<>>)
          PROVE  /\ n \in Nat
                 /\ x_out' = [x_out EXCEPT ![c] = @ \o [k \in 1 .. n |->
                                                          IF k <= Len(buf) THEN buf[k] ELSE b]]
                 /\ UNCHANGED <<x_link, x_peer, x_sent, x_taken, x_got, x_fdt>>
                 /\ conn' = [conn EXCEPT ![fd] = [at |-> "recv", buf |-> <<>>]]
      BY <2>1, <3>2 DEF Server1!Give, Server1!Goto, Server1!SendSpace
    <3>3. \/ \E n \in 1 .. Server1!SendSpace(c), b \in {<<c, k>> : k \in 1 .. x_taken[c]} :
                /\ Server1!Give(c, [k \in 1 .. n |-> IF k <= Len(buf) THEN buf[k] ELSE b])
                /\ Server1!Goto(fd, "recv", <<>>)
          \/ /\ conn' = [conn EXCEPT ![fd] = [at |-> "close", buf |-> <<>>]]
             /\ UNCHANGED <<x_link, x_peer, x_sent, x_taken, x_out, x_got, x_fdt>>
      BY <1>2, <1>3, <2>3, ZenonT(60)
      DEF Server1!SendAgain, Server1!Goto, Server1!sockets
    <3> QED
      BY <3>1, <3>2, <3>3, Zenon
  <2> QED
    BY <2>2, <2>3, Zenon
<1>6. CASE /\ conn' = [conn EXCEPT ![fd] = [at |-> "close", buf |-> <<>>]]
           /\ UNCHANGED <<x_link, x_peer, x_sent, x_taken, x_out, x_got, x_fdt>>
  BY <1>1, <1>2, <1>4, <1>5, <1>6, LoopHangStep, Zenon
<1>7. ASSUME NEW n \in Nat, NEW b \in {<<c, k>> : k \in 1 .. x_taken[c]},
             x_out' = [x_out EXCEPT ![c] = @ \o [k \in 1 .. n |->
                                                   IF k <= Len(buf) THEN buf[k] ELSE b]],
             UNCHANGED <<x_link, x_peer, x_sent, x_taken, x_got, x_fdt>>,
             conn' = [conn EXCEPT ![fd] = [at |-> "recv", buf |-> <<>>]]
      PROVE  LoopIInv'
  <2>1. PICK to : to = [at |-> "recv", buf |-> <<>>]
    BY Zenon
  <2>2. PICK bytes : bytes = [k \in 1 .. n |-> IF k <= Len(buf) THEN buf[k] ELSE b]
    BY Zenon
  <2>3. bytes \in Seq(Bytes)
    <3>1. b \in Bytes
      BY <1>7 DEF LoopIInv, XSockets, XTyped, Bytes
    <3>2. \A k \in 1 .. n : (IF k <= Len(buf) THEN buf[k] ELSE b) \in Bytes
      BY <1>3, <3>1
    <3>3. bytes \in [1 .. n -> Bytes]
      BY <2>2, <3>2
    <3> QED
      BY <3>3
  <2>4. to \in [at: {"recv", "send", "SEND_AGAIN", "close"}, buf: Seq(Bytes)]
    BY <2>1
  <2>5. /\ XSockets'
        /\ \A d \in Clients : x_out'[d] = IF d = c THEN x_out[c] \o bytes ELSE x_out[d]
    <3>1. XSockets /\ x_link[c] = "open" /\ x_out' = [x_out EXCEPT ![c] = @ \o bytes]
      BY <1>1, <1>2, <1>7, <2>2, ServedIs DEF LoopIInv
    <3> QED
      BY <1>7, <2>3, <3>1, GiveSockets, Zenon
  <2>6. /\ UNCHANGED <<x_fdt, program, loop>> /\ conn' = [conn EXCEPT ![fd] = to]
        /\ spoilt' = spoilt /\ x_fdt[fd] = c /\ UNCHANGED <<x_taken, x_peer, x_sent>>
    BY <1>2, <1>5, <1>7, <2>1
  <2>7. \A d \in Clients : d # c => x_out'[d] = x_out[d]
    BY <2>5
  <2>8. XSockets'
    BY <2>5
  <2> QED
    BY <1>4, <2>4, <2>6, <2>7, <2>8, LoopServeStep, Zenon
<1> QED
  BY <1>5, <1>6, <1>7, Zenon

LEMMA LoopCloseStep ==
    ASSUME LoopIInv, NEW fd \in Fds, Loops!CloseCall(fd) \/ Server1!CloseCall(fd)
    PROVE  LoopIInv'
<1>1. conn[fd].at = "close"
  BY DEF Loops!CloseCall, Server1!CloseCall
<1>2. PICK c \in Clients : c = x_fdt[fd]
  BY <1>1, ServedIs
<1>3. /\ UNCHANGED <<program, loop, spoilt>>
      /\ conn' = [conn EXCEPT ![fd] = [at |-> "none", buf |-> <<>>]]
      /\ x_link' = [x_link EXCEPT ![x_fdt[fd]] = "closed"]
      /\ x_fdt' = [x_fdt EXCEPT ![fd] = Free]
      /\ UNCHANGED <<x_peer, x_sent, x_taken, x_out, x_got>>
  <2>1. CASE Loops!CloseCall(fd)
    BY <2>1 DEF Loops!CloseCall, Loops!Close, Loops!Unserved
  <2>2. CASE Server1!CloseCall(fd)
    BY <2>2 DEF Server1!CloseCall, Server1!Close, Server1!Unserved
  <2> QED
    BY <2>1, <2>2
<1>4. /\ XSockets' /\ \A f \in Fds : x_fdt'[f] = IF f = fd THEN Free ELSE x_fdt[f]
  <2>1. XSockets /\ x_fdt[fd] \in Clients
    BY <1>2 DEF LoopIInv
  <2> QED
    BY <1>3, <2>1, CloseSockets, Zenon
<1>5. LoopTyped' /\ \A f \in Fds : conn'[f] = IF f = fd THEN [at |-> "none", buf |-> <<>>] ELSE conn[f]
  <2>1. /\ loop \in [Listeners -> {"new", "runs", "ended"}] /\ spoilt \subseteq Clients
        /\ conn \in [Fds -> [at: {"none", "recv", "send", "SEND_AGAIN", "close"}, buf: Seq(Bytes)]]
    BY DEF LoopIInv, LoopTyped
  <2>2. PICK u : u = [at |-> "none", buf |-> <<>>]
    BY Zenon
  <2>0. u \in [at: {"none", "recv", "send", "SEND_AGAIN", "close"}, buf: Seq(Bytes)]
    BY <2>2
  <2>3. conn' = [conn EXCEPT ![fd] = u]
    BY <1>3, <2>2
  <2> QED
    BY <1>3, <2>0, <2>1, <2>2, <2>3 DEF LoopTyped
<1>6. Attended'
  BY <1>4, <1>5, Descriptors DEF LoopIInv, Attended
<1>7. (program # "NonblockTCPServer" => spoilt = {})'
  BY <1>3 DEF LoopIInv
<1>8. ASSUME program # "Server"
      PROVE  OneLoop' /\ OtherDescriptors(loop[listen_sock] = "runs")'
  <2>1. OneLoop /\ OtherDescriptors(loop[listen_sock] = "runs")
    BY <1>8 DEF LoopIInv
  <2>2. OneLoop'
    BY <1>3, <2>1 DEF OneLoop
  <2>3. OtherDescriptors(loop[listen_sock] = "runs")'
    BY <1>2, <1>3, <1>4, <2>1, Descriptors DEF OtherDescriptors
  <2> QED
    BY <2>2, <2>3
<1>9. ASSUME program # "Server", NEW d \in Clients \ spoilt'
      PROVE  InOrderTo(d)' /\ \A f \in Fds : x_fdt'[f] = d => InAnswer(f, d)'
  <2>1. InOrderTo(d) /\ \A f \in Fds : x_fdt[f] = d => InAnswer(f, d)
    BY <1>3, <1>9 DEF LoopIInv, LoopBooks
  <2>2. InOrderTo(d)'
    BY <1>3, <2>1 DEF InOrderTo
  <2>3. ASSUME NEW f \in Fds, x_fdt'[f] = d PROVE InAnswer(f, d)'
    <3>1. x_fdt[f] = d /\ conn'[f] = conn[f]
      BY <1>4, <1>5, <2>3, Descriptors
    <3>2. InAnswer(f, d)
      BY <2>1, <3>1
    <3>3. UNCHANGED <<x_peer, x_sent, x_taken, x_out>>
      BY <1>3
    <3> QED
      BY ONLY <3>1, <3>2, <3>3, Zenon DEF InAnswer, EvenWith, Fins
  <2> QED
    BY <2>2, <2>3
<1> QED
  BY <1>3, <1>4, <1>5, <1>6, <1>7, <1>8, <1>9 DEF LoopIInv, LoopBooks

(* accept() *)
LEMMA LoopAcceptStep ==
    ASSUME LoopIInv, NEW l \in Listeners, Loops!AcceptCall(l) \/ Server1!AcceptCall(l)
    PROVE  LoopIInv'
<1>1. /\ UNCHANGED <<program, loop, spoilt>>
      /\ \E c \in Clients, fd \in Fds :
            /\ x_link[c] = "backlog" /\ x_fdt[fd] = Free
            /\ x_link' = [x_link EXCEPT ![c] = "open"] /\ x_fdt' = [x_fdt EXCEPT ![fd] = c]
            /\ conn' = [conn EXCEPT ![fd] = [at |-> "recv", buf |-> <<>>]]
            /\ UNCHANGED <<x_peer, x_sent, x_taken, x_out, x_got>>
  <2>1. CASE Loops!AcceptCall(l)
    BY <2>1, SameTypes, Zenon DEF Loops!AcceptCall, Loops!Accept, Loops!Backlog, Loops!LowestFree
  <2>2. CASE Server1!AcceptCall(l)
    BY <2>2, SameTypes, Zenon
    DEF Server1!AcceptCall, Server1!Accept, Server1!Backlog, Server1!LowestFree
  <2> QED
    BY <2>1, <2>2
<1>2. PICK c \in Clients, fd \in Fds :
            /\ x_link[c] = "backlog" /\ x_fdt[fd] = Free
            /\ x_link' = [x_link EXCEPT ![c] = "open"] /\ x_fdt' = [x_fdt EXCEPT ![fd] = c]
            /\ conn' = [conn EXCEPT ![fd] = [at |-> "recv", buf |-> <<>>]]
            /\ UNCHANGED <<x_peer, x_sent, x_taken, x_out, x_got>>
  BY <1>1, Zenon
<1>3. /\ XSockets' /\ x_taken[c] = 0 /\ x_out[c] = <<>>
      /\ \A f \in Fds : x_fdt'[f] = IF f = fd THEN c ELSE x_fdt[f]
      /\ \A f \in Fds : x_fdt[f] # c
  BY <1>2, AcceptSockets, Zenon DEF LoopIInv
<1>4. LoopTyped' /\ \A f \in Fds : conn'[f] = IF f = fd THEN [at |-> "recv", buf |-> <<>>] ELSE conn[f]
  <2>1. /\ loop \in [Listeners -> {"new", "runs", "ended"}] /\ spoilt \subseteq Clients
        /\ conn \in [Fds -> [at: {"none", "recv", "send", "SEND_AGAIN", "close"}, buf: Seq(Bytes)]]
    BY DEF LoopIInv, LoopTyped
  <2>2. PICK u : u = [at |-> "recv", buf |-> <<>>]
    BY Zenon
  <2>0. u \in [at: {"none", "recv", "send", "SEND_AGAIN", "close"}, buf: Seq(Bytes)]
    BY <2>2
  <2>3. conn' = [conn EXCEPT ![fd] = u]
    BY <1>2, <2>2
  <2> QED
    BY <1>1, <2>0, <2>1, <2>2, <2>3 DEF LoopTyped
<1>5. Attended'
  BY <1>3, <1>4 DEF LoopIInv, Attended
<1>6. (program # "NonblockTCPServer" => spoilt = {})'
  BY <1>1 DEF LoopIInv
<1>7. ASSUME program # "Server"
      PROVE  OneLoop' /\ OtherDescriptors(loop[listen_sock] = "runs")'
  <2>1. OneLoop /\ OtherDescriptors(loop[listen_sock] = "runs")
    BY <1>7 DEF LoopIInv
  <2>2. OneLoop'
    BY <1>1, <2>1 DEF OneLoop
  <2>3. fd = listenfd => ~ (loop[listen_sock] = "runs")
    BY <1>2, <2>1, Descriptors DEF OtherDescriptors
  <2>4. OtherDescriptors(loop[listen_sock] = "runs")'
    BY <1>1, <1>3, <2>1, <2>3 DEF OtherDescriptors
  <2> QED
    BY <2>2, <2>4
<1>8. ASSUME program # "Server", NEW d \in Clients \ spoilt'
      PROVE  InOrderTo(d)' /\ \A f \in Fds : x_fdt'[f] = d => InAnswer(f, d)'
  <2>1. InOrderTo(d) /\ \A f \in Fds : x_fdt[f] = d => InAnswer(f, d)
    BY <1>1, <1>8 DEF LoopIInv, LoopBooks
  <2>2. InOrderTo(d)'
    BY <1>2, <2>1 DEF InOrderTo
  <2>3. ASSUME NEW f \in Fds, x_fdt'[f] = d PROVE InAnswer(f, d)'
    <3>1. CASE f # fd
      <4>1. x_fdt[f] = d /\ conn'[f] = conn[f]
        BY <1>3, <1>4, <2>3, <3>1
      <4>2. InAnswer(f, d)
        BY <2>1, <4>1
      <4>3. UNCHANGED <<x_peer, x_sent, x_taken, x_out>>
        BY <1>2
      <4> QED
        BY ONLY <4>1, <4>2, <4>3, Zenon DEF InAnswer, EvenWith, Fins
    <3>2. CASE f = fd
      <4>1. conn'[f].at = "recv" /\ conn'[f].buf = <<>> /\ d = c
        BY <1>3, <1>4, <2>3, <3>2
      <4>2. Len(conn'[f].buf) = 0 /\ Len(x_out'[d]) = 0 /\ x_taken'[d] = 0
        BY <1>2, <1>3, <4>1
      <4> QED
        BY <4>1, <4>2 DEF InAnswer
    <3> QED
      BY <3>1, <3>2
  <2> QED
    BY <2>2, <2>3
<1> QED
  BY <1>1, <1>3, <1>4, <1>5, <1>6, <1>7, <1>8 DEF LoopIInv, LoopBooks

(* Connections that were never accepted are gone. *)
LEMMA RefuseSockets ==
    ASSUME XSockets, x_link' \in [Clients -> {"new", "backlog", "open", "closed"}],
           \A c \in Clients : \/ x_link'[c] = x_link[c]
                              \/ x_link[c] = "backlog" /\ x_link'[c] = "closed",
           x_fdt' \in [Fds -> Clients \cup Listeners \cup {Free}],
           \A f \in Fds : \/ x_fdt'[f] = x_fdt[f]
                          \/ x_fdt[f] \notin Clients /\ x_fdt'[f] \notin Clients,
           UNCHANGED <<x_peer, x_sent, x_taken, x_out, x_got>>
    PROVE  XSockets'
<1>1. XTyped'
  BY DEF XSockets, XTyped
<1>2. Connections'
  <2>1. \A f \in Fds, c \in Clients : x_fdt'[f] = c <=> x_fdt[f] = c
    OBVIOUS
  <2>2. \A c \in Clients : x_link'[c] = "open" <=> x_link[c] = "open"
    OBVIOUS
  <2>3. Connections
    BY DEF XSockets
  <2>4. \A f, g \in Fds : x_fdt'[f] \in Clients /\ x_fdt'[f] = x_fdt'[g] => f = g
    BY <2>1, <2>3 DEF Connections
  <2>5. \A f \in Fds : x_fdt'[f] \in Clients => x_link'[x_fdt'[f]] = "open"
    BY <2>1, <2>2, <2>3 DEF Connections
  <2>6. \A c \in Clients : x_link'[c] = "open" => \E f \in Fds : x_fdt'[f] = c
    BY <2>1, <2>2, <2>3 DEF Connections
  <2> QED
    BY <2>4, <2>5, <2>6 DEF Connections
<1>3. InTime'
  BY DEF XSockets, InTime
<1> QED
  BY <1>1, <1>2, <1>3 DEF XSockets

LEMMA LoopRefuseStep ==
    ASSUME LoopIInv, NEW l \in Listeners, Loops!NoThread(l) \/ Server1!NoThread(l)
    PROVE  LoopIInv'
<1>1. /\ UNCHANGED <<program, loop, conn, spoilt>>
      /\ \E c \in Clients : /\ x_link[c] = "backlog" /\ x_link' = [x_link EXCEPT ![c] = "closed"]
                            /\ UNCHANGED <<x_peer, x_sent, x_taken, x_out, x_got, x_fdt>>
  <2>1. CASE Loops!NoThread(l)
    BY <2>1, Zenon DEF Loops!NoThread, Loops!AcceptAndClose, Loops!Backlog, Loops!server
  <2>2. CASE Server1!NoThread(l)
    BY <2>2, Zenon DEF Server1!NoThread, Server1!AcceptAndClose, Server1!Backlog, Server1!server
  <2> QED
    BY <2>1, <2>2
<1>2. PICK c \in Clients : /\ x_link[c] = "backlog" /\ x_link' = [x_link EXCEPT ![c] = "closed"]
                           /\ UNCHANGED <<x_peer, x_sent, x_taken, x_out, x_got, x_fdt>>
  BY <1>1, Zenon
<1>3. XSockets'
  <2>1. /\ x_link' \in [Clients -> {"new", "backlog", "open", "closed"}]
        /\ x_fdt \in [Fds -> Clients \cup Listeners \cup {Free}]
        /\ \A d \in Clients : x_link'[d] = IF d = c THEN "closed" ELSE x_link[d]
    BY <1>2 DEF LoopIInv, XSockets, XTyped
  <2> QED
    BY <1>2, <2>1, RefuseSockets DEF LoopIInv
<1> QED
  BY <1>1, <1>2, <1>3, LoopRemoteStep DEF Fins

(* The process ends. *)
LEMMA LoopEndStep ==
    ASSUME LoopIInv, loop' \in [Listeners -> {"new", "runs", "ended"}],
           program # "Server" => \A l \in Listeners : loop'[l] # "runs",
           conn' = [f \in Fds |-> [at |-> "none", buf |-> <<>>]],
           x_link' = [c \in Clients |-> IF x_link[c] \in {"backlog", "open"}
                                        THEN "closed" ELSE x_link[c]],
           x_fdt' = [fd \in Fds |-> Free],
           UNCHANGED <<x_peer, x_sent, x_taken, x_out, x_got, program, spoilt>>
    PROVE  LoopIInv'
<1>1. XSockets' /\ \A f \in Fds : x_fdt'[f] = Free
  BY EndSockets DEF LoopIInv
<1>2. LoopTyped'
  <2>1. PICK u : u = [at |-> "none", buf |-> <<>>]
    BY Zenon
  <2>0. u \in [at: {"none", "recv", "send", "SEND_AGAIN", "close"}, buf: Seq(Bytes)]
    BY <2>1
  <2>2. conn' = [f \in Fds |-> u]
    BY <2>1
  <2> QED
    BY <2>0, <2>2 DEF LoopIInv, LoopTyped
<1>3. Attended'
  BY <1>1, Descriptors DEF Attended
<1>4. (program # "NonblockTCPServer" => spoilt = {})'
  BY DEF LoopIInv
<1>5. ASSUME program # "Server"
      PROVE  OneLoop' /\ OtherDescriptors(loop[listen_sock] = "runs")' /\ LoopBooks'
  <2>1. loop'[listen_sock] # "runs" /\ OneLoop'
    BY <1>5, Descriptors DEF OneLoop
  <2>2. OtherDescriptors(loop[listen_sock] = "runs")'
    BY <1>1, <2>1, Descriptors DEF OtherDescriptors
  <2>3. LoopBooks'
    BY <1>1, <1>5, Descriptors DEF LoopIInv, LoopBooks, InOrderTo
  <2> QED
    BY <2>1, <2>2, <2>3
<1> QED
  BY <1>1, <1>2, <1>3, <1>4, <1>5 DEF LoopIInv

LEMMA LoopKillStep ==
    ASSUME LoopIInv, NEW fd \in Fds, Loops!SendKills(fd) \/ Server1!SendKills(fd)
    PROVE  LoopIInv'
<1>1. /\ loop' = [l \in Listeners |-> "ended"]
      /\ conn' = [f \in Fds |-> [at |-> "none", buf |-> <<>>]]
      /\ x_link' = [c \in Clients |-> IF x_link[c] \in {"backlog", "open"}
                                      THEN "closed" ELSE x_link[c]]
      /\ x_fdt' = [f \in Fds |-> Free]
      /\ UNCHANGED <<x_peer, x_sent, x_taken, x_out, x_got, program, spoilt>>
  <2>1. CASE Loops!SendKills(fd)
    BY <2>1, SameTypes DEF Loops!SendKills, Loops!CloseAll, Loops!Unserved
  <2>2. CASE Server1!SendKills(fd)
    BY <2>2, SameTypes DEF Server1!SendKills, Server1!CloseAll, Server1!Unserved
  <2> QED
    BY <2>1, <2>2
<1>2. /\ loop' \in [Listeners -> {"new", "runs", "ended"}]
      /\ \A l \in Listeners : loop'[l] # "runs"
  BY <1>1
<1> QED
  BY <1>1, <1>2, LoopEndStep

LEMMA LoopBreakStep ==
    ASSUME LoopIInv, NEW l \in Listeners, Loops!AcceptBreaks(l) \/ Server1!AcceptBreaks(l)
    PROVE  LoopIInv'
<1>1. /\ UNCHANGED <<program, spoilt>> /\ loop[l] = "runs"
      /\ loop' = [loop EXCEPT ![l] = "ended"]
      /\ program # "Server" =>
            /\ x_link' = [c \in Clients |-> IF x_link[c] \in {"backlog", "open"}
                                            THEN "closed" ELSE x_link[c]]
            /\ x_fdt' = [f \in Fds |-> Free]
            /\ conn' = [f \in Fds |-> [at |-> "none", buf |-> <<>>]]
      /\ program = "Server" =>
            /\ x_fdt' = [f \in Fds |-> IF x_fdt[f] = l THEN Free ELSE x_fdt[f]]
            /\ conn' = conn
      /\ UNCHANGED <<x_peer, x_sent, x_taken, x_out, x_got>>
  <2>1. CASE Loops!AcceptBreaks(l)
    BY <2>1, SameTypes DEF Loops!AcceptBreaks, Loops!AtAccept, Loops!Echoes, Loops!CloseAll,
       Loops!CloseListener, Loops!Unserved
  <2>2. CASE Server1!AcceptBreaks(l)
    BY <2>2, SameTypes DEF Server1!AcceptBreaks, Server1!AtAccept, Server1!Echoes,
       Server1!CloseAll, Server1!CloseListener, Server1!Unserved
  <2> QED
    BY <2>1, <2>2
<1>2. program = "Server" =>
         /\ x_link' \in [Clients -> {"new", "backlog", "open", "closed"}]
         /\ \A c \in Clients : \/ x_link'[c] = x_link[c]
                               \/ x_link[c] = "backlog" /\ x_link'[c] = "closed"
  <2>1. x_link \in [Clients -> {"new", "backlog", "open", "closed"}]
    BY DEF LoopIInv, XSockets, XTyped
  <2>2. CASE Loops!AcceptBreaks(l)
    BY <2>1, <2>2 DEF Loops!AcceptBreaks, Loops!Echoes, Loops!CloseListener, Loops!Backlog
  <2>3. CASE Server1!AcceptBreaks(l)
    BY <2>1, <2>3 DEF Server1!AcceptBreaks, Server1!Echoes, Server1!CloseListener,
       Server1!Backlog
  <2> QED
    BY <2>2, <2>3
<1>3. /\ loop' \in [Listeners -> {"new", "runs", "ended"}]
      /\ \A k \in Listeners : loop'[k] = IF k = l THEN "ended" ELSE loop[k]
  BY <1>1 DEF LoopIInv, LoopTyped
<1>4. CASE program # "Server"
  <2>1. \A k \in Listeners : loop'[k] # "runs"
    BY <1>1, <1>3, <1>4 DEF LoopIInv, OneLoop
  <2> QED
    BY <1>1, <1>3, <1>4, <2>1, LoopEndStep
<1>5. CASE program = "Server"
  <2>1. /\ x_fdt' \in [Fds -> Clients \cup Listeners \cup {Free}]
        /\ \A f \in Fds : \/ x_fdt'[f] = x_fdt[f]
                          \/ x_fdt[f] \notin Clients /\ x_fdt'[f] \notin Clients
    BY <1>1, <1>5, Descriptors DEF LoopIInv, XSockets, XTyped
  <2>2. XSockets'
    BY <1>1, <1>2, <1>5, <2>1, RefuseSockets DEF LoopIInv
  <2>3. LoopTyped'
    BY <1>1, <1>3, <1>5 DEF LoopIInv, LoopTyped
  <2>4. Attended'
    BY <1>1, <1>5, <2>1 DEF LoopIInv, Attended
  <2> QED
    BY <1>1, <1>5, <2>2, <2>3, <2>4 DEF LoopIInv
<1> QED
  BY <1>4, <1>5

LEMMA LoopStartStep ==
    ASSUME LoopIInv, Loops!StartTCPServer6 \/ Server1!StartTCPServer6 PROVE LoopIInv'
<1>1. /\ UNCHANGED <<program, conn, spoilt>> /\ program = "Server"
      /\ loop' = [loop EXCEPT ![listen_sock6] = "runs"]
      /\ \E fd \in Fds : x_fdt[fd] = Free /\ x_fdt' = [x_fdt EXCEPT ![fd] = listen_sock6]
      /\ UNCHANGED <<x_link, x_peer, x_sent, x_taken, x_out, x_got>>
  <2>1. CASE Loops!StartTCPServer6
    BY <2>1, SameTypes, Zenon DEF Loops!StartTCPServer6, Loops!Listen, Loops!LowestFree
  <2>2. CASE Server1!StartTCPServer6
    BY <2>2, SameTypes, Zenon DEF Server1!StartTCPServer6, Server1!Listen, Server1!LowestFree
  <2> QED
    BY <2>1, <2>2
<1>2. PICK fd \in Fds : x_fdt[fd] = Free /\ x_fdt' = [x_fdt EXCEPT ![fd] = listen_sock6]
  BY <1>1, Zenon
<1>3. /\ x_fdt' \in [Fds -> Clients \cup Listeners \cup {Free}]
      /\ \A f \in Fds : \/ x_fdt'[f] = x_fdt[f]
                        \/ x_fdt[f] \notin Clients /\ x_fdt'[f] \notin Clients
  BY <1>2, Descriptors, EchoServersAssumption DEF LoopIInv, XSockets, XTyped
<1>4. XSockets'
  <2>1. x_link' \in [Clients -> {"new", "backlog", "open", "closed"}] /\ x_link' = x_link
    BY <1>1 DEF LoopIInv, XSockets, XTyped
  <2> QED
    BY <1>1, <1>3, <2>1, RefuseSockets DEF LoopIInv
<1>5. LoopTyped'
  BY <1>1, EchoServersAssumption DEF LoopIInv, LoopTyped
<1>6. Attended'
  BY <1>1, <1>3 DEF LoopIInv, Attended
<1> QED
  BY <1>1, <1>4, <1>5, <1>6 DEF LoopIInv

LEMMA LoopServer == ASSUME LoopIInv, Loops!Server \/ Server1!Server PROVE LoopIInv'
<1>1. \/ Loops!StartTCPServer6 \/ Server1!StartTCPServer6
      \/ \E l \in Listeners :
            \/ Loops!AcceptCall(l) \/ Server1!AcceptCall(l)
            \/ Loops!NoThread(l) \/ Server1!NoThread(l)
            \/ Loops!AcceptBreaks(l) \/ Server1!AcceptBreaks(l)
      \/ \E fd \in Fds :
            \/ Loops!RecvCall(fd) \/ Server1!RecvCall(fd)
            \/ Loops!SendCall(fd) \/ Server1!SendCall(fd)
            \/ Loops!CloseCall(fd) \/ Server1!CloseCall(fd)
            \/ Loops!NonblockSend(fd) \/ Server1!NonblockSend(fd)
            \/ Loops!SendAgain(fd) \/ Server1!SendAgain(fd)
            \/ Loops!SendKills(fd) \/ Server1!SendKills(fd)
  BY SameTypes DEF Loops!Server, Loops!ServerMain, Loops!ProcessClient,
                   Server1!Server, Server1!ServerMain, Server1!ProcessClient
<1> QED
  BY <1>1, LoopStartStep, LoopAcceptStep, LoopRefuseStep, LoopBreakStep, LoopRecvStep,
     LoopSendStep, LoopCloseStep, LoopNonblockStep, LoopAgainStep, LoopKillStep

LEMMA LoopEnvironment ==
    ASSUME LoopIInv, NEW c \in Clients, RemoteX(c), UNCHANGED <<program, loop, conn, spoilt>>
    PROVE  LoopIInv'
<1>1. /\ XSockets' /\ UNCHANGED <<x_taken, x_out, x_fdt>>
      /\ \A d \in Clients : /\ x_peer[d] = "rst" => x_peer'[d] = "rst"
                            /\ Fins(d) => Fins(d)' \/ x_peer'[d] = "rst"
  BY RemoteSockets DEF LoopIInv
<1> QED
  BY <1>1, LoopRemoteStep

LEMMA LoopUnchanged ==
    ASSUME LoopIInv, UNCHANGED <<x_link, x_peer, x_sent, x_taken, x_out, x_got, x_fdt>>,
           UNCHANGED <<program, loop, conn, spoilt>>
    PROVE  LoopIInv'
<1>1. XSockets'
  BY DEF LoopIInv, XSockets, XTyped, Connections, InTime
<1> QED
  BY <1>1, LoopRemoteStep DEF Fins

LEMMA LoopNext ==
    ASSUME LoopIInv, [Loops!Next]_(Loops!vars) PROVE LoopIInv'
<1>1. CASE Loops!Environment
  <2>1. PICK c \in Clients : RemoteX(c)
    BY <1>1 DEF Loops!Environment, RemoteX
  <2>2. UNCHANGED <<program, loop, conn, spoilt>>
    BY <1>1 DEF Loops!Environment, Loops!server
  <2> QED
    BY <2>1, <2>2, LoopEnvironment
<1>2. CASE UNCHANGED Loops!vars
  <2>1. /\ UNCHANGED <<x_link, x_peer, x_sent, x_taken, x_out, x_got, x_fdt>>
        /\ UNCHANGED <<program, loop, conn, spoilt>>
    BY <1>2 DEF Loops!vars, Loops!sockets, Loops!server
  <2> QED
    BY <2>1, LoopUnchanged
<1> QED
  BY <1>1, <1>2, LoopServer DEF Loops!Next

LEMMA LoopInit == ASSUME Loops!Init PROVE LoopIInv
<1>1. XSockets /\ \A f \in Fds : x_fdt[f] = IF f = listenfd THEN listen_sock ELSE Free
  <2>1. Loops!SocketsInit([l \in Listeners |-> IF l = listen_sock THEN 3 ELSE 0])
    BY DEF Loops!Init
  <2> QED
    BY <2>1, FirstSocket, SameTypes, Zenon DEF Loops!SocketsInit
<1>2. /\ loop = [l \in Listeners |-> IF l = listen_sock THEN "runs" ELSE "new"]
      /\ conn = [fd \in Fds |-> [at |-> "none", buf |-> <<>>]] /\ spoilt = {}
      /\ \A c \in Clients : x_out[c] = <<>>
  BY SameTypes DEF Loops!Init, Loops!Unserved, Loops!SocketsInit
<1>3. LoopTyped
  <2>1. PICK u : u = [at |-> "none", buf |-> <<>>]
    BY Zenon
  <2>2. u \in [at: {"none", "recv", "send", "SEND_AGAIN", "close"}, buf: Seq(Bytes)]
    BY <2>1
  <2>3. conn = [fd \in Fds |-> u]
    BY <1>2, <2>1
  <2> QED
    BY <1>2, <2>2, <2>3 DEF LoopTyped
<1>4. \A f \in Fds : x_fdt[f] \notin Clients /\ conn[f].at = "none"
  BY <1>1, <1>2, Descriptors
<1>5. Attended /\ OneLoop
  BY <1>2, <1>4 DEF Attended, OneLoop
<1>6. OtherDescriptors(loop[listen_sock] = "runs")
  BY <1>1, <1>2, <1>4, Descriptors DEF OtherDescriptors
<1>7. LoopBooks
  <2>1. ASSUME NEW c \in Clients PROVE InOrderTo(c)
    <3>1. Len(x_out[c]) = 0
      BY <1>2
    <3> QED
      BY <3>1 DEF InOrderTo
  <2> QED
    BY <1>4, <2>1 DEF LoopBooks
<1> QED
  BY <1>1, <1>2, <1>3, <1>5, <1>6, <1>7 DEF LoopIInv

LEMMA Backlogged ==
    ASSUME LoopIInv, program # "Server", NEW c \in Clients \ spoilt
    PROVE  /\ x_out[c] = Stream(c, Len(x_out[c]))
           /\ \A fd \in Fds : x_fdt[fd] = c /\ conn[fd].at # "close" =>
                                 x_out[c] \o conn[fd].buf = Stream(c, x_taken[c])
<1>1. PICK s \in Seq(Bytes) : s = x_out[c]
  BY DEF LoopIInv, XSockets, XTyped
<1>2. c \in Clients /\ \A m \in 1 .. Len(s) : s[m] = <<c, m>>
  BY <1>1 DEF LoopIInv, LoopBooks, InOrderTo
<1>3. s = Stream(c, Len(s))
  BY <1>2, WholeStream
<1>4. ASSUME NEW fd \in Fds, x_fdt[fd] = c, conn[fd].at # "close"
      PROVE  x_out[c] \o conn[fd].buf = Stream(c, x_taken[c])
  <2>1. PICK b \in Seq(Bytes) : b = conn[fd].buf
    BY DEF LoopIInv, LoopTyped
  <2>2. /\ x_taken[c] = Len(s) + Len(b)
        /\ \A m \in 1 .. Len(b) : b[m] = <<c, Len(s) + m>>
    BY <1>1, <1>4, <2>1, Zenon DEF LoopIInv, LoopBooks, InAnswer
  <2>3. PICK t : t = s \o b
    BY Zenon
  <2>4. /\ t \in Seq(Bytes) /\ Len(t) = Len(s) + Len(b) /\ Len(s) \in Nat /\ Len(b) \in Nat
        /\ \A j \in 1 .. (Len(s) + Len(b)) : t[j] = IF j <= Len(s) THEN s[j] ELSE b[j - Len(s)]
    BY ONLY <2>3, s \in Seq(Bytes), b \in Seq(Bytes)
  <2>5. ASSUME NEW m \in 1 .. Len(t) PROVE t[m] = <<c, m>>
    <3>1. CASE m <= Len(s)
      BY <1>2, <2>4, <3>1
    <3>2. CASE m > Len(s)
      <4>1. m - Len(s) \in 1 .. Len(b) /\ Len(s) + (m - Len(s)) = m
        BY <2>4, <3>2
      <4>2. b[m - Len(s)] = <<c, Len(s) + (m - Len(s))>>
        BY <2>2, <4>1
      <4> QED
        BY <2>4, <3>2, <4>1, <4>2
    <3> QED
      BY <2>4, <3>1, <3>2
  <2>6. t = Stream(c, Len(t))
    BY <1>2, <2>4, <2>5, WholeStream
  <2> QED
    BY <1>1, <2>1, <2>2, <2>3, <2>4, <2>6, Zenon
<1> QED
  BY <1>1, <1>3, <1>4, Zenon

LEMMA LoopEchoes == ASSUME LoopIInv PROVE Loops!EchoUntilFull
<1> SUFFICES ASSUME program # "Server", NEW c \in Clients \ spoilt
             PROVE  /\ x_out[c] = Loops!Stream(c, Len(x_out[c]))
                    /\ \A fd \in Fds : x_fdt[fd] = c /\ conn[fd].at # "close" =>
                          x_out[c] \o conn[fd].buf = Loops!Stream(c, x_taken[c])
  BY SameTypes, Zenon DEF Loops!EchoUntilFull, Loops!Echoes
<1> QED
  BY Backlogged, Zenon DEF Loops!Stream, Stream

(* What the code that serves a connection has in its buffer fits what it   *)
(* received and sent.  See LoopIInv.                                       *)
THEOREM LoopInvariance == Loops!Spec => []LoopIInv
<1>1. Loops!Init => LoopIInv
  BY LoopInit
<1>2. LoopIInv /\ [Loops!Next]_(Loops!vars) => LoopIInv'
  BY LoopNext
<1> QED
  BY <1>1, <1>2, PTL DEF Loops!Spec

(* The servers that block in send() echo every byte once and in order, for *)
(* any number of threads and any size of the buffers; the non-blocking one *)
(* does until its send() meets a full buffer.                              *)
THEOREM EchoesUntilFull == Loops!Spec => []Loops!EchoUntilFull
<1>1. LoopIInv => Loops!EchoUntilFull
  BY LoopEchoes
<1> QED
  BY <1>1, LoopInvariance, PTL

-----------------------------------------------------------------------------
(* The server with window messages. *)

Messages == [sock: Fds, event: Async!Events, error: BOOLEAN, of: Clients \cup {None}]

AsyncTyped ==
    /\ a_pc \in {"loop", "write", "crash"}
    /\ wParam \in Fds
    /\ SocketInfoList \subseteq Fds
    /\ a_info \in [Fds -> Async!SOCKETINFO]
    /\ enabled \in [Fds -> SUBSET Async!Events]
    /\ misled \subseteq Clients
    /\ queue \in Seq(Messages)

(* The list has the connections, Winsock watches them and the listener. *)
Listed == \A fd \in Fds : fd \in SocketInfoList <=> x_fdt[fd] \in Clients
Watched ==
    \A fd \in Fds : \A event \in enabled[fd] :
       IF event = "FD_ACCEPT" THEN fd = listenfd ELSE fd \in SocketInfoList

(* What a message says was so when it was posted, and still is. *)
Truthful(m) ==
    /\ m.error => m.event = "FD_CLOSE"
    /\ m.event = "FD_ACCEPT" => m.sock = listenfd
    /\ m.event # "FD_ACCEPT" => m.of \in Clients /\ x_link[m.of] \in {"open", "closed"}
    /\ m.event = "FD_CLOSE" => x_peer[m.of] # "up"

(* Is there a message about an event of c on fd, and is there but one? *)
IsFor(m, fd, event, c) == m.sock = fd /\ m.event = event /\ m.of = c
HasIn(q, fd, event, c) == \E k \in DOMAIN q : IsFor(q[k], fd, event, c)
OnceIn(q, fd, event, c) ==
    \A k, l \in DOMAIN q : IsFor(q[k], fd, event, c) /\ IsFor(q[l], fd, event, c) => k = l
Waits(fd, event, c) == HasIn(queue, fd, event, c)

Delayed(fd) == a_info[fd].recvdelayed
Busy(fd) == a_info[fd].recvbytes > a_info[fd].sendbytes
Writes(fd) == a_pc = "write" /\ wParam = fd

(* OneReadMessage, without counting: the right to call recv() is in one    *)
(* place only, a full buffer will be emptied; and a recv() that was        *)
(* announced finds something.                                              *)
RightToRead(fd, c) ==
    /\ OnceIn(queue, fd, "FD_READ", c)
    /\ "FD_READ" \in enabled[fd] \/ Waits(fd, "FD_READ", c) \/ Delayed(fd)
    /\ "FD_READ" \in enabled[fd] => ~ Waits(fd, "FD_READ", c) /\ ~ Delayed(fd)
    /\ Waits(fd, "FD_READ", c) => ~ Delayed(fd)
    /\ Delayed(fd) => Busy(fd)
    /\ Busy(fd) => \/ Writes(fd)
                   \/ "FD_WRITE" \in enabled[fd]
                   \/ Waits(fd, "FD_WRITE", c)
    /\ Waits(fd, "FD_READ", c) \/ Delayed(fd) => x_taken[c] < x_sent[c] \/ x_peer[c] # "up"

AsyncBooks ==
    \A fd \in Fds, c \in Clients : x_fdt[fd] = c =>
       /\ Booked(a_info[fd], c, x_taken[c], Len(x_out[c]))
       /\ c \notin misled => RightToRead(fd, c)

AsyncIInv ==
    /\ XSockets /\ OtherDescriptors(a_pc # "crash") /\ AsyncTyped /\ Listed /\ Watched
    /\ a_pc = "write" => wParam \in SocketInfoList
    /\ a_pc = "crash" => SocketInfoList = {}
    /\ \A k \in DOMAIN queue : Truthful(queue[k])
    /\ \A c \in Clients : InOrderTo(c)
    /\ AsyncBooks

(* r is q with e at the end; r is q without its head e. *)
AfterPost(q, e, r) ==
    /\ r \in Seq(Messages)
    /\ \A k \in DOMAIN r : r[k] = e \/ \E l \in DOMAIN q : r[k] = q[l]
    /\ \A fd, event, c :
          /\ HasIn(r, fd, event, c) <=> HasIn(q, fd, event, c) \/ IsFor(e, fd, event, c)
          /\ OnceIn(q, fd, event, c) /\ ~ (HasIn(q, fd, event, c) /\ IsFor(e, fd, event, c))
                => OnceIn(r, fd, event, c)

AfterFetch(q, e, r) ==
    /\ r \in Seq(Messages) /\ e \in Messages
    /\ \A k \in DOMAIN r : \E l \in DOMAIN q : r[k] = q[l]
    /\ \E l \in DOMAIN q : e = q[l]
    /\ \A fd, event, c :
          /\ OnceIn(q, fd, event, c) => OnceIn(r, fd, event, c)
          /\ OnceIn(q, fd, event, c) /\ IsFor(e, fd, event, c) => ~ HasIn(r, fd, event, c)
          /\ ~ IsFor(e, fd, event, c) => (HasIn(r, fd, event, c) <=> HasIn(q, fd, event, c))
          /\ IsFor(e, fd, event, c) => HasIn(q, fd, event, c)

LEMMA Posted ==
    ASSUME NEW q \in Seq(Messages), NEW e \in Messages, NEW r, r = Append(q, e)
    PROVE  AfterPost(q, e, r)
<1> DEFINE S == Messages
<1> HIDE DEF S
<1> SUFFICES ASSUME q \in Seq(S), e \in S PROVE AfterPost(q, e, r)
  BY DEF S
<1>1. /\ r \in Seq(S) /\ Len(q) \in Nat
      /\ DOMAIN q = 1 .. Len(q) /\ DOMAIN r = 1 .. (Len(q) + 1)
      /\ r[Len(q) + 1] = e /\ \A k \in 1 .. Len(q) : r[k] = q[k]
  OBVIOUS
<1>2. \A k \in DOMAIN r : (k = Len(q) + 1 /\ r[k] = e) \/ (k \in DOMAIN q /\ r[k] = q[k])
  BY <1>1
<1>3. \A k \in DOMAIN q : k \in DOMAIN r /\ r[k] = q[k]
  BY <1>1
<1>4. Len(q) + 1 \in DOMAIN r /\ r[Len(q) + 1] = e
  BY <1>1
<1>5. \A fd, event, c :
         HasIn(r, fd, event, c) <=> HasIn(q, fd, event, c) \/ IsFor(e, fd, event, c)
  BY <1>2, <1>3, <1>4 DEF HasIn
<1>6. ASSUME NEW fd, NEW event, NEW c, OnceIn(q, fd, event, c),
             ~ (HasIn(q, fd, event, c) /\ IsFor(e, fd, event, c))
      PROVE  OnceIn(r, fd, event, c)
  BY <1>2, <1>6 DEF OnceIn, HasIn
<1> QED
  BY <1>1, <1>2, <1>5, <1>6 DEF AfterPost, S

LEMMA Fetched ==
    ASSUME NEW q \in Seq(Messages), q # <<>>, NEW r, r = Tail(q), NEW e, e = Head(q)
    PROVE  AfterFetch(q, e, r)
<1> DEFINE S == Messages
<1> HIDE DEF S
<1> SUFFICES ASSUME q \in Seq(S) PROVE AfterFetch(q, e, r)
  BY DEF S
<1>1. /\ r \in Seq(S) /\ Len(q) \in Nat /\ Len(q) > 0 /\ e = q[1] /\ e \in S
      /\ DOMAIN q = 1 .. Len(q) /\ DOMAIN r = 1 .. (Len(q) - 1)
      /\ \A k \in 1 .. (Len(q) - 1) : r[k] = q[k + 1]
  OBVIOUS
<1>2. \A k \in DOMAIN r : k + 1 \in DOMAIN q /\ r[k] = q[k + 1] /\ k + 1 # 1
  BY <1>1
<1>3. ASSUME NEW k \in DOMAIN q, k # 1 PROVE k - 1 \in DOMAIN r /\ r[k - 1] = q[k]
  <2>1. k \in Nat /\ k - 1 \in 1 .. (Len(q) - 1) /\ (k - 1) + 1 = k
    BY <1>1, <1>3
  <2>2. r[k - 1] = q[(k - 1) + 1]
    BY <1>1, <2>1
  <2> QED
    BY <1>1, <2>1, <2>2
<1>4. 1 \in DOMAIN q /\ q[1] = e
  BY <1>1
<1>5. ASSUME NEW fd, NEW event, NEW c, OnceIn(q, fd, event, c) PROVE OnceIn(r, fd, event, c)
  <2> SUFFICES ASSUME NEW k \in DOMAIN r, NEW l \in DOMAIN r,
                      IsFor(r[k], fd, event, c), IsFor(r[l], fd, event, c)
               PROVE  k = l
    BY DEF OnceIn
  <2>1. k + 1 = l + 1
    BY <1>2, <1>5 DEF OnceIn
  <2> QED
    BY <1>1, <2>1
<1>6. ASSUME NEW fd, NEW event, NEW c, OnceIn(q, fd, event, c), IsFor(e, fd, event, c)
      PROVE  ~ HasIn(r, fd, event, c)
  <2> SUFFICES ASSUME NEW k \in DOMAIN r, IsFor(r[k], fd, event, c) PROVE FALSE
    BY DEF HasIn
  <2>1. k + 1 = 1
    BY <1>2, <1>4, <1>6 DEF OnceIn
  <2> QED
    BY <1>2, <2>1
<1>7. ASSUME NEW fd, NEW event, NEW c, ~ IsFor(e, fd, event, c)
      PROVE  HasIn(r, fd, event, c) <=> HasIn(q, fd, event, c)
  <2>1. HasIn(r, fd, event, c) => HasIn(q, fd, event, c)
    BY <1>2 DEF HasIn
  <2>2. ASSUME NEW k \in DOMAIN q, IsFor(q[k], fd, event, c) PROVE HasIn(r, fd, event, c)
    <3>1. k # 1
      BY <1>4, <1>7, <2>2
    <3> QED
      BY <1>3, <2>2, <3>1, Zenon DEF HasIn
  <2> QED
    BY <2>1, <2>2 DEF HasIn
<1>8. \A fd, event, c : IsFor(e, fd, event, c) => HasIn(q, fd, event, c)
  BY <1>4 DEF HasIn
<1> QED
  BY <1>1, <1>2, <1>4, <1>5, <1>6, <1>7, <1>8 DEF AfterFetch, S

(* The message at the head of the queue is taken off, one is added, or     *)
(* both: what it holds about other sockets stays.                          *)
LEMMA QueueStep ==
    ASSUME queue \in Seq(Messages), NEW fd \in Fds, NEW rest,
           \/ rest = queue
           \/ /\ queue # <<>> /\ rest = Tail(queue)
              /\ Head(queue).sock = fd \/ Head(queue).event = "FD_ACCEPT",
           NEW e, queue' # rest => e \in Messages /\ e.sock = fd /\ queue' = Append(rest, e)
    PROVE  /\ rest \in Seq(Messages) /\ queue' \in Seq(Messages)
           /\ \A k \in DOMAIN queue' :
                 \/ queue' # rest /\ queue'[k] = e
                 \/ \E l \in DOMAIN queue : queue'[k] = queue[l]
           /\ \A f, event, d :
                 f # fd /\ event # "FD_ACCEPT" =>
                    /\ HasIn(queue', f, event, d) <=> HasIn(queue, f, event, d)
                    /\ OnceIn(queue, f, event, d) => OnceIn(queue', f, event, d)
<1>1. /\ rest \in Seq(Messages)
      /\ \A k \in DOMAIN rest : \E l \in DOMAIN queue : rest[k] = queue[l]
      /\ \A f, event, d :
            f # fd /\ event # "FD_ACCEPT" =>
               /\ HasIn(rest, f, event, d) <=> HasIn(queue, f, event, d)
               /\ OnceIn(queue, f, event, d) => OnceIn(rest, f, event, d)
  <2>1. CASE rest = queue
    BY <2>1
  <2>2. CASE /\ queue # <<>> /\ rest = Tail(queue)
             /\ Head(queue).sock = fd \/ Head(queue).event = "FD_ACCEPT"
    <3>1. PICK m : m = Head(queue)
      OBVIOUS
    <3>2. \A f, event, d : f # fd /\ event # "FD_ACCEPT" => ~ IsFor(m, f, event, d)
      BY <2>2, <3>1 DEF IsFor
    <3>3. PICK q \in Seq(Messages) : q = queue
      OBVIOUS
    <3>5. q \in Seq(Messages) /\ q # <<>> /\ rest = Tail(q) /\ m = Head(q)
      BY <2>2, <3>1, <3>3
    <3>4. AfterFetch(q, m, rest)
      BY ONLY <3>5, Fetched, Zenon
    <3> QED
      BY <3>2, <3>3, <3>4 DEF AfterFetch
  <2> QED
    BY <2>1, <2>2
<1>2. CASE queue' = rest
  BY <1>1, <1>2
<1>3. CASE queue' # rest
  <2>1. \A f, event, d : f # fd => ~ IsFor(e, f, event, d)
    BY <1>3 DEF IsFor
  <2>2. PICK r : r = queue'
    OBVIOUS
  <2>4. rest \in Seq(Messages) /\ e \in Messages /\ r = Append(rest, e)
    BY <1>1, <1>3, <2>2
  <2>3. AfterPost(rest, e, r)
    BY ONLY <2>4, Posted, Zenon
  <2> QED
    BY <1>1, <1>3, <2>1, <2>2, <2>3 DEF AfterPost
<1> QED
  BY <1>2, <1>3

LEMMA TruthfulKept ==
    ASSUME NEW m, Truthful(m),
           \A d \in Clients : /\ x_peer[d] # "up" => x_peer'[d] # "up"
                              /\ x_link[d] \in {"open", "closed"} =>
                                    x_link'[d] \in {"open", "closed"}
    PROVE  Truthful(m)'
  BY DEF Truthful

(* A step that is about fd, and there about c if it is a connection.       *)
LEMMA AsyncStep ==
    ASSUME AsyncIInv, XSockets', OtherDescriptors(a_pc # "crash")', AsyncTyped', Watched',
           NEW fd \in Fds, NEW c, c = x_fdt'[fd],
           fd \in SocketInfoList' <=> c \in Clients,
           a_pc' = "write" => wParam' \in SocketInfoList',
           a_pc' = "crash" => SocketInfoList' = {},
           \A f \in Fds : f # fd =>
              /\ x_fdt'[f] = x_fdt[f] /\ a_info'[f] = a_info[f]
              /\ f \in SocketInfoList' <=> f \in SocketInfoList
              /\ \A event \in {"FD_READ", "FD_WRITE"} :
                    event \in enabled'[f] <=> event \in enabled[f]
              /\ Writes(f) => Writes(f)'
              /\ \A event \in {"FD_READ", "FD_WRITE"}, d \in Clients :
                    /\ HasIn(queue', f, event, d) <=> HasIn(queue, f, event, d)
                    /\ OnceIn(queue, f, event, d) => OnceIn(queue', f, event, d),
           (\A k \in DOMAIN queue : Truthful(queue[k]))',
           misled \subseteq misled',
           \A d \in Clients : /\ x_peer[d] # "up" => x_peer'[d] # "up"
                              /\ x_sent'[d] >= x_sent[d]
                              /\ d # c => x_taken'[d] = x_taken[d] /\ x_out'[d] = x_out[d],
           c \in Clients =>
              /\ InOrderTo(c)'
              /\ Booked(a_info'[fd], c, x_taken'[c], Len(x_out'[c]))
              /\ c \notin misled' => RightToRead(fd, c)'
    PROVE  AsyncIInv'
<1>1. Listed'
  BY DEF AsyncIInv, Listed
<1>2. ASSUME NEW d \in Clients PROVE InOrderTo(d)'
  BY DEF AsyncIInv, InOrderTo
<1>3. ASSUME NEW f \in Fds, NEW d \in Clients, x_fdt'[f] = d
      PROVE  /\ Booked(a_info'[f], d, x_taken'[d], Len(x_out'[d]))
             /\ d \notin misled' => RightToRead(f, d)'
  <2>1. CASE f = fd
    BY <1>3, <2>1
  <2>2. CASE f # fd
    <3>1. /\ x_fdt[f] = d /\ a_info'[f] = a_info[f] /\ d # c
          /\ x_taken'[d] = x_taken[d] /\ x_out'[d] = x_out[d]
      BY <1>3, <2>2 DEF XSockets, Connections
    <3>2. /\ Booked(a_info[f], d, x_taken[d], Len(x_out[d]))
          /\ d \notin misled => RightToRead(f, d)
      BY <3>1 DEF AsyncIInv, AsyncBooks
    <3>3. ASSUME d \notin misled' PROVE RightToRead(f, d)'
      <4>1. RightToRead(f, d)
        BY <3>2, <3>3
      <4>2. Delayed(f)' <=> Delayed(f)
        BY <3>1, Zenon DEF Delayed
      <4>3. Busy(f)' <=> Busy(f)
        BY <3>1 DEF Busy
      <4>4. /\ "FD_READ" \in enabled'[f] <=> "FD_READ" \in enabled[f]
            /\ "FD_WRITE" \in enabled'[f] <=> "FD_WRITE" \in enabled[f]
            /\ Waits(f, "FD_READ", d)' <=> Waits(f, "FD_READ", d)
            /\ Waits(f, "FD_WRITE", d)' <=> Waits(f, "FD_WRITE", d)
            /\ OnceIn(queue, f, "FD_READ", d) => OnceIn(queue', f, "FD_READ", d)
            /\ Writes(f) => Writes(f)'
        BY <2>2 DEF Waits
      <4>5. x_taken[d] < x_sent[d] \/ x_peer[d] # "up" =>
            x_taken'[d] < x_sent'[d] \/ x_peer'[d] # "up"
        <5>1. /\ x_taken[d] \in Nat /\ x_sent[d] \in Nat /\ x_sent'[d] \in Nat
              /\ x_taken'[d] = x_taken[d] /\ x_sent'[d] >= x_sent[d]
              /\ x_peer[d] # "up" => x_peer'[d] # "up"
          BY <3>1 DEF AsyncIInv, XSockets, XTyped
        <5> QED
          BY ONLY <5>1
      <4> QED
        BY ONLY <4>1, <4>2, <4>3, <4>4, <4>5, Zenon DEF RightToRead
    <3> QED
      BY <3>1, <3>2, <3>3
  <2> QED
    BY <2>1, <2>2
<1>4. AsyncBooks'
  BY <1>3 DEF AsyncBooks
<1> QED
  BY <1>1, <1>2, <1>4 DEF AsyncIInv

LEMMA ConnectionIs ==
    ASSUME AsyncIInv, NEW fd \in Fds, x_fdt[fd] \in Clients
    PROVE  LET c == x_fdt[fd]
           IN  /\ x_link[c] = "open" /\ fd \in SocketInfoList /\ InOrderTo(c)
               /\ Booked(a_info[fd], c, x_taken[c], Len(x_out[c]))
               /\ c \notin misled => RightToRead(fd, c)
               /\ a_info[fd] \in Async!SOCKETINFO
               /\ a_info[fd].buf \in Seq(Bytes)
               /\ a_info[fd].recvbytes \in Nat /\ a_info[fd].sendbytes \in Nat
               /\ x_taken[c] \in Nat /\ x_sent[c] \in Nat
               /\ x_out[c] \in Seq(Bytes) /\ Len(x_out[c]) \in Nat
               /\ fd # listenfd
<1> DEFINE c == x_fdt[fd]
<1>1. x_link[c] = "open" /\ fd \in SocketInfoList /\ InOrderTo(c)
  BY DEF AsyncIInv, XSockets, Connections, Listed
<1>2. /\ Booked(a_info[fd], c, x_taken[c], Len(x_out[c]))
      /\ c \notin misled => RightToRead(fd, c)
  BY DEF AsyncIInv, AsyncBooks
<1>3. a_info[fd] \in Async!SOCKETINFO
  BY DEF AsyncIInv, AsyncTyped
<1>4. /\ a_info[fd].buf \in Seq(Bytes)
      /\ a_info[fd].recvbytes \in Nat /\ a_info[fd].sendbytes \in Nat
  BY <1>3, SameTypes DEF Async!SOCKETINFO
<1>5. /\ x_taken[c] \in Nat /\ x_sent[c] \in Nat
      /\ x_out[c] \in Seq(Bytes) /\ Len(x_out[c]) \in Nat
  BY DEF AsyncIInv, XSockets, XTyped
<1>6. fd # listenfd
  <2>1. a_pc # "crash"
    BY <1>1 DEF AsyncIInv
  <2> QED
    BY <2>1, Descriptors DEF AsyncIInv, OtherDescriptors
<1> QED
  BY <1>1, <1>2, <1>3, <1>4, <1>5, <1>6

(* Winsock posts a message. *)
LEMMA AsyncPostStep ==
    ASSUME AsyncIInv, NEW fd \in Fds, Async!PostEvent(fd) PROVE AsyncIInv'
<1>1. PICK event \in enabled[fd], error \in BOOLEAN :
         /\ a_pc # "crash" /\ Async!Occurs(fd, event, error)
         /\ queue' = Append(queue, Async!Message(fd, event, error))
         /\ enabled' = [enabled EXCEPT ![fd] = @ \ {event}]
         /\ UNCHANGED <<x_link, x_peer, x_sent, x_taken, x_out, x_got, x_fdt>>
         /\ UNCHANGED <<a_pc, wParam, SocketInfoList, a_info, misled>>
  BY Zenon DEF Async!PostEvent, Async!sockets
<1>2. PICK c : c = x_fdt[fd]
  OBVIOUS
<1>3. PICK e : e = Async!Message(fd, event, error)
  OBVIOUS
<1>4. /\ event \in Async!Events
      /\ IF event = "FD_ACCEPT" THEN fd = listenfd ELSE fd \in SocketInfoList /\ c \in Clients
  BY <1>2 DEF AsyncIInv, AsyncTyped, Watched, Listed
<1>5. /\ e = [sock |-> fd, event |-> event, error |-> error, of |-> IF c \in Clients THEN c ELSE None]
      /\ e \in Messages
  BY <1>2, <1>3, <1>4 DEF Async!Message, Messages
<1>6. /\ e.sock = fd /\ e.event = event /\ (c \in Clients => e.of = c)
      /\ event = "FD_ACCEPT" => ~ error
      /\ error => event = "FD_CLOSE"
      /\ event = "FD_READ" => x_sent[c] - x_taken[c] > 0
      /\ event = "FD_CLOSE" => x_peer[c] # "up"
  <2>1. e.sock = fd /\ e.event = event /\ (c \in Clients => e.of = c)
    BY <1>5
  <2>2. CASE event = "FD_ACCEPT"
    BY <1>1, <1>2, <2>1, <2>2 DEF Async!Occurs
  <2>3. CASE event = "FD_READ"
    BY <1>1, <1>2, <2>1, <2>3 DEF Async!Occurs, Async!Unread
  <2>4. CASE event = "FD_WRITE"
    BY <1>1, <1>2, <2>1, <2>4 DEF Async!Occurs
  <2>5. CASE event = "FD_CLOSE"
    BY <1>1, <1>2, <2>1, <2>5 DEF Async!Occurs, Async!RecvEof, Async!RecvError
  <2> QED
    BY <1>4, <2>1, <2>2, <2>3, <2>4, <2>5 DEF Async!Events
<1>7. Truthful(e)'
  <2>1. e.error => error
    BY <1>5, Zenon
  <2>2. c \in Clients => x_link'[c] = "open" /\ x_peer'[c] = x_peer[c]
    BY <1>1, <1>2, ConnectionIs
  <2> QED
    BY <1>4, <1>6, <2>1, <2>2 DEF Truthful
<1>8. queue \in Seq(Messages) /\ queue' = Append(queue, e)
  BY <1>1, <1>3 DEF AsyncIInv, AsyncTyped
<1>9. /\ queue' \in Seq(Messages)
      /\ \A k \in DOMAIN queue' : queue'[k] = e \/ \E l \in DOMAIN queue : queue'[k] = queue[l]
      /\ \A f, ev, d :
            f # fd /\ ev # "FD_ACCEPT" =>
               /\ HasIn(queue', f, ev, d) <=> HasIn(queue, f, ev, d)
               /\ OnceIn(queue, f, ev, d) => OnceIn(queue', f, ev, d)
  BY <1>5, <1>6, <1>8, QueueStep
<1>10. (\A k \in DOMAIN queue : Truthful(queue[k]))'
  <2> SUFFICES ASSUME NEW m, \E k \in DOMAIN queue' : queue'[k] = m PROVE Truthful(m)'
    OBVIOUS
  <2>1. m = e \/ Truthful(m)
    BY <1>9 DEF AsyncIInv
  <2> QED
    BY <1>1, <1>7, <2>1, TruthfulKept
<1>11. XSockets' /\ OtherDescriptors(a_pc # "crash")'
  BY <1>1 DEF AsyncIInv, XSockets, XTyped, Connections, InTime, OtherDescriptors
<1>12. /\ \A f \in Fds : enabled'[f] = IF f = fd THEN enabled[fd] \ {event} ELSE enabled[f]
       /\ enabled' \in [Fds -> SUBSET Async!Events]
  BY <1>1 DEF AsyncIInv, AsyncTyped
<1>13. AsyncTyped' /\ Watched'
  BY <1>1, <1>9, <1>12 DEF AsyncIInv, AsyncTyped, Watched
<1>14. ASSUME c \in Clients, c \notin misled PROVE RightToRead(fd, c)'
  <2>1. RightToRead(fd, c)
    BY <1>2, <1>14, ConnectionIs
  <2>2. \A ev : IsFor(e, fd, ev, c) <=> ev = event
    BY <1>6, <1>14 DEF IsFor
  <2>3. PICK q, r : q = queue /\ r = queue'
    OBVIOUS
  <2>4. AfterPost(q, e, r)
    <3>1. q \in Seq(Messages) /\ e \in Messages /\ r = Append(q, e)
      BY <1>5, <1>8, <2>3
    <3> QED
      BY ONLY <3>1, Posted, Zenon
  <2>5. /\ \A ev : Waits(fd, ev, c)' <=> Waits(fd, ev, c) \/ ev = event
        /\ \A ev : OnceIn(queue, fd, ev, c) /\ ~ (Waits(fd, ev, c) /\ ev = event) =>
                      OnceIn(queue', fd, ev, c)
    BY <2>2, <2>3, <2>4 DEF AfterPost, Waits
  <2>6. Delayed(fd)' <=> Delayed(fd)
    BY <1>1, Zenon DEF Delayed
  <2>7. (Busy(fd)' <=> Busy(fd)) /\ (Writes(fd)' <=> Writes(fd))
    BY <1>1 DEF Busy, Writes
  <2>8. event = "FD_READ" => x_taken[c] < x_sent[c]
    <3>1. x_taken[c] \in Nat /\ x_sent[c] \in Nat
      BY <1>2, <1>14, ConnectionIs
    <3> QED
      BY <1>6, <3>1
  <2>9. /\ x_taken' = x_taken /\ x_sent' = x_sent /\ x_peer' = x_peer /\ event \in enabled[fd]
        /\ enabled'[fd] = enabled[fd] \ {event}
    BY <1>1, <1>12
  <2> QED
    BY ONLY <2>1, <2>5, <2>6, <2>7, <2>8, <2>9 DEF RightToRead
<1>15. c \in Clients => InOrderTo(c)' /\ Booked(a_info'[fd], c, x_taken'[c], Len(x_out'[c]))
  <2>1. c \in Clients => InOrderTo(c) /\ Booked(a_info[fd], c, x_taken[c], Len(x_out[c]))
    BY <1>2, ConnectionIs
  <2> QED
    BY <1>1, <2>1 DEF InOrderTo
<1>16. \A f \in Fds : f # fd =>
          /\ x_fdt'[f] = x_fdt[f] /\ a_info'[f] = a_info[f]
          /\ f \in SocketInfoList' <=> f \in SocketInfoList
          /\ \A ev \in {"FD_READ", "FD_WRITE"} : ev \in enabled'[f] <=> ev \in enabled[f]
          /\ Writes(f) => Writes(f)'
          /\ \A ev \in {"FD_READ", "FD_WRITE"}, d \in Clients :
                /\ HasIn(queue', f, ev, d) <=> HasIn(queue, f, ev, d)
                /\ OnceIn(queue, f, ev, d) => OnceIn(queue', f, ev, d)
  BY <1>1, <1>9, <1>12 DEF Writes
<1>17. /\ fd \in SocketInfoList' <=> c \in Clients
       /\ a_pc' = "write" => wParam' \in SocketInfoList'
       /\ a_pc' = "crash" => SocketInfoList' = {}
       /\ misled \subseteq misled' /\ c = x_fdt'[fd]
       /\ \A d \in Clients : /\ x_peer[d] # "up" => x_peer'[d] # "up"
                             /\ x_sent'[d] >= x_sent[d]
                             /\ d # c => x_taken'[d] = x_taken[d] /\ x_out'[d] = x_out[d]
  <2>1. \A d \in Clients : x_sent'[d] >= x_sent[d]
    BY <1>1 DEF AsyncIInv, XSockets, XTyped
  <2> QED
    BY <1>1, <1>2, <2>1 DEF AsyncIInv, Listed
<1> QED
  BY <1>1, <1>10, <1>11, <1>13, <1>14, <1>15, <1>16, <1>17, AsyncStep

(* The thread handles the message at the head of the queue, which is about *)
(* fd, or goes on with the one about fd it has taken off before.           *)
LEMMA AsyncHandlerStep ==
    ASSUME AsyncIInv, XSockets', a_pc # "crash", a_pc' \in {"loop", "write"},
           NEW fd \in Fds, NEW c, c = x_fdt'[fd],
           a_pc = "write" => wParam = fd,
           wParam' \in Fds, a_pc' = "write" => wParam' \in SocketInfoList',
           NEW rest,
           \/ rest = queue
           \/ queue # <<>> /\ rest = Tail(queue) /\ Head(queue).sock = fd,
           NEW e,
           queue' # rest => /\ e \in Messages /\ e.sock = fd /\ Truthful(e)'
                            /\ queue' = Append(rest, e),
           x_fdt'[fd] = x_fdt[fd] \/ (x_fdt[fd] \in Clients /\ x_fdt'[fd] = Free),
           SocketInfoList' \subseteq Fds, fd \in SocketInfoList' <=> c \in Clients,
           a_info' \in [Fds -> Async!SOCKETINFO],
           enabled' \in [Fds -> SUBSET Async!Events],
           \A event \in enabled'[fd] :
              IF event = "FD_ACCEPT" THEN fd = listenfd ELSE fd \in SocketInfoList',
           \A f \in Fds : f # fd =>
              /\ x_fdt'[f] = x_fdt[f] /\ a_info'[f] = a_info[f]
              /\ f \in SocketInfoList' <=> f \in SocketInfoList
              /\ enabled'[f] = enabled[f],
           misled \subseteq misled', misled' \subseteq Clients,
           x_peer' = x_peer, x_sent' = x_sent,
           \A d \in Clients :
              /\ x_link[d] \in {"open", "closed"} => x_link'[d] \in {"open", "closed"}
              /\ d # c => x_taken'[d] = x_taken[d] /\ x_out'[d] = x_out[d],
           c \in Clients =>
              /\ InOrderTo(c)'
              /\ Booked(a_info'[fd], c, x_taken'[c], Len(x_out'[c]))
              /\ c \notin misled' => RightToRead(fd, c)'
    PROVE  AsyncIInv'
<1>1. queue \in Seq(Messages)
  BY DEF AsyncIInv, AsyncTyped
<1>2. /\ queue' \in Seq(Messages)
      /\ \A k \in DOMAIN queue' : \/ queue' # rest /\ queue'[k] = e
                                 \/ \E l \in DOMAIN queue : queue'[k] = queue[l]
      /\ \A f, ev, d :
            f # fd /\ ev # "FD_ACCEPT" =>
               /\ HasIn(queue', f, ev, d) <=> HasIn(queue, f, ev, d)
               /\ OnceIn(queue, f, ev, d) => OnceIn(queue', f, ev, d)
  BY <1>1, QueueStep
<1>3. (\A k \in DOMAIN queue : Truthful(queue[k]))'
  <2> SUFFICES ASSUME NEW m, \E k \in DOMAIN queue' : queue'[k] = m PROVE Truthful(m)'
    OBVIOUS
  <2>1. (m = e /\ queue' # rest) \/ Truthful(m)
    BY <1>2 DEF AsyncIInv
  <2> QED
    BY <2>1, TruthfulKept
<1>4. OtherDescriptors(a_pc # "crash")'
  <2>1. OtherDescriptors(TRUE)
    BY Zenon DEF AsyncIInv
  <2>2. OtherDescriptors(TRUE)'
    BY <2>1, Descriptors DEF OtherDescriptors
  <2> QED
    BY <2>2, Zenon
<1>5. AsyncTyped'
  BY <1>2 DEF AsyncTyped
<1>6. Watched'
  <2> SUFFICES ASSUME NEW f \in Fds, NEW event \in enabled'[f]
               PROVE  IF event = "FD_ACCEPT" THEN f = listenfd ELSE f \in SocketInfoList'
    BY DEF Watched
  <2>1. CASE f # fd
    BY <2>1 DEF AsyncIInv, Watched
  <2> QED
    BY <2>1
<1>7. \A f \in Fds : f # fd =>
          /\ x_fdt'[f] = x_fdt[f] /\ a_info'[f] = a_info[f]
          /\ f \in SocketInfoList' <=> f \in SocketInfoList
          /\ \A ev \in {"FD_READ", "FD_WRITE"} : ev \in enabled'[f] <=> ev \in enabled[f]
          /\ Writes(f) => Writes(f)'
          /\ \A ev \in {"FD_READ", "FD_WRITE"}, d \in Clients :
                /\ HasIn(queue', f, ev, d) <=> HasIn(queue, f, ev, d)
                /\ OnceIn(queue, f, ev, d) => OnceIn(queue', f, ev, d)
  BY <1>2 DEF Writes
<1>8. \A d \in Clients : /\ x_peer[d] # "up" => x_peer'[d] # "up"
                         /\ x_sent'[d] >= x_sent[d]
                         /\ d # c => x_taken'[d] = x_taken[d] /\ x_out'[d] = x_out[d]
  BY DEF AsyncIInv, XSockets, XTyped
<1>9. a_pc' = "crash" => SocketInfoList' = {}
  OBVIOUS
<1> QED
  BY <1>3, <1>4, <1>5, <1>6, <1>7, <1>8, <1>9, AsyncStep

(* What the thread learns from the message it takes off the queue, and     *)
(* what misled becomes.                                                    *)
LEMMA MessageIs ==
    ASSUME AsyncIInv, a_pc = "loop", queue # <<>>
    PROVE  /\ Head(queue) \in Messages /\ Head(queue).sock \in Fds
           /\ Truthful(Head(queue))
           /\ AfterFetch(queue, Head(queue), Tail(queue))
<1>1. PICK q \in Seq(Messages) : q = queue
  BY DEF AsyncIInv, AsyncTyped
<1>2. PICK m, r : m = Head(q) /\ r = Tail(q)
  BY Zenon
<1>3. AfterFetch(q, m, r)
  <2>1. q \in Seq(Messages) /\ q # <<>> /\ m = Head(q) /\ r = Tail(q)
    BY <1>1, <1>2
  <2> QED
    BY ONLY <2>1, Fetched, Zenon
<1>4. m \in Messages /\ \E l \in DOMAIN q : m = q[l]
  BY <1>3 DEF AfterFetch
<1>5. m.sock \in Fds
  BY <1>4 DEF Messages
<1>6. Truthful(m)
  BY <1>1, <1>4 DEF AsyncIInv
<1> QED
  BY <1>1, <1>2, <1>3, <1>4, <1>5, <1>6

LEMMA MisledIs ==
    ASSUME AsyncIInv,
           misled' = IF Async!Stale THEN misled \cup ({x_fdt[Async!Msg.sock]} \cap Clients)
                     ELSE misled
    PROVE  /\ misled \subseteq misled' /\ misled' \subseteq Clients
           /\ \A c \in Clients :
                 /\ c \notin misled' => c \notin misled
                 /\ a_pc = "loop" /\ queue # <<>> /\ c = x_fdt[Head(queue).sock]
                       /\ Head(queue).event # "FD_ACCEPT" /\ c \notin misled' =>
                          IsFor(Head(queue), Head(queue).sock, Head(queue).event, c)
<1>1. misled \subseteq Clients
  BY DEF AsyncIInv, AsyncTyped
<1> QED
  BY <1>1 DEF Async!Stale, Async!Msg, IsFor

LEMMA NewInfoIs ==
    /\ Async!NewSocketInfo \in Async!SOCKETINFO
    /\ Async!NewSocketInfo.recvbytes = 0 /\ Async!NewSocketInfo.sendbytes = 0
    /\ ~ Async!NewSocketInfo.recvdelayed
<1>1. PICK u : u = [buf |-> <<>>, recvbytes |-> 0, sendbytes |-> 0, recvdelayed |-> FALSE]
  BY Zenon
<1>2. u = Async!NewSocketInfo
  BY <1>1 DEF Async!NewSocketInfo
<1>3. u.recvbytes = 0 /\ u.sendbytes = 0
  BY <1>1
<1>4. ~ u.recvdelayed
  BY <1>1, Zenon
<1>5. u \in [buf: Seq(Bytes), recvbytes: Nat, sendbytes: Nat, recvdelayed: BOOLEAN]
  BY <1>1
<1> QED
  BY <1>2, <1>3, <1>4, <1>5, SameTypes DEF Async!SOCKETINFO

(* RemoveSocketInfo() leaves nothing of fd and everything of the others.   *)
LEMMA RemoveIs ==
    ASSUME AsyncIInv, NEW fd \in Fds, Async!RemoveSocketInfo(fd)
    PROVE  /\ XSockets' /\ x_fdt'[fd] \notin Clients /\ fd \notin SocketInfoList'
           /\ x_fdt'[fd] = x_fdt[fd] \/ (x_fdt[fd] \in Clients /\ x_fdt'[fd] = Free)
           /\ SocketInfoList' \subseteq Fds
           /\ a_info' \in [Fds -> Async!SOCKETINFO]
           /\ enabled' \in [Fds -> SUBSET Async!Events]
           /\ \A event \in enabled'[fd] : event = "FD_ACCEPT" /\ fd = listenfd
           /\ \A f \in Fds : f # fd =>
                 /\ x_fdt'[f] = x_fdt[f] /\ a_info'[f] = a_info[f]
                 /\ f \in SocketInfoList' <=> f \in SocketInfoList
                 /\ enabled'[f] = enabled[f]
           /\ x_peer' = x_peer /\ x_sent' = x_sent /\ x_taken' = x_taken /\ x_out' = x_out
           /\ \A d \in Clients :
                 x_link[d] \in {"open", "closed"} => x_link'[d] \in {"open", "closed"}
<1>1. CASE fd \in SocketInfoList
  <2>1. x_fdt[fd] \in Clients
    BY <1>1 DEF AsyncIInv, Listed
  <2>2. /\ x_link' = [x_link EXCEPT ![x_fdt[fd]] = "closed"]
        /\ x_fdt' = [x_fdt EXCEPT ![fd] = Free]
        /\ UNCHANGED <<x_peer, x_sent, x_taken, x_out, x_got>>
        /\ SocketInfoList' = SocketInfoList \ {fd}
        /\ a_info' = [a_info EXCEPT ![fd] = Async!NewSocketInfo]
        /\ enabled' = [enabled EXCEPT ![fd] = {}]
    BY <1>1 DEF Async!RemoveSocketInfo, Async!Close
  <2>3. /\ XSockets'
        /\ \A f \in Fds : x_fdt'[f] = IF f = fd THEN Free ELSE x_fdt[f]
        /\ \A c \in Clients : x_link'[c] = IF c = x_fdt[fd] THEN "closed" ELSE x_link[c]
    BY <2>1, <2>2, CloseSockets, Zenon DEF AsyncIInv
  <2>4. /\ a_info' \in [Fds -> Async!SOCKETINFO]
        /\ \A f \in Fds : f # fd => a_info'[f] = a_info[f]
    BY <2>2, NewInfoIs DEF AsyncIInv, AsyncTyped
  <2>5. /\ enabled' \in [Fds -> SUBSET Async!Events] /\ enabled'[fd] = {}
        /\ \A f \in Fds : f # fd => enabled'[f] = enabled[f]
    BY <2>2 DEF AsyncIInv, AsyncTyped
  <2> QED
    BY <2>1, <2>2, <2>3, <2>4, <2>5, Descriptors DEF AsyncIInv, AsyncTyped
<1>2. CASE fd \notin SocketInfoList
  <2>1. /\ UNCHANGED <<x_link, x_peer, x_sent, x_taken, x_out, x_got, x_fdt>>
        /\ UNCHANGED <<SocketInfoList, a_info, enabled>>
    BY <1>2 DEF Async!RemoveSocketInfo, Async!sockets
  <2>2. XSockets'
    BY <2>1 DEF AsyncIInv, XSockets, XTyped, Connections, InTime
  <2> QED
    BY <1>2, <2>1, <2>2 DEF AsyncIInv, AsyncTyped, Listed, Watched
<1> QED
  BY <1>1, <1>2

LEMMA AsyncRemoveStep ==
    ASSUME AsyncIInv, NEW fd \in Fds, Async!RemoveSocketInfo(fd),
           \/ a_pc = "loop" /\ queue # <<>> /\ Head(queue).sock = fd /\ queue' = Tail(queue)
           \/ a_pc = "write" /\ wParam = fd /\ queue' = queue,
           a_pc' = "loop", wParam' = wParam,
           misled \subseteq misled', misled' \subseteq Clients
    PROVE  AsyncIInv'
<1>1. PICK c, rest, e : c = x_fdt'[fd] /\ rest = queue' /\ e = fd
  OBVIOUS
<1>2. c \notin Clients
  BY <1>1, RemoveIs
<1>3. /\ a_pc # "crash" /\ a_pc' \in {"loop", "write"} /\ a_pc' # "write"
      /\ a_pc = "write" => wParam = fd
      /\ wParam' \in Fds
      /\ rest = queue \/ (queue # <<>> /\ rest = Tail(queue) /\ Head(queue).sock = fd)
  BY <1>1 DEF AsyncIInv, AsyncTyped
<1>5. /\ XSockets'
      /\ x_fdt'[fd] = x_fdt[fd] \/ (x_fdt[fd] \in Clients /\ x_fdt'[fd] = Free)
      /\ SocketInfoList' \subseteq Fds
      /\ fd \in SocketInfoList' <=> c \in Clients
      /\ a_info' \in [Fds -> Async!SOCKETINFO]
      /\ enabled' \in [Fds -> SUBSET Async!Events]
      /\ \A event \in enabled'[fd] :
            IF event = "FD_ACCEPT" THEN fd = listenfd ELSE fd \in SocketInfoList'
      /\ \A f \in Fds : f # fd =>
            /\ x_fdt'[f] = x_fdt[f] /\ a_info'[f] = a_info[f]
            /\ f \in SocketInfoList' <=> f \in SocketInfoList
            /\ enabled'[f] = enabled[f]
      /\ x_peer' = x_peer /\ x_sent' = x_sent
      /\ \A d \in Clients :
            /\ x_link[d] \in {"open", "closed"} => x_link'[d] \in {"open", "closed"}
            /\ d # c => x_taken'[d] = x_taken[d] /\ x_out'[d] = x_out[d]
  BY <1>2, RemoveIs
<1> QED
  BY <1>1, <1>2, <1>3, <1>5, AsyncHandlerStep

(* FD_READ of a full buffer is put off: the right to receive goes from the *)
(* queue to the record.                                                    *)
LEMMA AsyncDelayStep ==
    ASSUME AsyncIInv, Async!DelayRecv, misled \subseteq misled', misled' \subseteq Clients,
           NEW fd, fd = Head(queue).sock,
           \A c \in Clients : c = x_fdt[fd] /\ c \notin misled' =>
                                 c \notin misled /\ IsFor(Head(queue), fd, "FD_READ", c)
    PROVE  AsyncIInv'
<1>1. /\ a_pc = "loop" /\ queue # <<>> /\ fd \in SocketInfoList
      /\ a_info[fd].recvbytes > 0
      /\ a_info' = [a_info EXCEPT ![fd].recvdelayed = TRUE]
      /\ queue' = Tail(queue)
      /\ UNCHANGED <<x_link, x_peer, x_sent, x_taken, x_out, x_got, x_fdt>>
      /\ UNCHANGED <<a_pc, wParam, SocketInfoList, enabled>>
  BY DEF Async!DelayRecv, Async!Handles, Async!Msg, Async!MustDelay, Async!sockets
<1>2. fd \in Fds /\ AfterFetch(queue, Head(queue), Tail(queue))
  BY <1>1, MessageIs
<1>3. PICK c \in Clients : c = x_fdt[fd]
  BY <1>1, <1>2 DEF AsyncIInv, Listed
<1>4. /\ a_info[fd] \in Async!SOCKETINFO /\ InOrderTo(c)
      /\ Booked(a_info[fd], c, x_taken[c], Len(x_out[c]))
      /\ c \notin misled => RightToRead(fd, c)
  BY <1>2, <1>3, ConnectionIs
<1>5. PICK new : new = [a_info[fd] EXCEPT !.recvdelayed = TRUE]
  BY Zenon
<1>6. /\ new \in Async!SOCKETINFO /\ new.buf = a_info[fd].buf
      /\ new.recvbytes = a_info[fd].recvbytes /\ new.sendbytes = a_info[fd].sendbytes
  BY <1>4, <1>5, Zenon DEF Async!SOCKETINFO
<1>7. new.recvdelayed
  BY <1>4, <1>5, Zenon DEF Async!SOCKETINFO
<1>8. /\ a_info' \in [Fds -> Async!SOCKETINFO]
      /\ \A f \in Fds : a_info'[f] = IF f = fd THEN new ELSE a_info[f]
  BY <1>1, <1>2, <1>5, <1>6 DEF AsyncIInv, AsyncTyped
<1>9. Booked(a_info'[fd], c, x_taken'[c], Len(x_out'[c]))
  <2>1. a_info'[fd] = new
    BY ONLY <1>2, <1>8, Zenon
  <2>2. Booked(new, c, x_taken[c], Len(x_out[c]))
    BY ONLY <1>4, <1>6, Zenon DEF Booked
  <2>3. x_taken' = x_taken /\ x_out' = x_out
    BY ONLY <1>1, Zenon
  <2> QED
    BY ONLY <2>1, <2>2, <2>3
<1>10. ASSUME c \notin misled' PROVE RightToRead(fd, c)'
  <2>1. c \notin misled /\ IsFor(Head(queue), fd, "FD_READ", c) /\ RightToRead(fd, c)
    BY <1>3, <1>4, <1>10
  <2>2. Delayed(fd)'
    <3>1. a_info'[fd] = new
      BY <1>2, <1>8
    <3> QED
      BY <1>7, <3>1, Zenon DEF Delayed
  <2>3. Busy(fd) /\ Busy(fd)'
    <3>1. a_info[fd].recvbytes \in Nat /\ a_info[fd].sendbytes \in Nat
      BY <1>4 DEF Async!SOCKETINFO
    <3>2. a_info[fd].recvbytes > a_info[fd].sendbytes
      BY <1>1, <1>4, <3>1, SMTT(120) DEF Booked
    <3> QED
      BY <1>2, <1>6, <1>8, <3>2 DEF Busy
  <2>4. ~ IsFor(Head(queue), fd, "FD_WRITE", c)
    BY <2>1 DEF IsFor
  <2>5. /\ Waits(fd, "FD_READ", c) /\ ~ Waits(fd, "FD_READ", c)'
        /\ OnceIn(queue', fd, "FD_READ", c)
        /\ Waits(fd, "FD_WRITE", c)' <=> Waits(fd, "FD_WRITE", c)
    <3>1. OnceIn(queue, fd, "FD_READ", c)
      BY <2>1 DEF RightToRead
    <3>2. PICK q, r, m : q = queue /\ r = queue' /\ m = Head(queue)
      OBVIOUS
    <3>3. AfterFetch(q, m, r) /\ OnceIn(q, fd, "FD_READ", c)
          /\ IsFor(m, fd, "FD_READ", c) /\ ~ IsFor(m, fd, "FD_WRITE", c)
      BY <1>1, <1>2, <2>1, <2>4, <3>1, <3>2
    <3>4. /\ HasIn(q, fd, "FD_READ", c) /\ ~ HasIn(r, fd, "FD_READ", c)
          /\ OnceIn(r, fd, "FD_READ", c)
          /\ HasIn(r, fd, "FD_WRITE", c) <=> HasIn(q, fd, "FD_WRITE", c)
      BY ONLY <3>3 DEF AfterFetch
    <3> QED
      BY <3>2, <3>4 DEF Waits
  <2>6. /\ enabled' = enabled /\ x_taken' = x_taken /\ x_sent' = x_sent /\ x_peer' = x_peer
        /\ (Writes(fd)' <=> Writes(fd))
    BY <1>1 DEF Writes
  <2> QED
    BY ONLY <2>1, <2>2, <2>3, <2>5, <2>6 DEF RightToRead
<1>11. XSockets'
  BY <1>1 DEF AsyncIInv, XSockets, XTyped, Connections, InTime
<1>12. PICK rest, e : rest = queue' /\ e = fd
  OBVIOUS
<1>13. InOrderTo(c)'
  BY <1>1, <1>4 DEF InOrderTo
<1>14. \A event \in enabled'[fd] :
          IF event = "FD_ACCEPT" THEN fd = listenfd ELSE fd \in SocketInfoList'
  BY <1>1, <1>2 DEF AsyncIInv, Watched
<1>15. /\ a_pc # "crash" /\ a_pc' \in {"loop", "write"} /\ a_pc # "write" /\ a_pc' # "write"
       /\ wParam' \in Fds /\ SocketInfoList' \subseteq Fds
       /\ enabled' \in [Fds -> SUBSET Async!Events]
       /\ x_peer' = x_peer /\ x_sent' = x_sent /\ x_link' = x_link
       /\ x_taken' = x_taken /\ x_out' = x_out /\ x_fdt' = x_fdt
       /\ SocketInfoList' = SocketInfoList /\ enabled' = enabled
       /\ c = x_fdt'[fd]
       /\ queue # <<>> /\ rest = Tail(queue) /\ Head(queue).sock = fd
  BY <1>1, <1>3, <1>12 DEF AsyncIInv, AsyncTyped
<1> QED
  BY <1>1, <1>2, <1>8, <1>9, <1>10, <1>11, <1>12, <1>13, <1>14, <1>15, AsyncHandlerStep, Zenon

(* recv(): the right to receive goes from the queue to Winsock.            *)
LEMMA AsyncRecvStep ==
    ASSUME AsyncIInv, Async!RecvCall, misled \subseteq misled', misled' \subseteq Clients,
           NEW fd, fd = Head(queue).sock,
           \A c \in Clients : c = x_fdt[fd] /\ c \notin misled' =>
                                 c \notin misled /\ IsFor(Head(queue), fd, "FD_READ", c)
    PROVE  AsyncIInv'
<1>1. /\ a_pc = "loop" /\ queue # <<>> /\ fd \in SocketInfoList
      /\ ~ (a_info[fd].recvbytes > 0) /\ queue' = Tail(queue)
  BY DEF Async!RecvCall, Async!Handles, Async!Msg, Async!MustDelay
<1>2. fd \in Fds /\ AfterFetch(queue, Head(queue), Tail(queue))
  BY <1>1, MessageIs
<1>3. PICK c \in Clients : c = x_fdt[fd]
  BY <1>1, <1>2 DEF AsyncIInv, Listed
<1>4. /\ a_info[fd] \in Async!SOCKETINFO /\ InOrderTo(c) /\ x_link[c] = "open"
      /\ Booked(a_info[fd], c, x_taken[c], Len(x_out[c]))
      /\ c \notin misled => RightToRead(fd, c)
      /\ x_taken[c] \in Nat /\ x_sent[c] \in Nat /\ Len(x_out[c]) \in Nat
      /\ a_info[fd].recvbytes \in Nat /\ a_info[fd].sendbytes \in Nat
  BY <1>2, <1>3, ConnectionIs
<1>5. CASE Async!RemoveSocketInfo(fd) /\ UNCHANGED <<a_pc, wParam>>
  BY <1>1, <1>2, <1>5, AsyncRemoveStep
<1>6. ASSUME NEW n \in 0 .. BUFSIZE,
             n <= x_sent[c] - x_taken[c] \/ n = 0,
             x_taken' = [x_taken EXCEPT ![c] = @ + n],
             UNCHANGED <<x_link, x_peer, x_sent, x_out, x_got, x_fdt>>,
             a_info' = [a_info EXCEPT ![fd].buf = Chunk(c, x_taken[c], n),
                                      ![fd].recvbytes = n],
             enabled' = [enabled EXCEPT ![fd] = @ \cup {"FD_READ"}],
             a_pc' = "write", wParam' = fd, SocketInfoList' = SocketInfoList
      PROVE  AsyncIInv'
  <2>1. n \in Nat /\ n <= x_sent[c] - x_taken[c]
    BY <1>4, <1>6, SocketsAssumption DEF AsyncIInv, XSockets, InTime
  <2>2. /\ XSockets'
        /\ \A d \in Clients : x_taken'[d] = IF d = c THEN x_taken[c] + n ELSE x_taken[d]
    BY <1>4, <1>6, <2>1, TakeSockets, Zenon DEF AsyncIInv
  <2>3. PICK new : new = [buf |-> Chunk(c, x_taken[c], n), recvbytes |-> n,
                          sendbytes |-> a_info[fd].sendbytes,
                          recvdelayed |-> a_info[fd].recvdelayed]
    BY Zenon
  <2>4. Chunk(c, x_taken[c], n) \in Seq(Bytes) /\ Len(Chunk(c, x_taken[c], n)) = n
    BY <1>4, <2>1, ChunkType, Zenon
  <2>5. /\ new.buf = Chunk(c, x_taken[c], n) /\ new.recvbytes = n
        /\ new.sendbytes = a_info[fd].sendbytes
    BY <2>3
  <2>6. new.recvdelayed = a_info[fd].recvdelayed /\ a_info[fd].recvdelayed \in BOOLEAN
    BY <1>4, <2>3 DEF Async!SOCKETINFO
  <2>7. new \in Async!SOCKETINFO
    <3>1. a_info[fd].sendbytes \in Nat
      BY <1>4
    <3>2. PICK b, s, rd : /\ b = Chunk(c, x_taken[c], n) /\ s = a_info[fd].sendbytes
                          /\ rd = a_info[fd].recvdelayed
      BY Zenon
    <3>3. b \in Seq(Bytes) /\ s \in Nat /\ rd \in BOOLEAN /\ n \in Nat
      BY <2>1, <2>4, <2>6, <3>1, <3>2
    <3>4. new = [buf |-> b, recvbytes |-> n, sendbytes |-> s, recvdelayed |-> rd]
      BY <2>3, <3>2
    <3>5. new \in [buf: Seq(Bytes), recvbytes: Nat, sendbytes: Nat, recvdelayed: BOOLEAN]
      BY ONLY <3>3, <3>4
    <3> QED
      BY <3>5, SameTypes DEF Async!SOCKETINFO
  <2>8. a_info' = [a_info EXCEPT ![fd] = new]
    <3>1. PICK b : b = Chunk(c, x_taken[c], n)
      OBVIOUS
    <3>2. a_info' = [a_info EXCEPT ![fd] = [[@ EXCEPT !.buf = b] EXCEPT !.recvbytes = n]]
      BY <1>2, <1>4, <1>6, <3>1, Zenon DEF AsyncIInv, AsyncTyped
    <3>3. [[a_info[fd] EXCEPT !.buf = b] EXCEPT !.recvbytes = n] = new
      <4>1. PICK r, t : r = a_info[fd] /\ t = [r EXCEPT !.buf = b]
        BY Zenon
      <4>2. r \in [buf: Seq(Bytes), recvbytes: Nat, sendbytes: Nat, recvdelayed: BOOLEAN]
        BY <1>4, <4>1, SameTypes DEF Async!SOCKETINFO
      <4>3. t = [buf |-> b, recvbytes |-> r.recvbytes, sendbytes |-> r.sendbytes,
                 recvdelayed |-> r.recvdelayed]
        BY ONLY <4>1, <4>2
      <4>4. [t EXCEPT !.recvbytes = n] = [buf |-> b, recvbytes |-> n,
                 sendbytes |-> r.sendbytes, recvdelayed |-> r.recvdelayed]
        BY ONLY <4>3
      <4> QED
        BY <2>3, <3>1, <4>1, <4>4
    <3> QED
      BY <1>2, <3>2, <3>3, Zenon DEF AsyncIInv, AsyncTyped
  <2>9. /\ a_info' \in [Fds -> Async!SOCKETINFO]
        /\ \A f \in Fds : a_info'[f] = IF f = fd THEN new ELSE a_info[f]
    BY <1>2, <2>7, <2>8 DEF AsyncIInv, AsyncTyped
  <2>10. Booked(a_info'[fd], c, x_taken'[c], Len(x_out'[c]))
    <3>1. a_info[fd].recvbytes = 0 /\ a_info[fd].sendbytes = 0 /\ x_taken[c] = Len(x_out[c])
      <4>1. /\ Booked(a_info[fd], c, x_taken[c], Len(x_out[c])) /\ ~ (a_info[fd].recvbytes > 0)
            /\ x_taken[c] \in Nat /\ Len(x_out[c]) \in Nat
            /\ a_info[fd].recvbytes \in Nat /\ a_info[fd].sendbytes \in Nat
        BY <1>1, <1>4
      <4> QED
        BY ONLY <4>1 DEF Booked
    <3>2. a_info'[fd] = new /\ x_taken'[c] = x_taken[c] + n /\ x_out' = x_out
      BY <1>2, <1>6, <2>2, <2>9, Zenon
    <3>3. CASE n > 0
      <4>1. Booked(new, c, x_taken[c] + n, Len(x_out[c]))
        <5>1. PICK ptr, took, gave : /\ ptr = a_info[fd] /\ took = x_taken[c]
                                     /\ gave = Len(x_out[c])
          BY Zenon
        <5>2. /\ c \in Clients /\ took \in Nat /\ gave \in Nat /\ n \in Nat
              /\ ptr.recvbytes \in Nat /\ ptr.sendbytes \in Nat /\ Booked(ptr, c, took, gave)
              /\ ~ (ptr.recvbytes > ptr.sendbytes) /\ n > 0
              /\ new.buf = Chunk(c, took, n) /\ new.recvbytes = n
              /\ new.sendbytes = ptr.sendbytes
          BY <1>4, <2>1, <2>5, <3>1, <3>3, <5>1
        <5>3. Booked(new, c, took + n, gave)
          BY ONLY <5>2, BookedRecv
        <5> QED
          BY <5>1, <5>3
      <4> QED
        BY <3>2, <4>1
    <3>4. CASE n = 0
      <4>1. new.recvbytes = 0 /\ new.sendbytes = 0 /\ Len(new.buf) = 0
        BY <2>4, <2>5, <3>1, <3>4
      <4>2. (0 + 1) .. 0 = {}
        OBVIOUS
      <4> QED
        BY <1>4, <3>1, <3>2, <3>4, <4>1, <4>2 DEF Booked
    <3> QED
      BY <2>1, <3>3, <3>4
  <2>11. /\ \A f \in Fds : enabled'[f] = IF f = fd THEN enabled[fd] \cup {"FD_READ"}
                                         ELSE enabled[f]
         /\ enabled' \in [Fds -> SUBSET Async!Events]
    BY <1>2, <1>6 DEF AsyncIInv, AsyncTyped, Async!Events
  <2>12. ASSUME c \notin misled' PROVE RightToRead(fd, c)'
    <3>1. c \notin misled /\ IsFor(Head(queue), fd, "FD_READ", c) /\ RightToRead(fd, c)
      BY <1>3, <1>4, <2>12
    <3>2. Delayed(fd)' <=> Delayed(fd)
      <4>1. a_info'[fd] = new
        BY <1>2, <2>9
      <4> QED
        BY <2>6, <4>1, Zenon DEF Delayed
    <3>3. /\ Waits(fd, "FD_READ", c) /\ ~ Waits(fd, "FD_READ", c)'
          /\ OnceIn(queue', fd, "FD_READ", c)
      <4>1. OnceIn(queue, fd, "FD_READ", c)
        BY <3>1 DEF RightToRead
      <4>2. PICK q, r, m : q = queue /\ r = queue' /\ m = Head(queue)
        OBVIOUS
      <4>3. AfterFetch(q, m, r) /\ OnceIn(q, fd, "FD_READ", c) /\ IsFor(m, fd, "FD_READ", c)
        BY <1>1, <1>2, <3>1, <4>1, <4>2
      <4>4. /\ HasIn(q, fd, "FD_READ", c) /\ ~ HasIn(r, fd, "FD_READ", c)
            /\ OnceIn(r, fd, "FD_READ", c)
        BY ONLY <4>3 DEF AfterFetch
      <4> QED
        BY <4>2, <4>4 DEF Waits
    <3>4. Writes(fd)' /\ "FD_READ" \in enabled'[fd]
      BY <1>2, <1>6, <2>11 DEF Writes
    <3>5. ~ Delayed(fd)
      BY ONLY <3>1, <3>3, Zenon DEF RightToRead
    <3> QED
      BY ONLY <3>2, <3>3, <3>4, <3>5 DEF RightToRead
  <2>13. InOrderTo(c)'
    BY <1>4, <1>6 DEF InOrderTo
  <2>14. \A event \in enabled'[fd] :
            IF event = "FD_ACCEPT" THEN fd = listenfd ELSE fd \in SocketInfoList'
    BY <1>1, <1>2, <1>6, <2>11 DEF AsyncIInv, Watched
  <2>15. PICK rest, e : rest = queue' /\ e = fd
    OBVIOUS
  <2>16. /\ a_pc # "crash" /\ a_pc' \in {"loop", "write"} /\ a_pc # "write"
         /\ wParam' \in Fds /\ SocketInfoList' \subseteq Fds /\ wParam' \in SocketInfoList'
         /\ x_peer' = x_peer /\ x_sent' = x_sent /\ x_link' = x_link
         /\ x_out' = x_out /\ x_fdt' = x_fdt /\ \A d \in Clients : d # c => x_taken'[d] = x_taken[d]
         /\ SocketInfoList' = SocketInfoList
         /\ \A f \in Fds : f # fd => enabled'[f] = enabled[f] /\ a_info'[f] = a_info[f]
         /\ c = x_fdt'[fd]
         /\ queue # <<>> /\ rest = Tail(queue) /\ Head(queue).sock = fd
         /\ fd \in SocketInfoList'
    BY <1>1, <1>2, <1>3, <1>6, <2>2, <2>9, <2>11, <2>15, ZenonT(60) DEF AsyncIInv, AsyncTyped
  <2>17. \A f \in Fds : f # fd =>
            /\ x_fdt'[f] = x_fdt[f] /\ a_info'[f] = a_info[f]
            /\ f \in SocketInfoList' <=> f \in SocketInfoList
            /\ enabled'[f] = enabled[f]
    BY <2>16
  <2>18. \A d \in Clients :
              /\ x_link[d] \in {"open", "closed"} => x_link'[d] \in {"open", "closed"}
              /\ d # c => x_taken'[d] = x_taken[d] /\ x_out'[d] = x_out[d]
    BY <2>16
  <2>19. /\ rest = queue \/ (queue # <<>> /\ rest = Tail(queue) /\ Head(queue).sock = fd)
         /\ queue' = rest /\ fd \in Fds /\ c \in Clients
         /\ x_fdt'[fd] = x_fdt[fd]
    BY <1>2, <2>15, <2>16
  <2>20. a_info' \in [Fds -> Async!SOCKETINFO] /\ enabled' \in [Fds -> SUBSET Async!Events]
    BY <2>9, <2>11
  <2>21. /\ AsyncIInv /\ XSockets' /\ a_pc # "crash" /\ a_pc' \in {"loop", "write"}
         /\ a_pc = "write" => wParam = fd
         /\ wParam' \in Fds /\ (a_pc' = "write" => wParam' \in SocketInfoList')
         /\ queue' # rest => /\ e \in Messages /\ e.sock = fd /\ Truthful(e)'
                             /\ queue' = Append(rest, e)
         /\ x_fdt'[fd] = x_fdt[fd] \/ (x_fdt[fd] \in Clients /\ x_fdt'[fd] = Free)
         /\ SocketInfoList' \subseteq Fds /\ (fd \in SocketInfoList' <=> c \in Clients)
    BY <2>2, <2>16, <2>19
  <2>22. c \in Clients =>
              /\ InOrderTo(c)'
              /\ Booked(a_info'[fd], c, x_taken'[c], Len(x_out'[c]))
              /\ c \notin misled' => RightToRead(fd, c)'
    BY <2>10, <2>12, <2>13
  <2>23. misled \subseteq misled' /\ misled' \subseteq Clients
    OBVIOUS
  <2> QED
    BY ONLY <2>14, <2>16, <2>17, <2>18, <2>19, <2>20, <2>21, <2>22, <2>23, AsyncHandlerStep,
       SMTT(60)
<1>7. \/ \E n \in 0 .. BUFSIZE :
            /\ n <= x_sent[c] - x_taken[c] \/ n = 0
            /\ x_taken' = [x_taken EXCEPT ![c] = @ + n]
            /\ UNCHANGED <<x_link, x_peer, x_sent, x_out, x_got, x_fdt>>
            /\ a_info' = [a_info EXCEPT ![fd].buf = Chunk(c, x_taken[c], n),
                                        ![fd].recvbytes = n]
            /\ enabled' = [enabled EXCEPT ![fd] = @ \cup {"FD_READ"}]
            /\ a_pc' = "write" /\ wParam' = fd /\ SocketInfoList' = SocketInfoList
      \/ Async!RemoveSocketInfo(fd) /\ UNCHANGED <<a_pc, wParam>>
  BY <1>3, Zenon DEF Async!RecvCall, Async!Msg, Async!RecvReturns, Async!Unread, Async!Take,
              Async!Chunk, Chunk
<1> QED
  BY <1>5, <1>6, <1>7, Zenon

(* Where the handler is when it comes to send().                           *)
LEMMA AtSendIs ==
    ASSUME AsyncIInv, NEW fd \in Fds, Async!AtSend(fd), NEW c, c = x_fdt[fd],
           NEW rest, rest = Async!RestOfQueue
    PROVE  /\ c \in Clients /\ fd \in SocketInfoList /\ a_pc \in {"loop", "write"}
           /\ a_pc = "write" => wParam = fd
           /\ \/ rest = queue
              \/ queue # <<>> /\ rest = Tail(queue) /\ Head(queue).sock = fd
           /\ rest \in Seq(Messages)
           /\ OnceIn(queue, fd, "FD_READ", c) => OnceIn(rest, fd, "FD_READ", c)
           /\ HasIn(rest, fd, "FD_READ", c) <=> HasIn(queue, fd, "FD_READ", c)
<1>1. fd \in SocketInfoList /\ c \in Clients
  BY DEF Async!AtSend, AsyncIInv, Listed
<1>2. CASE a_pc = "write"
  <2>1. rest = queue /\ wParam = fd
    BY <1>2 DEF Async!AtSend, Async!Handles, Async!RestOfQueue
  <2> QED
    BY <1>1, <1>2, <2>1 DEF AsyncIInv, AsyncTyped
<1>3. CASE a_pc # "write"
  <2>1. /\ a_pc = "loop" /\ queue # <<>> /\ rest = Tail(queue)
        /\ Head(queue).sock = fd /\ Head(queue).event = "FD_WRITE"
    BY <1>3 DEF Async!AtSend, Async!Handles, Async!RestOfQueue, Async!Msg
  <2>2. PICK q, m : q = queue /\ m = Head(queue)
    OBVIOUS
  <2>3. AfterFetch(q, m, rest) /\ ~ IsFor(m, fd, "FD_READ", c)
    BY <2>1, <2>2, MessageIs DEF IsFor
  <2>4. /\ rest \in Seq(Messages)
        /\ OnceIn(q, fd, "FD_READ", c) => OnceIn(rest, fd, "FD_READ", c)
        /\ HasIn(rest, fd, "FD_READ", c) <=> HasIn(q, fd, "FD_READ", c)
    BY ONLY <2>3 DEF AfterFetch
  <2> QED
    BY <1>1, <2>1, <2>2, <2>4
<1> QED
  BY <1>2, <1>3

(* The frame of a step of send(). *)
LEMMA AsyncSentStep ==
    ASSUME AsyncIInv, XSockets', NEW fd \in Fds, Async!AtSend(fd), NEW c \in Clients, c = x_fdt[fd],
           NEW new \in Async!SOCKETINFO, a_info' = [a_info EXCEPT ![fd] = new],
           a_pc' = "loop", wParam' = wParam, SocketInfoList' = SocketInfoList,
           NEW evs, enabled' = [enabled EXCEPT ![fd] = evs],
           evs = enabled[fd] \/ evs = enabled[fd] \cup {"FD_WRITE"},
           NEW rest, rest = Async!RestOfQueue, NEW e,
           queue' # rest => /\ e \in Messages /\ e.sock = fd /\ Truthful(e)'
                            /\ queue' = Append(rest, e),
           misled \subseteq misled', misled' \subseteq Clients,
           UNCHANGED <<x_link, x_peer, x_sent, x_taken, x_fdt>>,
           \A d \in Clients : d # c => x_out'[d] = x_out[d],
           InOrderTo(c)', Booked(new, c, x_taken[c], Len(x_out'[c])),
           c \notin misled' => RightToRead(fd, c)'
    PROVE  AsyncIInv'
<1>1. /\ fd \in SocketInfoList /\ a_pc \in {"loop", "write"}
      /\ a_pc = "write" => wParam = fd
      /\ rest = queue \/ (queue # <<>> /\ rest = Tail(queue) /\ Head(queue).sock = fd)
  BY AtSendIs
<1>2. /\ a_info' \in [Fds -> Async!SOCKETINFO]
      /\ \A f \in Fds : a_info'[f] = IF f = fd THEN new ELSE a_info[f]
  BY DEF AsyncIInv, AsyncTyped
<1>3. /\ enabled' \in [Fds -> SUBSET Async!Events]
      /\ \A f \in Fds : enabled'[f] = IF f = fd THEN evs ELSE enabled[f]
  BY DEF AsyncIInv, AsyncTyped, Async!Events
<1>4. \A event \in enabled'[fd] :
         IF event = "FD_ACCEPT" THEN fd = listenfd ELSE fd \in SocketInfoList'
  BY <1>1, <1>3 DEF AsyncIInv, Watched
<1>5. c \in Clients =>
         /\ InOrderTo(c)' /\ Booked(a_info'[fd], c, x_taken'[c], Len(x_out'[c]))
         /\ c \notin misled' => RightToRead(fd, c)'
  <2>1. a_info'[fd] = new /\ x_taken' = x_taken
    BY <1>2
  <2> QED
    BY <2>1
<1>6. /\ a_pc # "crash" /\ a_pc' \in {"loop", "write"} /\ a_pc' # "write"
      /\ wParam' \in Fds /\ SocketInfoList' \subseteq Fds
      /\ fd \in SocketInfoList' <=> c \in Clients
      /\ c = x_fdt'[fd] /\ x_fdt'[fd] = x_fdt[fd] /\ x_peer' = x_peer /\ x_sent' = x_sent
  BY <1>1 DEF AsyncIInv, AsyncTyped
<1>7. \A f \in Fds : f # fd =>
         /\ x_fdt'[f] = x_fdt[f] /\ a_info'[f] = a_info[f]
         /\ f \in SocketInfoList' <=> f \in SocketInfoList
         /\ enabled'[f] = enabled[f]
  BY <1>2, <1>3
<1>8. \A d \in Clients :
         /\ x_link[d] \in {"open", "closed"} => x_link'[d] \in {"open", "closed"}
         /\ d # c => x_taken'[d] = x_taken[d] /\ x_out'[d] = x_out[d]
  OBVIOUS
<1>9. /\ AsyncIInv /\ XSockets' /\ misled \subseteq misled' /\ misled' \subseteq Clients
      /\ queue' # rest => /\ e \in Messages /\ e.sock = fd /\ Truthful(e)'
                          /\ queue' = Append(rest, e)
      /\ fd \in Fds
  OBVIOUS
<1>10. a_info' \in [Fds -> Async!SOCKETINFO] /\ enabled' \in [Fds -> SUBSET Async!Events]
  BY <1>2, <1>3
<1>11. /\ a_pc = "write" => wParam = fd
       /\ a_pc' = "write" => wParam' \in SocketInfoList'
       /\ rest = queue \/ (queue # <<>> /\ rest = Tail(queue) /\ Head(queue).sock = fd)
       /\ x_fdt'[fd] = x_fdt[fd] \/ (x_fdt[fd] \in Clients /\ x_fdt'[fd] = Free)
  BY <1>1, <1>6
<1> QED
  BY ONLY <1>4, <1>5, <1>6, <1>7, <1>8, <1>9, <1>10, <1>11, AsyncHandlerStep

LEMMA AsyncNothingStep ==
    ASSUME AsyncIInv, NEW fd \in Fds, Async!NothingToSend(fd),
           misled \subseteq misled', misled' \subseteq Clients
    PROVE  AsyncIInv'
<1>1. /\ Async!AtSend(fd) /\ a_info[fd].recvbytes <= a_info[fd].sendbytes
      /\ queue' = Async!RestOfQueue /\ a_pc' = "loop"
      /\ UNCHANGED <<x_link, x_peer, x_sent, x_taken, x_out, x_got, x_fdt>>
      /\ UNCHANGED <<wParam, SocketInfoList, a_info, enabled>>
  BY DEF Async!NothingToSend, Async!sockets
<1>2. PICK c, rest, e : c = x_fdt[fd] /\ rest = Async!RestOfQueue /\ e = fd
  OBVIOUS
<1>3. /\ c \in Clients
      /\ OnceIn(queue, fd, "FD_READ", c) => OnceIn(rest, fd, "FD_READ", c)
      /\ HasIn(rest, fd, "FD_READ", c) <=> HasIn(queue, fd, "FD_READ", c)
  BY <1>1, <1>2, AtSendIs
<1>4. /\ a_info[fd] \in Async!SOCKETINFO /\ InOrderTo(c)
      /\ Booked(a_info[fd], c, x_taken[c], Len(x_out[c]))
      /\ c \notin misled => RightToRead(fd, c)
      /\ a_info[fd].recvbytes \in Nat /\ a_info[fd].sendbytes \in Nat
  BY <1>2, <1>3, ConnectionIs
<1>5. ASSUME c \notin misled' PROVE RightToRead(fd, c)'
  <2>1. RightToRead(fd, c)
    BY <1>4, <1>5
  <2>2. ~ Busy(fd) /\ ~ Busy(fd)'
    BY <1>1, <1>4 DEF Busy
  <2>3. Delayed(fd)' <=> Delayed(fd)
    BY <1>1, Zenon DEF Delayed
  <2>4. /\ OnceIn(queue, fd, "FD_READ", c) => OnceIn(queue', fd, "FD_READ", c)
        /\ Waits(fd, "FD_READ", c)' <=> Waits(fd, "FD_READ", c)
        /\ enabled' = enabled /\ x_taken' = x_taken /\ x_sent' = x_sent /\ x_peer' = x_peer
    BY <1>1, <1>2, <1>3 DEF Waits
  <2> QED
    BY ONLY <2>1, <2>2, <2>3, <2>4 DEF RightToRead
<1>6. XSockets' /\ InOrderTo(c)'
  BY <1>1, <1>4 DEF AsyncIInv, XSockets, XTyped, Connections, InTime, InOrderTo
<1>7. PICK new, evs : new = a_info[fd] /\ evs = enabled[fd]
  OBVIOUS
<1>8. /\ a_info' = [a_info EXCEPT ![fd] = new] /\ enabled' = [enabled EXCEPT ![fd] = evs]
      /\ new \in Async!SOCKETINFO /\ Booked(new, c, x_taken[c], Len(x_out'[c]))
      /\ queue' = rest
  BY <1>1, <1>2, <1>4, <1>7 DEF AsyncIInv, AsyncTyped
<1> QED
  BY <1>1, <1>2, <1>3, <1>5, <1>6, <1>7, <1>8, AsyncSentStep, Zenon

(* The first b of the bytes a record still has to send, and the record new *)
(* of ptr when they are sent.                                              *)
Coming(ptr, b) == SubSeq(ptr.buf, ptr.sendbytes + 1, ptr.sendbytes + b)
Advanced(ptr, new, b) ==
    /\ new.buf = ptr.buf
    /\ \/ /\ ptr.sendbytes + b = ptr.recvbytes
          /\ new.recvbytes = 0 /\ new.sendbytes = 0
       \/ /\ ptr.sendbytes + b # ptr.recvbytes
          /\ new.recvbytes = ptr.recvbytes /\ new.sendbytes = ptr.sendbytes + b

(* c was given bytes, and the books of its record new are right. *)
GivenTo(c, new) ==
    /\ XSockets' /\ InOrderTo(c)'
    /\ Booked(new, c, x_taken[c], Len(x_out'[c]))
    /\ \A d \in Clients : d # c => x_out'[d] = x_out[d]

LEMMA AsyncGive ==
    ASSUME AsyncIInv, NEW fd \in Fds, NEW c \in Clients, c = x_fdt[fd],
           NEW ptr, ptr = a_info[fd],
           NEW b \in Nat, b <= ptr.recvbytes - ptr.sendbytes,
           Async!Give(c, Coming(ptr, b)), NEW new, Advanced(ptr, new, b)
    PROVE  GivenTo(c, new)
<1>1. PICK s, took, gave : s = x_out[c] /\ took = x_taken[c] /\ gave = Len(x_out[c])
  BY Zenon
<1>2. /\ s \in Seq(Bytes) /\ took \in Nat /\ gave \in Nat /\ gave = Len(s)
      /\ ptr.buf \in Seq(Bytes) /\ ptr.recvbytes \in Nat /\ ptr.sendbytes \in Nat
      /\ Booked(ptr, c, took, gave) /\ x_link[c] = "open"
      /\ \A m \in 1 .. Len(s) : s[m] = <<c, m>>
  BY <1>1, ConnectionIs DEF InOrderTo
<1>3. PICK bytes, t : /\ bytes = SubSeq(ptr.buf, ptr.sendbytes + 1, ptr.sendbytes + b)
                      /\ t = x_out'[c]
  BY Zenon
<1>12. /\ x_out' = [x_out EXCEPT ![c] = @ \o bytes]
       /\ UNCHANGED <<x_link, x_peer, x_sent, x_taken, x_got, x_fdt>>
  BY <1>3 DEF Async!Give, Coming
<1>4. bytes = Chunk(c, gave, b)
  <2>1. /\ c \in Clients /\ took \in Nat /\ gave \in Nat
        /\ ptr.buf \in Seq(Bytes) /\ ptr.recvbytes \in Nat /\ ptr.sendbytes \in Nat
        /\ Booked(ptr, c, took, gave)
        /\ b \in Nat /\ b <= ptr.recvbytes - ptr.sendbytes
    BY <1>2
  <2>2. SubSeq(ptr.buf, ptr.sendbytes + 1, ptr.sendbytes + b) = Chunk(c, gave, b)
    BY ONLY <2>1, NextBytes, ZenonT(60)
  <2> QED
    BY <1>3, <2>2
<1>5. bytes \in Seq(Bytes) /\ Len(bytes) = b
  <2>1. c \in Clients /\ gave \in Nat /\ b \in Nat
    BY <1>2
  <2>2. Chunk(c, gave, b) \in Seq(Bytes) /\ Len(Chunk(c, gave, b)) = b
    BY ONLY <2>1, ChunkType
  <2> QED
    BY <1>4, <2>2
<1>6. /\ XSockets'
      /\ \A d \in Clients : x_out'[d] = IF d = c THEN x_out[c] \o bytes ELSE x_out[d]
  BY <1>2, <1>5, <1>12, GiveSockets, Zenon DEF AsyncIInv
<1>7. t = s \o bytes
  BY <1>1, <1>3, <1>6, Zenon
<1>8. Len(t) = gave + b /\ \A m \in 1 .. Len(t) : t[m] = <<c, m>>
  <2>1. t = s \o Chunk(c, Len(s), b)
    BY <1>2, <1>4, <1>7
  <2>2. /\ Len(s \o Chunk(c, Len(s), b)) = Len(s) + b
        /\ \A m \in 1 .. (Len(s) + b) : (s \o Chunk(c, Len(s), b))[m] = <<c, m>>
    <3>1. /\ c \in Clients /\ s \in Seq(Bytes) /\ b \in Nat
          /\ \A m \in 1 .. Len(s) : s[m] = <<c, m>>
      BY <1>2
    <3> QED
      BY ONLY <3>1, InOrder, ZenonT(60)
  <2> HIDE DEF Chunk
  <2> QED
    BY ONLY <1>2, <2>1, <2>2, Zenon
<1>11. Booked(new, c, took, gave + b)
  <2>1. /\ c \in Clients /\ took \in Nat /\ gave \in Nat /\ b \in Nat
        /\ b <= ptr.recvbytes - ptr.sendbytes
        /\ ptr.buf \in Seq(Bytes) /\ ptr.recvbytes \in Nat /\ ptr.sendbytes \in Nat
        /\ Booked(ptr, c, took, gave) /\ new.buf = ptr.buf
        /\ \/ /\ ptr.sendbytes + b = ptr.recvbytes
              /\ new.recvbytes = 0 /\ new.sendbytes = 0
           \/ /\ ptr.sendbytes + b # ptr.recvbytes
              /\ new.recvbytes = ptr.recvbytes /\ new.sendbytes = ptr.sendbytes + b
    BY <1>2 DEF Advanced
  <2> QED
    BY ONLY <2>1, BookedSend
<1> QED
  BY <1>1, <1>3, <1>6, <1>8, <1>11 DEF GivenTo, InOrderTo

(* A send() that is short. *)
LEMMA AsyncPartStep ==
    ASSUME AsyncIInv, NEW fd \in Fds, Async!SendPart(fd),
           misled \subseteq misled', misled' \subseteq Clients
    PROVE  AsyncIInv'
<1>1. PICK c, ptr, rest, e :
         c = x_fdt[fd] /\ ptr = a_info[fd] /\ rest = Async!RestOfQueue /\ e = fd
  OBVIOUS
<1>2. PICK n \in 1 .. (ptr.recvbytes - ptr.sendbytes - 1) :
         /\ Async!AtSend(fd)
         /\ Async!Give(c, SubSeq(ptr.buf, ptr.sendbytes + 1, ptr.sendbytes + n))
         /\ a_info' = [a_info EXCEPT ![fd].sendbytes = @ + n]
         /\ enabled' = [enabled EXCEPT ![fd] = @ \cup {"FD_WRITE"}]
         /\ queue' = rest /\ a_pc' = "loop"
         /\ UNCHANGED <<wParam, SocketInfoList>>
  BY <1>1, Zenon DEF Async!SendPart
<1>3. /\ c \in Clients
      /\ OnceIn(queue, fd, "FD_READ", c) => OnceIn(rest, fd, "FD_READ", c)
      /\ HasIn(rest, fd, "FD_READ", c) <=> HasIn(queue, fd, "FD_READ", c)
  BY <1>1, <1>2, AtSendIs
<1>4. /\ ptr \in Async!SOCKETINFO
      /\ c \notin misled => RightToRead(fd, c)
      /\ ptr.recvbytes \in Nat /\ ptr.sendbytes \in Nat
  BY <1>1, <1>3, ConnectionIs
<1>5. /\ n \in Nat /\ n <= ptr.recvbytes - ptr.sendbytes
      /\ ptr.sendbytes + n # ptr.recvbytes /\ ptr.sendbytes + n < ptr.recvbytes
      /\ ptr.sendbytes < ptr.recvbytes
  BY <1>2, <1>4
<1>6. PICK new, evs : new = [ptr EXCEPT !.sendbytes = @ + n] /\ evs = enabled[fd] \cup {"FD_WRITE"}
  BY Zenon
<1>7. /\ new \in Async!SOCKETINFO /\ new.buf = ptr.buf /\ new.recvbytes = ptr.recvbytes
      /\ new.sendbytes = ptr.sendbytes + n
  BY <1>4, <1>5, <1>6, SMTT(60) DEF Async!SOCKETINFO
<1>8. new.recvdelayed = ptr.recvdelayed
  BY <1>4, <1>6 DEF Async!SOCKETINFO
<1>9. /\ a_info' = [a_info EXCEPT ![fd] = new] /\ a_info'[fd] = new
      /\ enabled' = [enabled EXCEPT ![fd] = evs] /\ enabled'[fd] = evs
  BY <1>1, <1>2, <1>6 DEF AsyncIInv, AsyncTyped
<1>10. /\ XSockets' /\ InOrderTo(c)'
       /\ Booked(new, c, x_taken[c], Len(x_out'[c]))
       /\ \A d \in Clients : d # c => x_out'[d] = x_out[d]
  <2>1. Advanced(ptr, new, n)
    BY <1>5, <1>7 DEF Advanced
  <2>2. Async!Give(c, Coming(ptr, n))
    BY <1>2 DEF Coming
  <2>3. GivenTo(c, new)
    BY <1>1, <1>3, <1>5, <2>1, <2>2, AsyncGive
  <2> QED
    BY <2>3 DEF GivenTo
<1>11. ASSUME c \notin misled' PROVE RightToRead(fd, c)'
  <2>1. RightToRead(fd, c)
    BY <1>4, <1>11
  <2>2. Busy(fd) /\ Busy(fd)'
    BY <1>1, <1>5, <1>7, <1>9 DEF Busy
  <2>3. Delayed(fd)' <=> Delayed(fd)
    BY <1>1, <1>8, <1>9, Zenon DEF Delayed
  <2>4. /\ OnceIn(queue, fd, "FD_READ", c) => OnceIn(queue', fd, "FD_READ", c)
        /\ Waits(fd, "FD_READ", c)' <=> Waits(fd, "FD_READ", c)
        /\ x_taken' = x_taken /\ x_sent' = x_sent /\ x_peer' = x_peer
        /\ "FD_WRITE" \in enabled'[fd]
        /\ "FD_READ" \in enabled'[fd] <=> "FD_READ" \in enabled[fd]
    BY <1>2, <1>3, <1>6, <1>9 DEF Waits, Async!Give
  <2> QED
    BY ONLY <2>1, <2>2, <2>3, <2>4 DEF RightToRead
<1> QED
  <2>1. UNCHANGED <<x_link, x_peer, x_sent, x_taken, x_fdt>>
    BY <1>2 DEF Async!Give
  <2> QED
    BY <1>1, <1>2, <1>3, <1>6, <1>7, <1>9, <1>10, <1>11, <2>1, AsyncSentStep, ZenonT(60)

(* A complete send() gives the right to receive that was put off back to   *)
(* the queue.                                                              *)
LEMMA AsyncRestStep ==
    ASSUME AsyncIInv, NEW fd \in Fds, Async!SendRest(fd),
           misled \subseteq misled', misled' \subseteq Clients
    PROVE  AsyncIInv'
<1>1. PICK c, ptr, rest, e :
         /\ c = x_fdt[fd] /\ ptr = a_info[fd] /\ rest = Async!RestOfQueue
         /\ e = Async!Message(fd, "FD_READ", FALSE)
  BY Zenon
<1>2. PICK n : n = ptr.recvbytes - ptr.sendbytes
  OBVIOUS
<1>3. /\ Async!AtSend(fd) /\ n > 0
      /\ Async!Give(c, SubSeq(ptr.buf, ptr.sendbytes + 1, ptr.recvbytes))
      /\ a_info' = [a_info EXCEPT ![fd].recvbytes = 0, ![fd].sendbytes = 0,
                                  ![fd].recvdelayed = FALSE]
      /\ a_pc' = "loop" /\ UNCHANGED <<wParam, SocketInfoList, enabled>>
  BY <1>1, <1>2 DEF Async!SendRest
<1>4. queue' = IF Delayed(fd) THEN Append(rest, e) ELSE rest
  BY <1>1, Zenon DEF Async!SendRest, Delayed
<1>5. /\ c \in Clients /\ rest \in Seq(Messages)
      /\ OnceIn(queue, fd, "FD_READ", c) => OnceIn(rest, fd, "FD_READ", c)
      /\ HasIn(rest, fd, "FD_READ", c) <=> HasIn(queue, fd, "FD_READ", c)
  BY <1>1, <1>3, AtSendIs
<1>6. /\ ptr \in Async!SOCKETINFO /\ x_link[c] = "open"
      /\ c \notin misled => RightToRead(fd, c)
      /\ ptr.buf \in Seq(Bytes) /\ ptr.recvbytes \in Nat /\ ptr.sendbytes \in Nat
  BY <1>1, <1>5, ConnectionIs
<1>7. n \in Nat /\ n <= ptr.recvbytes - ptr.sendbytes /\ ptr.sendbytes + n = ptr.recvbytes
  BY <1>2, <1>3, <1>6
<1>8. PICK new : new = [buf |-> ptr.buf, recvbytes |-> 0, sendbytes |-> 0, recvdelayed |-> FALSE]
  BY Zenon
<1>9. new.buf = ptr.buf /\ new.recvbytes = 0 /\ new.sendbytes = 0
  BY <1>8
<1>10. ~ new.recvdelayed
  BY <1>8, Zenon
<1>11. new \in Async!SOCKETINFO
  <2>1. new \in [buf: Seq(Bytes), recvbytes: Nat, sendbytes: Nat, recvdelayed: BOOLEAN]
    BY ONLY <1>6, <1>8
  <2> QED
    BY <2>1, SameTypes DEF Async!SOCKETINFO
<1>12. /\ a_info' = [a_info EXCEPT ![fd] = new] /\ a_info'[fd] = new
       /\ enabled' = [enabled EXCEPT ![fd] = enabled[fd]] /\ enabled' = enabled
  <2>1. PICK s, t : s = [ptr EXCEPT !.recvbytes = 0] /\ t = [s EXCEPT !.sendbytes = 0]
    BY Zenon
  <2>2. a_info' = [a_info EXCEPT ![fd] = [t EXCEPT !.recvdelayed = FALSE]]
    BY <1>1, <1>3, <2>1, Zenon DEF AsyncIInv, AsyncTyped
  <2>3. [t EXCEPT !.recvdelayed = FALSE] = new
    <3>1. ptr \in [buf: Seq(Bytes), recvbytes: Nat, sendbytes: Nat, recvdelayed: BOOLEAN]
      BY <1>6, SameTypes DEF Async!SOCKETINFO
    <3>2. s = [buf |-> ptr.buf, recvbytes |-> 0, sendbytes |-> ptr.sendbytes,
               recvdelayed |-> ptr.recvdelayed]
      BY ONLY <2>1, <3>1
    <3>3. t = [buf |-> ptr.buf, recvbytes |-> 0, sendbytes |-> 0,
               recvdelayed |-> ptr.recvdelayed]
      BY ONLY <2>1, <3>2, Zenon
    <3>4. PICK no : no = FALSE
      BY Zenon
    <3>5. [t EXCEPT !.recvdelayed = no] =
             [buf |-> ptr.buf, recvbytes |-> 0, sendbytes |-> 0, recvdelayed |-> no]
      BY ONLY <3>3
    <3> QED
      BY ONLY <1>8, <3>4, <3>5, Zenon
  <2> QED
    BY <1>3, <2>2, <2>3, Zenon DEF AsyncIInv, AsyncTyped
<1>13. GivenTo(c, new)
  <2>1. Advanced(ptr, new, n)
    BY <1>7, <1>9 DEF Advanced
  <2>2. Async!Give(c, Coming(ptr, n))
    BY <1>3, <1>7 DEF Coming
  <2> QED
    BY <1>1, <1>5, <1>7, <2>1, <2>2, AsyncGive, Zenon
<1>14. /\ e = [sock |-> fd, event |-> "FD_READ", error |-> FALSE, of |-> c]
       /\ e \in Messages
  BY <1>1, <1>5 DEF Async!Message, Messages, Async!Events
<1>15. e.sock = fd /\ e.event = "FD_READ" /\ e.of = c
  BY <1>14
<1>16. UNCHANGED <<x_link, x_peer, x_sent, x_taken, x_fdt>>
  BY <1>3 DEF Async!Give
<1>17. Truthful(e)'
  <2>1. ~ e.error
    BY <1>14, Zenon
  <2> QED
    BY <1>5, <1>6, <1>15, <1>16, <2>1 DEF Truthful
<1>18. ASSUME c \notin misled' PROVE RightToRead(fd, c)'
  <2>1. RightToRead(fd, c)
    BY <1>6, <1>18
  <2>2. ~ Busy(fd)'
    BY <1>9, <1>12 DEF Busy
  <2>3. ~ Delayed(fd)'
    BY <1>10, <1>12, Zenon DEF Delayed
  <2>4. CASE Delayed(fd)
    <3>1. PICK r : r = queue'
      OBVIOUS
    <3>2. AfterPost(rest, e, r)
      <4>1. rest \in Seq(Messages) /\ e \in Messages /\ r = Append(rest, e)
        BY <1>4, <1>5, <1>14, <2>4, <3>1, Zenon
      <4> QED
        BY ONLY <4>1, Posted, Zenon
    <3>3. IsFor(e, fd, "FD_READ", c)
      BY <1>15 DEF IsFor
    <3>4. OnceIn(queue, fd, "FD_READ", c) /\ ~ Waits(fd, "FD_READ", c) /\ "FD_READ" \notin enabled[fd]
          /\ (x_taken[c] < x_sent[c] \/ x_peer[c] # "up")
      BY ONLY <2>1, <2>4 DEF RightToRead
    <3>5. OnceIn(rest, fd, "FD_READ", c) /\ ~ HasIn(rest, fd, "FD_READ", c)
      BY <1>5, <3>4 DEF Waits
    <3>6. OnceIn(r, fd, "FD_READ", c) /\ HasIn(r, fd, "FD_READ", c)
      BY ONLY <3>2, <3>3, <3>5 DEF AfterPost
    <3>7. /\ OnceIn(queue', fd, "FD_READ", c) /\ Waits(fd, "FD_READ", c)'
          /\ enabled' = enabled /\ x_taken' = x_taken /\ x_sent' = x_sent /\ x_peer' = x_peer
      BY <1>12, <1>16, <3>1, <3>6 DEF Waits
    <3> QED
      BY ONLY <2>2, <2>3, <3>4, <3>7 DEF RightToRead
  <2>5. CASE ~ Delayed(fd)
    <3>1. /\ OnceIn(queue, fd, "FD_READ", c) => OnceIn(queue', fd, "FD_READ", c)
          /\ Waits(fd, "FD_READ", c)' <=> Waits(fd, "FD_READ", c)
          /\ enabled' = enabled /\ x_taken' = x_taken /\ x_sent' = x_sent /\ x_peer' = x_peer
      BY <1>4, <1>5, <1>12, <1>16, <2>5 DEF Waits
    <3> QED
      BY ONLY <2>1, <2>2, <2>3, <2>5, <3>1 DEF RightToRead
  <2> QED
    BY <2>4, <2>5
<1>19. PICK evs : evs = enabled[fd]
  OBVIOUS
<1>20. /\ XSockets' /\ InOrderTo(c)' /\ Booked(new, c, x_taken[c], Len(x_out'[c]))
       /\ \A d \in Clients : d # c => x_out'[d] = x_out[d]
  BY <1>13 DEF GivenTo
<1>21. queue' # rest => /\ e \in Messages /\ e.sock = fd /\ Truthful(e)'
                        /\ queue' = Append(rest, e)
  BY <1>4, <1>14, <1>15, <1>17
<1>22. /\ XSockets' /\ Async!AtSend(fd) /\ c \in Clients /\ c = x_fdt[fd]
       /\ new \in Async!SOCKETINFO /\ a_info' = [a_info EXCEPT ![fd] = new]
       /\ a_pc' = "loop" /\ wParam' = wParam /\ SocketInfoList' = SocketInfoList
       /\ enabled' = [enabled EXCEPT ![fd] = evs]
       /\ rest = Async!RestOfQueue
  BY <1>1, <1>3, <1>5, <1>11, <1>12, <1>19, <1>20, Zenon
<1>23. /\ evs = enabled[fd] \/ evs = enabled[fd] \cup {"FD_WRITE"}
       /\ InOrderTo(c)' /\ Booked(new, c, x_taken[c], Len(x_out'[c]))
  BY <1>19, <1>20
<1>24. /\ AsyncIInv /\ fd \in Fds /\ misled \subseteq misled' /\ misled' \subseteq Clients
       /\ \A d \in Clients : d # c => x_out'[d] = x_out[d]
       /\ c \notin misled' => RightToRead(fd, c)'
  BY <1>18, <1>20
<1> QED
  BY ONLY <1>16, <1>21, <1>22, <1>23, <1>24, AsyncSentStep, ZenonT(300)

LEMMA AsyncSendRemovesStep ==
    ASSUME AsyncIInv, NEW fd \in Fds, Async!SendRemoves(fd),
           misled \subseteq misled', misled' \subseteq Clients
    PROVE  AsyncIInv'
<1>1. /\ Async!AtSend(fd) /\ Async!RemoveSocketInfo(fd)
      /\ queue' = Async!RestOfQueue /\ a_pc' = "loop" /\ wParam' = wParam
  BY DEF Async!SendRemoves
<1>2. \/ a_pc = "loop" /\ queue # <<>> /\ Head(queue).sock = fd /\ queue' = Tail(queue)
      \/ a_pc = "write" /\ wParam = fd /\ queue' = queue
  BY <1>1 DEF Async!AtSend, Async!Handles, Async!RestOfQueue, Async!Msg
<1> QED
  BY <1>1, <1>2, AsyncRemoveStep

(* FD_CLOSE, or an error. *)
LEMMA AsyncCloseStep ==
    ASSUME AsyncIInv, Async!OnError \/ Async!OnClose,
           misled \subseteq misled', misled' \subseteq Clients
    PROVE  AsyncIInv'
<1>1. /\ a_pc = "loop" /\ queue # <<>> /\ queue' = Tail(queue)
      /\ Async!RemoveSocketInfo(Head(queue).sock)
      /\ a_pc' = a_pc /\ wParam' = wParam
  BY DEF Async!OnError, Async!OnClose, Async!Handles, Async!Msg
<1>2. Head(queue).sock \in Fds
  BY <1>1, MessageIs
<1> QED
  BY <1>1, <1>2, AsyncRemoveStep

(* accept() *)
LEMMA AsyncAcceptStep ==
    ASSUME AsyncIInv, NEW c \in Clients, NEW fd \in Fds,
           x_link[c] = "backlog", x_fdt[fd] = Free,
           x_link' = [x_link EXCEPT ![c] = "open"], x_fdt' = [x_fdt EXCEPT ![fd] = c],
           UNCHANGED <<x_peer, x_sent, x_taken, x_out, x_got>>,
           a_pc = "loop", queue # <<>>, ~ Head(queue).error, Head(queue).event = "FD_ACCEPT",
           queue' = Tail(queue), UNCHANGED <<a_pc, wParam>>,
           SocketInfoList' = SocketInfoList \cup {fd},
           a_info' = [a_info EXCEPT ![fd] = Async!NewSocketInfo],
           enabled' = [enabled EXCEPT ![Head(queue).sock] = @ \cup {"FD_ACCEPT"},
                                      ![fd] = {"FD_READ", "FD_WRITE", "FD_CLOSE"}],
           misled \subseteq misled', misled' \subseteq Clients
    PROVE  AsyncIInv'
<1>1. /\ XSockets' /\ x_taken[c] = 0 /\ x_out[c] = <<>>
      /\ \A f \in Fds : x_fdt'[f] = IF f = fd THEN c ELSE x_fdt[f]
      /\ \A f \in Fds : x_fdt[f] # c
  BY AcceptSockets, Zenon DEF AsyncIInv
<1>2. fd # listenfd
  BY Descriptors DEF AsyncIInv, OtherDescriptors
<1>3. OtherDescriptors(a_pc # "crash")'
  <2>1. OtherDescriptors(TRUE)
    BY Zenon DEF AsyncIInv
  <2>2. OtherDescriptors(TRUE)'
    BY <1>1, <1>2, <2>1 DEF OtherDescriptors
  <2> QED
    BY <2>2, Zenon
<1>4. Head(queue).sock = listenfd
  BY MessageIs DEF Truthful
<1>5. PICK new : new = Async!NewSocketInfo
  OBVIOUS
<1>6. new \in Async!SOCKETINFO /\ new.recvbytes = 0 /\ new.sendbytes = 0 /\ ~ new.recvdelayed
  BY <1>5, NewInfoIs, Zenon
<1>7. /\ a_info' \in [Fds -> Async!SOCKETINFO]
      /\ \A f \in Fds : a_info'[f] = IF f = fd THEN new ELSE a_info[f]
  BY <1>5, <1>6 DEF AsyncIInv, AsyncTyped
<1>8. /\ enabled' \in [Fds -> SUBSET Async!Events]
      /\ enabled'[fd] = {"FD_READ", "FD_WRITE", "FD_CLOSE"}
      /\ enabled'[listenfd] = enabled[listenfd] \cup {"FD_ACCEPT"}
      /\ \A f \in Fds : f # fd /\ f # listenfd => enabled'[f] = enabled[f]
  BY <1>2, <1>4, Descriptors, Zenon DEF AsyncIInv, AsyncTyped, Async!Events
<1>9. PICK rest, e : rest = queue' /\ e = fd
  OBVIOUS
<1>10. /\ queue' \in Seq(Messages)
       /\ \A k \in DOMAIN queue' : \E l \in DOMAIN queue : queue'[k] = queue[l]
       /\ \A f, event, d :
             f # fd /\ event # "FD_ACCEPT" =>
                /\ HasIn(queue', f, event, d) <=> HasIn(queue, f, event, d)
                /\ OnceIn(queue, f, event, d) => OnceIn(queue', f, event, d)
  BY <1>9, QueueStep DEF AsyncIInv, AsyncTyped
<1>11. (\A k \in DOMAIN queue : Truthful(queue[k]))'
  <2> SUFFICES ASSUME NEW m, \E k \in DOMAIN queue' : queue'[k] = m PROVE Truthful(m)'
    OBVIOUS
  <2>1. Truthful(m)
    BY <1>10 DEF AsyncIInv
  <2>2. \A d \in Clients : x_link[d] \in {"open", "closed"} => x_link'[d] \in {"open", "closed"}
    BY DEF AsyncIInv, XSockets, XTyped
  <2> QED
    BY <2>1, <2>2, TruthfulKept
<1>12. AsyncTyped'
  BY <1>7, <1>8, <1>10, Zenon DEF AsyncIInv, AsyncTyped
<1>13. Watched'
  <2> SUFFICES ASSUME NEW f \in Fds, NEW event \in enabled'[f]
               PROVE  IF event = "FD_ACCEPT" THEN f = listenfd ELSE f \in SocketInfoList'
    BY DEF Watched
  <2>1. CASE f = fd
    BY <1>8, <2>1
  <2>2. CASE f # fd
    BY <1>8, <2>2, Zenon DEF AsyncIInv, Watched
  <2> QED
    BY <2>1, <2>2
<1>14. \A event \in {"FD_READ", "FD_WRITE", "FD_CLOSE"} :
           ~ HasIn(queue', fd, event, c) /\ OnceIn(queue', fd, event, c)
  <2>1. \A k \in DOMAIN queue : queue[k].event # "FD_ACCEPT" => queue[k].of # c
    BY DEF AsyncIInv, Truthful
  <2> QED
    BY <1>10, <2>1 DEF HasIn, OnceIn, IsFor
<1>15. RightToRead(fd, c)'
  <2>1. ~ Delayed(fd)'
    <3>1. a_info'[fd] = new
      BY <1>7
    <3> QED
      BY <1>6, <3>1, Zenon DEF Delayed
  <2>2. ~ Busy(fd)'
    BY <1>6, <1>7 DEF Busy
  <2>3. /\ OnceIn(queue', fd, "FD_READ", c) /\ ~ Waits(fd, "FD_READ", c)'
        /\ "FD_READ" \in enabled'[fd]
    BY <1>8, <1>14 DEF Waits
  <2> QED
    BY ONLY <2>1, <2>2, <2>3 DEF RightToRead
<1>16. Len(x_out'[c]) = 0 /\ x_taken'[c] = 0
  BY <1>1
<1>17. InOrderTo(c)' /\ Booked(a_info'[fd], c, x_taken'[c], Len(x_out'[c]))
  <2>1. InOrderTo(c)'
    BY <1>16 DEF InOrderTo
  <2>2. new.buf \in Seq(Bytes) /\ Len(new.buf) \in Nat
    <3>1. new.buf \in Seq(Bytes)
      BY <1>6, SameTypes DEF Async!SOCKETINFO
    <3> QED
      BY <3>1
  <2>3. a_info'[fd] = new
    BY <1>7
  <2> QED
    BY <1>6, <1>16, <2>1, <2>2, <2>3 DEF Booked
<1>18. \A f \in Fds : f # fd =>
          /\ x_fdt'[f] = x_fdt[f] /\ a_info'[f] = a_info[f]
          /\ f \in SocketInfoList' <=> f \in SocketInfoList
          /\ \A event \in {"FD_READ", "FD_WRITE"} :
                event \in enabled'[f] <=> event \in enabled[f]
          /\ Writes(f) => Writes(f)'
          /\ \A event \in {"FD_READ", "FD_WRITE"}, d \in Clients :
                /\ HasIn(queue', f, event, d) <=> HasIn(queue, f, event, d)
                /\ OnceIn(queue, f, event, d) => OnceIn(queue', f, event, d)
  <2> SUFFICES ASSUME NEW f \in Fds, f # fd
               PROVE  /\ x_fdt'[f] = x_fdt[f] /\ a_info'[f] = a_info[f]
                      /\ f \in SocketInfoList' <=> f \in SocketInfoList
                      /\ \A event \in {"FD_READ", "FD_WRITE"} :
                            event \in enabled'[f] <=> event \in enabled[f]
                      /\ Writes(f) => Writes(f)'
                      /\ \A event \in {"FD_READ", "FD_WRITE"}, d \in Clients :
                            /\ HasIn(queue', f, event, d) <=> HasIn(queue, f, event, d)
                            /\ OnceIn(queue, f, event, d) => OnceIn(queue', f, event, d)
    BY Zenon
  <2>1. \A event \in {"FD_READ", "FD_WRITE"} : event \in enabled'[f] <=> event \in enabled[f]
    BY <1>8
  <2> QED
    BY <1>1, <1>7, <1>10, <2>1 DEF Writes
<1>19. /\ c = x_fdt'[fd] /\ fd \in SocketInfoList' /\ a_pc' # "write" /\ a_pc' # "crash"
       /\ \A d \in Clients : /\ x_peer[d] # "up" => x_peer'[d] # "up"
                             /\ x_sent'[d] >= x_sent[d]
                             /\ d # c => x_taken'[d] = x_taken[d] /\ x_out'[d] = x_out[d]
  BY <1>1 DEF AsyncIInv, XSockets, XTyped
<1> QED
  BY <1>1, <1>3, <1>11, <1>12, <1>13, <1>15, <1>17, <1>18, <1>19, AsyncStep, Zenon

(* accept() fails, or finds a connection that is reset and drops it. *)
LEMMA AsyncRefuseStep ==
    ASSUME AsyncIInv,
           \/ x_link' = x_link
           \/ \E c \in Clients : /\ x_link[c] = "backlog"
                                 /\ x_link' = [x_link EXCEPT ![c] = "closed"],
           UNCHANGED <<x_peer, x_sent, x_taken, x_out, x_got, x_fdt>>,
           a_pc = "loop", queue # <<>>, ~ Head(queue).error, Head(queue).event = "FD_ACCEPT",
           queue' = Tail(queue), UNCHANGED <<a_pc, wParam, SocketInfoList, a_info>>,
           enabled' = [enabled EXCEPT ![Head(queue).sock] = @ \cup {"FD_ACCEPT"}],
           misled \subseteq misled', misled' \subseteq Clients
    PROVE  AsyncIInv'
<1>1. PICK fd, c, rest, e : fd = listenfd /\ c = x_fdt[listenfd] /\ rest = queue' /\ e = fd
  OBVIOUS
<1>2. fd \in Fds /\ c \notin Clients /\ Head(queue).sock = fd
  BY <1>1, MessageIs, Descriptors DEF AsyncIInv, OtherDescriptors, Truthful
<1>3. /\ x_link' \in [Clients -> {"new", "backlog", "open", "closed"}]
      /\ \A d \in Clients : \/ x_link'[d] = x_link[d]
                            \/ x_link[d] = "backlog" /\ x_link'[d] = "closed"
  BY Zenon DEF AsyncIInv, XSockets, XTyped
<1>4. XSockets'
  <2>1. x_fdt' \in [Fds -> Clients \cup Listeners \cup {Free}]
    BY DEF AsyncIInv, XSockets, XTyped
  <2> QED
    BY <1>3, <2>1, RefuseSockets DEF AsyncIInv
<1>5. /\ enabled' \in [Fds -> SUBSET Async!Events]
      /\ \A f \in Fds : enabled'[f] = IF f = fd THEN enabled[f] \cup {"FD_ACCEPT"} ELSE enabled[f]
  BY <1>2, Zenon DEF AsyncIInv, AsyncTyped, Async!Events
<1>6. \A event \in enabled'[fd] :
         IF event = "FD_ACCEPT" THEN fd = listenfd ELSE fd \in SocketInfoList'
  BY <1>1, <1>2, <1>5 DEF AsyncIInv, Watched
<1>7. /\ a_pc # "crash" /\ a_pc' \in {"loop", "write"}
      /\ a_pc = "write" => wParam = fd
      /\ wParam' \in Fds
      /\ a_pc' = "write" => wParam' \in SocketInfoList'
      /\ rest = queue \/ (queue # <<>> /\ rest = Tail(queue) /\ Head(queue).sock = fd)
      /\ c = x_fdt'[fd] /\ x_fdt'[fd] = x_fdt[fd]
      /\ SocketInfoList' \subseteq Fds
      /\ fd \in SocketInfoList' <=> c \in Clients
      /\ a_info' \in [Fds -> Async!SOCKETINFO]
      /\ x_peer' = x_peer /\ x_sent' = x_sent
  BY <1>1, <1>2 DEF AsyncIInv, AsyncTyped, Listed
<1>8. \A f \in Fds : f # fd =>
         /\ x_fdt'[f] = x_fdt[f] /\ a_info'[f] = a_info[f]
         /\ f \in SocketInfoList' <=> f \in SocketInfoList
         /\ enabled'[f] = enabled[f]
  BY <1>5, Zenon
<1>9. \A d \in Clients :
         /\ x_link[d] \in {"open", "closed"} => x_link'[d] \in {"open", "closed"}
         /\ d # c => x_taken'[d] = x_taken[d] /\ x_out'[d] = x_out[d]
  BY <1>3
<1> QED
  BY <1>1, <1>2, <1>4, <1>5, <1>6, <1>7, <1>8, <1>9, AsyncHandlerStep, ZenonT(60)

LEMMA AsyncOnAcceptStep ==
    ASSUME AsyncIInv, Async!OnAccept, misled \subseteq misled', misled' \subseteq Clients
    PROVE  AsyncIInv'
<1>1. /\ a_pc = "loop" /\ queue # <<>> /\ ~ Head(queue).error /\ Head(queue).event = "FD_ACCEPT"
      /\ queue' = Tail(queue) /\ UNCHANGED <<a_pc, wParam>>
  BY DEF Async!OnAccept, Async!Handles, Async!Msg
<1>2. CASE \E c \in Clients, fd \in Fds :
              /\ x_link[c] = "backlog" /\ x_fdt[fd] = Free
              /\ x_link' = [x_link EXCEPT ![c] = "open"] /\ x_fdt' = [x_fdt EXCEPT ![fd] = c]
              /\ UNCHANGED <<x_peer, x_sent, x_taken, x_out, x_got>>
              /\ SocketInfoList' = SocketInfoList \cup {fd}
              /\ a_info' = [a_info EXCEPT ![fd] = Async!NewSocketInfo]
              /\ enabled' = [enabled EXCEPT ![Head(queue).sock] = @ \cup {"FD_ACCEPT"},
                                            ![fd] = {"FD_READ", "FD_WRITE", "FD_CLOSE"}]
  BY <1>1, <1>2, AsyncAcceptStep, Zenon
<1>3. CASE /\ \/ x_link' = x_link
              \/ \E c \in Clients : /\ x_link[c] = "backlog"
                                    /\ x_link' = [x_link EXCEPT ![c] = "closed"]
           /\ enabled' = [enabled EXCEPT ![Head(queue).sock] = @ \cup {"FD_ACCEPT"}]
           /\ UNCHANGED <<x_peer, x_sent, x_taken, x_out, x_got, x_fdt, SocketInfoList, a_info>>
  BY <1>1, <1>3, AsyncRefuseStep
<1> QED
  BY <1>2, <1>3, SameTypes DEF Async!OnAccept, Async!Accept, Async!AcceptAndClose,
                               Async!Backlog, Async!LowestFree, Async!Msg

(* The program ends on a null pointer. *)
LEMMA AsyncCrashStep ==
    ASSUME AsyncIInv, Async!NullPointer, misled \subseteq misled', misled' \subseteq Clients
    PROVE  AsyncIInv'
<1>1. /\ x_link' = [c \in Clients |-> IF x_link[c] \in {"backlog", "open"}
                                      THEN "closed" ELSE x_link[c]]
      /\ x_fdt' = [fd \in Fds |-> Free]
      /\ UNCHANGED <<x_peer, x_sent, x_taken, x_out, x_got>>
      /\ a_pc' = "crash" /\ SocketInfoList' = {} /\ queue' = <<>> /\ wParam' = listenfd
      /\ a_info' = [fd \in Fds |-> Async!NewSocketInfo]
      /\ enabled' = [fd \in Fds |-> {}]
  BY SameTypes DEF Async!NullPointer, Async!CloseAll, Async!listenfd, listenfd
<1>2. XSockets' /\ \A f \in Fds : x_fdt'[f] = Free
  BY <1>1, EndSockets DEF AsyncIInv
<1>3. OtherDescriptors(a_pc # "crash")'
  <2>1. OtherDescriptors(FALSE)'
    BY <1>2, Descriptors DEF OtherDescriptors
  <2> QED
    BY <1>1, <2>1, Zenon
<1>4. queue' \in Seq(Messages) /\ DOMAIN queue' = {}
  BY <1>1
<1>5. AsyncTyped' /\ Watched' /\ Listed'
  BY <1>1, <1>2, <1>4, NewInfoIs, Descriptors DEF AsyncTyped, Watched, Listed
<1>6. AsyncBooks' /\ \A c \in Clients : InOrderTo(c)'
  BY <1>1, <1>2, Descriptors DEF AsyncIInv, AsyncBooks, InOrderTo
<1> QED
  BY <1>1, <1>2, <1>3, <1>4, <1>5, <1>6 DEF AsyncIInv

(* What is not of the server's doing. *)
LEMMA AsyncRemoteStep ==
    ASSUME AsyncIInv, XSockets', UNCHANGED <<x_taken, x_out, x_fdt>>,
           UNCHANGED <<a_pc, wParam, SocketInfoList, a_info, enabled, queue, misled>>,
           \A d \in Clients : /\ x_peer[d] # "up" => x_peer'[d] # "up"
                              /\ x_sent'[d] >= x_sent[d]
                              /\ x_link[d] \in {"open", "closed"} =>
                                    x_link'[d] \in {"open", "closed"}
    PROVE  AsyncIInv'
<1>1. PICK fd, c : fd = listenfd /\ c = x_fdt'[listenfd]
  OBVIOUS
<1>2. fd \in Fds /\ c \notin Clients
  BY <1>1, Descriptors DEF AsyncIInv, OtherDescriptors, Listed
<1>3. /\ OtherDescriptors(a_pc # "crash")' /\ AsyncTyped' /\ Watched'
      /\ (fd \in SocketInfoList' <=> c \in Clients)
  BY <1>1, <1>2 DEF AsyncIInv, OtherDescriptors, AsyncTyped, Watched, Listed
<1>4. (\A k \in DOMAIN queue : Truthful(queue[k]))'
  <2> SUFFICES ASSUME NEW m, \E k \in DOMAIN queue' : queue'[k] = m PROVE Truthful(m)'
    OBVIOUS
  <2>1. Truthful(m)
    BY DEF AsyncIInv
  <2> QED
    BY <2>1, TruthfulKept
<1>5. \A f \in Fds : f # fd =>
         /\ x_fdt'[f] = x_fdt[f] /\ a_info'[f] = a_info[f]
         /\ f \in SocketInfoList' <=> f \in SocketInfoList
         /\ \A event \in {"FD_READ", "FD_WRITE"} :
               event \in enabled'[f] <=> event \in enabled[f]
         /\ Writes(f) => Writes(f)'
         /\ \A event \in {"FD_READ", "FD_WRITE"}, d \in Clients :
               /\ HasIn(queue', f, event, d) <=> HasIn(queue, f, event, d)
               /\ OnceIn(queue, f, event, d) => OnceIn(queue', f, event, d)
  BY DEF Writes
<1>6. /\ a_pc' = "write" => wParam' \in SocketInfoList'
      /\ a_pc' = "crash" => SocketInfoList' = {}
      /\ misled \subseteq misled' /\ c = x_fdt'[fd]
      /\ \A d \in Clients : /\ x_peer[d] # "up" => x_peer'[d] # "up"
                            /\ x_sent'[d] >= x_sent[d]
                            /\ d # c => x_taken'[d] = x_taken[d] /\ x_out'[d] = x_out[d]
  BY <1>1 DEF AsyncIInv
<1> QED
  BY <1>2, <1>3, <1>4, <1>5, <1>6, AsyncStep

LEMMA AsyncEnvironment ==
    ASSUME AsyncIInv, NEW c \in Clients, RemoteX(c),
           UNCHANGED <<a_pc, wParam, SocketInfoList, a_info, enabled, queue, misled>>
    PROVE  AsyncIInv'
<1>1. XSockets' /\ UNCHANGED <<x_taken, x_out, x_fdt>>
  BY RemoteSockets DEF AsyncIInv
<1>2. ASSUME NEW d \in Clients
      PROVE  /\ x_peer[d] # "up" => x_peer'[d] # "up"
             /\ x_sent'[d] >= x_sent[d]
             /\ x_link[d] \in {"open", "closed"} => x_link'[d] \in {"open", "closed"}
  <2>1. /\ x_link \in [Clients -> {"new", "backlog", "open", "closed"}]
        /\ x_peer \in [Clients -> {"up", "fin", "rst"}] /\ x_sent \in [Clients -> Nat]
    BY DEF AsyncIInv, XSockets, XTyped
  <2>2. x_sent'[d] = x_sent[d] \/ x_sent'[d] = x_sent[d] + 1
    BY <2>1, RemoteIs
  <2>3. x_peer[d] # "up" => x_peer'[d] # "up"
    BY <2>1, RemoteIs
  <2>4. x_link[d] \in {"open", "closed"} => x_link'[d] \in {"open", "closed"}
    BY <2>1, RemoteIs
  <2> QED
    BY <2>1, <2>2, <2>3, <2>4
<1> QED
  BY <1>1, <1>2, AsyncRemoteStep

LEMMA AsyncUnchanged ==
    ASSUME AsyncIInv, UNCHANGED <<x_link, x_peer, x_sent, x_taken, x_out, x_got, x_fdt>>,
           UNCHANGED <<a_pc, wParam, SocketInfoList, a_info, enabled, queue, misled>>
    PROVE  AsyncIInv'
<1>1. XSockets' /\ \A d \in Clients : x_sent'[d] >= x_sent[d]
  BY DEF AsyncIInv, XSockets, XTyped, Connections, InTime
<1> QED
  BY <1>1, AsyncRemoteStep

LEMMA AsyncServer == ASSUME AsyncIInv, Async!ProcessSocketMessage PROVE AsyncIInv'
<1>1. misled' = IF Async!Stale THEN misled \cup ({x_fdt[Async!Msg.sock]} \cap Clients) ELSE misled
  BY DEF Async!ProcessSocketMessage
<1>2. misled \subseteq misled' /\ misled' \subseteq Clients
  BY <1>1, MisledIs
<1>3. ASSUME a_pc = "loop", queue # <<>>, Head(queue).event # "FD_ACCEPT"
      PROVE  \A c \in Clients : c = x_fdt[Head(queue).sock] /\ c \notin misled' =>
                /\ c \notin misled
                /\ IsFor(Head(queue), Head(queue).sock, Head(queue).event, c)
  BY <1>1, <1>3, MisledIs
<1>4. CASE Async!DelayRecv
  <2>1. a_pc = "loop" /\ queue # <<>> /\ Head(queue).event = "FD_READ"
    BY <1>4 DEF Async!DelayRecv, Async!Handles, Async!Msg
  <2> QED
    BY <1>2, <1>3, <1>4, <2>1, AsyncDelayStep
<1>5. CASE Async!RecvCall
  <2>1. a_pc = "loop" /\ queue # <<>> /\ Head(queue).event = "FD_READ"
    BY <1>5 DEF Async!RecvCall, Async!Handles, Async!Msg
  <2> QED
    BY <1>2, <1>3, <1>5, <2>1, AsyncRecvStep
<1>6. CASE Async!OnError \/ Async!OnClose
  BY <1>2, <1>6, AsyncCloseStep
<1>7. CASE Async!OnAccept
  BY <1>2, <1>7, AsyncOnAcceptStep
<1>8. CASE Async!NullPointer
  BY <1>2, <1>8, AsyncCrashStep
<1>9. CASE \E fd \in Fds : \/ Async!NothingToSend(fd) \/ Async!SendPart(fd)
                          \/ Async!SendRest(fd) \/ Async!SendRemoves(fd)
  BY <1>2, <1>9, AsyncNothingStep, AsyncPartStep, AsyncRestStep, AsyncSendRemovesStep
<1> QED
  BY <1>4, <1>5, <1>6, <1>7, <1>8, <1>9, SameTypes DEF Async!ProcessSocketMessage

LEMMA AsyncNext ==
    ASSUME AsyncIInv, [Async!Next]_(Async!vars) PROVE AsyncIInv'
<1>1. CASE Async!ProcessSocketMessage
  BY <1>1, AsyncServer
<1>2. CASE \E fd \in Fds : Async!PostEvent(fd)
  BY <1>2, AsyncPostStep
<1>3. CASE Async!Environment
  <2>1. PICK c \in Clients : RemoteX(c)
    BY <1>3 DEF Async!Environment, RemoteX
  <2>2. UNCHANGED <<a_pc, wParam, SocketInfoList, a_info, enabled, queue, misled>>
    BY <1>3 DEF Async!Environment, Async!server
  <2> QED
    BY <2>1, <2>2, AsyncEnvironment
<1>4. CASE UNCHANGED Async!vars
  <2>1. /\ UNCHANGED <<x_link, x_peer, x_sent, x_taken, x_out, x_got, x_fdt>>
        /\ UNCHANGED <<a_pc, wParam, SocketInfoList, a_info, enabled, queue, misled>>
    BY <1>4 DEF Async!vars, Async!sockets, Async!server
  <2> QED
    BY <2>1, AsyncUnchanged
<1> QED
  BY <1>1, <1>2, <1>3, <1>4, SameTypes DEF Async!Next, Async!Server

LEMMA AsyncInit == ASSUME Async!Init PROVE AsyncIInv
<1>1. XSockets /\ \A f \in Fds : x_fdt[f] = IF f = listenfd THEN listen_sock ELSE Free
  <2>1. Async!SocketsInit([l \in Listeners |-> IF l = listen_sock THEN 3 ELSE 0])
    BY DEF Async!Init, Async!listenfd
  <2> QED
    BY <2>1, FirstSocket, SameTypes, Zenon DEF Async!SocketsInit
<1>2. /\ a_pc = "loop" /\ wParam = listenfd /\ SocketInfoList = {} /\ queue = <<>> /\ misled = {}
      /\ a_info = [fd \in Fds |-> Async!NewSocketInfo]
      /\ enabled = [fd \in Fds |-> IF fd = listenfd THEN {"FD_ACCEPT"} ELSE {}]
      /\ \A c \in Clients : x_out[c] = <<>>
  BY SameTypes DEF Async!Init, Async!SocketsInit, Async!listenfd, listenfd
<1>3. \A f \in Fds : x_fdt[f] \notin Clients
  BY <1>1, Descriptors
<1>4. OtherDescriptors(a_pc # "crash")
  <2>1. OtherDescriptors(TRUE)
    BY <1>1, <1>3 DEF OtherDescriptors
  <2> QED
    BY <1>2, <2>1, Zenon
<1>5. queue \in Seq(Messages) /\ DOMAIN queue = {}
  BY <1>2
<1>6. AsyncTyped /\ Watched /\ Listed
  BY <1>2, <1>3, <1>5, NewInfoIs, Descriptors DEF AsyncTyped, Watched, Listed, Async!Events
<1>7. AsyncBooks /\ \A c \in Clients : InOrderTo(c)
  <2>1. ASSUME NEW c \in Clients PROVE InOrderTo(c)
    <3>1. Len(x_out[c]) = 0
      BY <1>2
    <3> QED
      BY <3>1 DEF InOrderTo
  <2> QED
    BY <1>3, <2>1 DEF AsyncBooks
<1> QED
  BY <1>1, <1>2, <1>4, <1>5, <1>6, <1>7 DEF AsyncIInv

(* The right to call recv() for a connection that no old message has       *)
(* spoilt is in one place only.  See AsyncIInv.                            *)
THEOREM AsyncInvariance == Async!Spec => []AsyncIInv
<1>1. Async!Init => AsyncIInv
  BY AsyncInit
<1>2. AsyncIInv /\ [Async!Next]_(Async!vars) => AsyncIInv'
  BY AsyncNext
<1> QED
  BY <1>1, <1>2, PTL DEF Async!Spec

(* What the thread has sent a client and still has in its buffer. *)
LEMMA AsyncBacklog ==
    ASSUME AsyncIInv, NEW fd \in Fds, x_fdt[fd] \in Clients, NEW c, c = x_fdt[fd],
           NEW ptr, ptr = a_info[fd]
    PROVE  x_out[c] \o SubSeq(ptr.buf, ptr.sendbytes + 1, ptr.recvbytes)
              = Stream(c, x_taken[c])
<1>1. PICK s, took : s = x_out[c] /\ took = x_taken[c]
  OBVIOUS
<1>2. /\ s \in Seq(Bytes) /\ Len(s) \in Nat /\ took \in Nat
      /\ ptr.buf \in Seq(Bytes) /\ ptr.recvbytes \in Nat /\ ptr.sendbytes \in Nat
      /\ Booked(ptr, c, took, Len(s)) /\ c \in Clients
      /\ \A m \in 1 .. Len(s) : s[m] = <<c, m>>
  BY <1>1, ConnectionIs DEF InOrderTo
<1>3. PICK n : n = ptr.recvbytes - ptr.sendbytes
  OBVIOUS
<1>4. n \in Nat /\ ptr.sendbytes + n = ptr.recvbytes /\ took = Len(s) + n
  BY <1>2, <1>3 DEF Booked
<1>5. SubSeq(ptr.buf, ptr.sendbytes + 1, ptr.recvbytes) = Chunk(c, Len(s), n)
  <2>1. /\ c \in Clients /\ took \in Nat /\ Len(s) \in Nat
        /\ ptr.buf \in Seq(Bytes) /\ ptr.recvbytes \in Nat /\ ptr.sendbytes \in Nat
        /\ Booked(ptr, c, took, Len(s))
        /\ n \in Nat /\ n <= ptr.recvbytes - ptr.sendbytes
    BY <1>2, <1>3, <1>4
  <2>2. SubSeq(ptr.buf, ptr.sendbytes + 1, ptr.sendbytes + n) = Chunk(c, Len(s), n)
    BY ONLY <2>1, NextBytes, ZenonT(60)
  <2> QED
    BY <1>4, <2>2
<1>6. PICK t : t = s \o Chunk(c, Len(s), n)
  BY Zenon
<1>7. t \in Seq(Bytes) /\ Len(t) = took /\ \A m \in 1 .. Len(t) : t[m] = <<c, m>>
  <2>1. Chunk(c, Len(s), n) \in Seq(Bytes)
    BY <1>2, <1>4, ChunkType
  <2>2. t \in Seq(Bytes)
    <3> HIDE DEF Chunk
    <3> QED
      BY ONLY <1>2, <1>6, <2>1
  <2>3. /\ c \in Clients /\ s \in Seq(Bytes) /\ n \in Nat
        /\ \A m \in 1 .. Len(s) : s[m] = <<c, m>>
    BY <1>2, <1>4
  <2>4. /\ Len(s \o Chunk(c, Len(s), n)) = Len(s) + n
        /\ \A m \in 1 .. (Len(s) + n) : (s \o Chunk(c, Len(s), n))[m] = <<c, m>>
    BY ONLY <2>3, InOrder, ZenonT(60)
  <2>5. Len(t) = Len(s) + n /\ \A m \in 1 .. (Len(s) + n) : t[m] = <<c, m>>
    BY ONLY <1>6, <2>4
  <2> QED
    BY <1>4, <2>2, <2>5
<1>8. t = Stream(c, Len(t))
  BY <1>2, <1>7, WholeStream, Zenon
<1> QED
  BY <1>1, <1>5, <1>6, <1>7, <1>8, Zenon

LEMMA AsyncKeeps == ASSUME AsyncIInv PROVE Async!BufferIsBacklog
<1> SUFFICES ASSUME NEW fd \in SocketInfoList
             PROVE  LET ptr == a_info[fd]
                    IN  x_out[x_fdt[fd]] \o SubSeq(ptr.buf, ptr.sendbytes + 1, ptr.recvbytes)
                           = Async!Stream(x_fdt[fd], x_taken[x_fdt[fd]])
  BY Zenon DEF Async!BufferIsBacklog
<1>1. fd \in Fds /\ x_fdt[fd] \in Clients
  BY DEF AsyncIInv, AsyncTyped, Listed
<1> QED
  BY <1>1, AsyncBacklog, Zenon DEF Async!Stream, Stream

(* OneReadMessage counts what RightToRead says. *)
LEMMA AsyncQueued ==
    ASSUME NEW fd, NEW event, NEW c, c = x_fdt[fd]
    PROVE  /\ OnceIn(queue, fd, event, c) =>
                 Async!Queued(fd, event) = IF Waits(fd, event, c) THEN 1 ELSE 0
           /\ Waits(fd, event, c) /\ queue \in Seq(Messages) => Async!Queued(fd, event) > 0
<1> DEFINE Q == {k \in DOMAIN queue : IsFor(queue[k], fd, event, c)}
<1>1. Async!Queued(fd, event) = Cardinality(Q)
  <2>1. \A S : Async!Cardinality(S) = Cardinality(S)
    BY DEF Async!Cardinality, Cardinality
  <2>2. Async!Queued(fd, event) = Async!Cardinality(Q)
    BY DEF Async!Queued, Async!Quantify, IsFor
  <2> QED
    BY <2>1, <2>2
<1>2. (\E k \in Q : TRUE) <=> Waits(fd, event, c)
  BY DEF Waits, HasIn
<1>3. ASSUME OnceIn(queue, fd, event, c)
      PROVE  Async!Queued(fd, event) = IF Waits(fd, event, c) THEN 1 ELSE 0
  <2>1. \A k, l \in Q : k = l
    BY <1>3 DEF OnceIn
  <2> HIDE DEF Q
  <2> QED
    BY <1>1, <1>2, <2>1, AtMostOne
<1>4. ASSUME Waits(fd, event, c), queue \in Seq(Messages) PROVE Async!Queued(fd, event) > 0
  <2>1. IsFiniteSet(Q)
    <3>1. DOMAIN queue = 1 .. Len(queue) /\ Len(queue) \in Nat
      BY <1>4
    <3>2. IsFiniteSet(DOMAIN queue)
      BY <3>1, FS_Interval
    <3> QED
      BY <3>2, FS_Subset
  <2>2. Q # {}
    BY <1>2, <1>4
  <2> HIDE DEF Q
  <2>3. Cardinality(Q) \in Nat /\ Cardinality(Q) # 0
    BY <2>1, <2>2, FS_CardinalityType, FS_EmptySet
  <2> QED
    BY <1>1, <2>3
<1> QED
  BY <1>3, <1>4

LEMMA AsyncOneRead == ASSUME AsyncIInv PROVE Async!OneReadMessage
<1> SUFFICES ASSUME NEW fd \in {f \in SocketInfoList : x_fdt[f] \notin misled}
             PROVE  /\ Async!One("FD_READ" \in enabled[fd]) + Async!Queued(fd, "FD_READ")
                          + Async!One(a_info[fd].recvdelayed) = 1
                    /\ a_info[fd].recvdelayed => a_info[fd].recvbytes > a_info[fd].sendbytes
                    /\ a_info[fd].recvbytes > a_info[fd].sendbytes =>
                          \/ a_pc = "write" /\ wParam = fd
                          \/ "FD_WRITE" \in enabled[fd]
                          \/ Async!Queued(fd, "FD_WRITE") > 0
  BY DEF Async!OneReadMessage
<1>1. fd \in Fds /\ x_fdt[fd] \in Clients
  BY DEF AsyncIInv, AsyncTyped, Listed
<1>2. PICK c : c = x_fdt[fd]
  OBVIOUS
<1>3. RightToRead(fd, c)
  BY <1>1, <1>2, ConnectionIs
<1>4. Async!Queued(fd, "FD_READ") = IF Waits(fd, "FD_READ", c) THEN 1 ELSE 0
  BY <1>2, <1>3, AsyncQueued DEF RightToRead
<1>5. Async!One("FD_READ" \in enabled[fd]) = IF "FD_READ" \in enabled[fd] THEN 1 ELSE 0
  BY DEF Async!One
<1>6. Async!One(a_info[fd].recvdelayed) = IF Delayed(fd) THEN 1 ELSE 0
  BY Zenon DEF Async!One, Delayed
<1>7. /\ "FD_READ" \in enabled[fd] \/ Waits(fd, "FD_READ", c) \/ Delayed(fd)
      /\ "FD_READ" \in enabled[fd] => ~ Waits(fd, "FD_READ", c) /\ ~ Delayed(fd)
      /\ Waits(fd, "FD_READ", c) => ~ Delayed(fd)
      /\ Delayed(fd) => Busy(fd)
      /\ Busy(fd) => \/ Writes(fd)
                     \/ "FD_WRITE" \in enabled[fd]
                     \/ Waits(fd, "FD_WRITE", c)
  BY <1>3 DEF RightToRead
<1>8. Async!One("FD_READ" \in enabled[fd]) + Async!Queued(fd, "FD_READ")
         + Async!One(a_info[fd].recvdelayed) = 1
  BY ONLY <1>4, <1>5, <1>6, <1>7
<1>9. a_info[fd].recvdelayed => a_info[fd].recvbytes > a_info[fd].sendbytes
  BY <1>7, Zenon DEF Delayed, Busy
<1>10. Waits(fd, "FD_WRITE", c) => Async!Queued(fd, "FD_WRITE") > 0
  BY <1>2, AsyncQueued DEF AsyncIInv, AsyncTyped
<1> QED
  BY <1>7, <1>8, <1>9, <1>10 DEF Busy, Writes

LEMMA AsyncTypes == ASSUME AsyncIInv PROVE Async!TypeOK
  BY SameTypes DEF AsyncIInv, XSockets, AsyncTyped, Messages, Async!TypeOK

(* RemoveSocketInfo() closes one connection. *)
LEMMA RemoveCloses ==
    ASSUME AsyncIInv, NEW fd \in Fds, Async!RemoveSocketInfo(fd),
           NEW c \in Clients, Async!GivesUp(c)
    PROVE  x_fdt[fd] = c /\ fd \in SocketInfoList
<1>1. fd \in SocketInfoList
  BY DEF Async!RemoveSocketInfo, Async!sockets, Async!GivesUp
<1>2. x_link' = [x_link EXCEPT ![x_fdt[fd]] = "closed"]
  BY <1>1 DEF Async!RemoveSocketInfo, Async!Close
<1>3. c # x_fdt[fd] => x_link'[c] = x_link[c]
  BY <1>2 DEF AsyncIInv, XSockets, XTyped
<1> QED
  BY <1>1, <1>3 DEF Async!GivesUp

(* What a message of another event than FD_ACCEPT means for the owner of   *)
(* its socket: it is about the owner, or an old one.                       *)
LEMMA MessageOf ==
    ASSUME AsyncIInv, a_pc = "loop", queue # <<>>, Head(queue).event # "FD_ACCEPT",
           ~ Async!Stale
    PROVE  /\ x_fdt[Head(queue).sock] \in Clients
           /\ Head(queue).of = x_fdt[Head(queue).sock]
           /\ IsFor(Head(queue), Head(queue).sock, Head(queue).event, x_fdt[Head(queue).sock])
<1>1. Head(queue).of = x_fdt[Head(queue).sock]
  BY DEF Async!Stale, Async!Msg
<1>2. Head(queue).of \in Clients
  BY MessageIs DEF Truthful
<1> QED
  BY <1>1, <1>2 DEF IsFor

LEMMA AsyncClosesFor ==
    ASSUME AsyncIInv, Async!ProcessSocketMessage, NEW c \in Clients, Async!GivesUp(c)
    PROVE  Async!Excused(c)
<1> SUFFICES ASSUME ~ Async!Stale, c \notin misled, ~ Async!Unregistered(c)
             PROVE  x_peer[c] # "up" \/ Async!SendSpace(c) <= 0
  BY DEF Async!Excused
<1>1. CASE Async!OnError \/ Async!OnClose
  <2>1. /\ a_pc = "loop" /\ queue # <<>> /\ Async!RemoveSocketInfo(Head(queue).sock)
        /\ Head(queue).error \/ Head(queue).event = "FD_CLOSE"
    BY <1>1 DEF Async!OnError, Async!OnClose, Async!Handles, Async!Msg
  <2>2. Head(queue).sock \in Fds /\ Truthful(Head(queue))
    BY <2>1, MessageIs
  <2>3. Head(queue).event = "FD_CLOSE"
    BY <2>1, <2>2 DEF Truthful
  <2>4. x_fdt[Head(queue).sock] = c
    BY <2>1, <2>2, RemoveCloses
  <2>5. Head(queue).of = c
    BY <2>1, <2>3, <2>4, MessageOf
  <2> QED
    BY <2>2, <2>3, <2>5 DEF Truthful
<1>2. CASE Async!OnAccept
  <2>1. CASE \E d \in Clients, fd \in Fds :
                x_link[d] = "backlog" /\ x_link' = [x_link EXCEPT ![d] = "open"]
    BY <2>1 DEF Async!GivesUp, AsyncIInv, XSockets, XTyped
  <2>2. CASE \E d \in Clients : Async!AcceptAndClose(listen_sock, d)
    <3>1. PICK d \in Clients : Async!AcceptAndClose(listen_sock, d)
      BY <2>2
    <3>2. c = d
      BY <3>1 DEF Async!AcceptAndClose, Async!GivesUp, AsyncIInv, XSockets, XTyped
    <3> QED
      BY <1>2, <3>1, <3>2 DEF Async!OnAccept, Async!Unregistered
  <2>3. CASE \/ x_link' = x_link
             \/ \E d \in Clients : /\ x_peer[d] = "rst"
                                   /\ x_link' = [x_link EXCEPT ![d] = "closed"]
    BY <2>3 DEF Async!GivesUp, AsyncIInv, XSockets, XTyped
  <2> QED
    BY <1>2, <2>1, <2>2, <2>3, SameTypes DEF Async!OnAccept, Async!Accept, Async!Backlog
<1>3. CASE Async!NullPointer
  <2>1. /\ a_pc = "loop" /\ queue # <<>> /\ Head(queue).event # "FD_ACCEPT"
        /\ Head(queue).sock \notin SocketInfoList
    BY <1>3 DEF Async!NullPointer, Async!Handles, Async!Msg
  <2>2. x_fdt[Head(queue).sock] \in Clients /\ Head(queue).sock \in Fds
    BY <2>1, MessageOf, MessageIs
  <2> QED
    BY <2>1, <2>2 DEF AsyncIInv, Listed
<1>4. CASE Async!DelayRecv
  BY <1>4 DEF Async!DelayRecv, Async!sockets, Async!GivesUp
<1>5. CASE Async!RecvCall
  <2>1. /\ a_pc = "loop" /\ queue # <<>> /\ Head(queue).event = "FD_READ"
        /\ \/ x_link' = x_link
           \/ Async!RecvFails(x_fdt[Head(queue).sock]) /\ Async!RemoveSocketInfo(Head(queue).sock)
    BY <1>5, Zenon DEF Async!RecvCall, Async!Take, Async!Handles, Async!Msg
  <2>2. Async!RecvFails(x_fdt[Head(queue).sock]) /\ Async!RemoveSocketInfo(Head(queue).sock)
    BY <2>1 DEF Async!GivesUp
  <2>3. PICK fd \in Fds : fd = Head(queue).sock
    BY <2>1, MessageIs
  <2>4. x_fdt[fd] = c
    BY <2>2, <2>3, RemoveCloses
  <2>5. Waits(fd, "FD_READ", c)
    <3>1. IsFor(Head(queue), fd, "FD_READ", c)
      BY <2>1, <2>3, <2>4, MessageOf
    <3>2. PICK q, m, r : q = queue /\ m = Head(queue) /\ r = Tail(queue)
      BY Zenon
    <3>3. AfterFetch(q, m, r) /\ IsFor(m, fd, "FD_READ", c)
      BY <2>1, <3>1, <3>2, MessageIs
    <3>4. HasIn(q, fd, "FD_READ", c)
      BY ONLY <3>3 DEF AfterFetch
    <3> QED
      BY <3>2, <3>4 DEF Waits
  <2>6. RightToRead(fd, c) /\ x_taken[c] \in Nat /\ x_sent[c] \in Nat
    BY <2>4, ConnectionIs
  <2>7. x_taken[c] < x_sent[c] \/ x_peer[c] # "up"
    BY ONLY <2>5, <2>6 DEF RightToRead
  <2>8. x_peer[c] = "rst" \/ (x_peer[c] = "up" /\ x_sent[c] - x_taken[c] = 0)
    BY <2>2, <2>3, <2>4 DEF Async!RecvFails, Async!RecvWouldBlock, Async!Unread
  <2> QED
    BY <2>6, <2>7, <2>8
<1>6. CASE \E fd \in Fds : \/ Async!NothingToSend(fd) \/ Async!SendPart(fd)
                          \/ Async!SendRest(fd)
  <2>1. x_link' = x_link
    BY <1>6, Zenon
    DEF Async!NothingToSend, Async!SendPart, Async!SendRest, Async!Give, Async!sockets
  <2> QED
    BY <2>1 DEF Async!GivesUp
<1>7. CASE \E fd \in Fds : Async!SendRemoves(fd)
  <2>1. PICK fd \in Fds : Async!SendRemoves(fd)
    BY <1>7
  <2>2. PICK n : Async!SendFails(x_fdt[fd], n) /\ Async!RemoveSocketInfo(fd)
    BY <2>1 DEF Async!SendRemoves
  <2>3. x_fdt[fd] = c
    BY <2>2, RemoveCloses
  <2> QED
    BY <2>2, <2>3 DEF Async!SendFails
<1> QED
  BY <1>1, <1>2, <1>3, <1>4, <1>5, <1>6, <1>7, SameTypes DEF Async!ProcessSocketMessage

LEMMA AsyncGivesUp ==
    ASSUME AsyncIInv, [Async!Next]_(Async!vars), NEW c \in Clients, Async!GivesUp(c)
    PROVE  Async!Excused(c)
<1>1. CASE Async!ProcessSocketMessage
  BY <1>1, AsyncClosesFor
<1>2. CASE \E fd \in Fds : Async!PostEvent(fd)
  BY <1>2 DEF Async!PostEvent, Async!sockets, Async!GivesUp
<1>3. CASE Async!Environment
  <2>1. PICK d \in Clients : RemoteX(d)
    BY <1>3 DEF Async!Environment, RemoteX
  <2>2. x_link' = x_link \/ (x_link[d] = "new" /\ x_link' = [x_link EXCEPT ![d] = "backlog"])
    BY <2>1, RemoteIs
  <2> QED
    BY <2>2, Zenon DEF Async!GivesUp, AsyncIInv, XSockets, XTyped
<1>4. CASE UNCHANGED Async!vars
  BY <1>4 DEF Async!vars, Async!sockets, Async!GivesUp
<1> QED
  BY <1>1, <1>2, <1>3, <1>4, SameTypes DEF Async!Next, Async!Server

(* The variables of the server with window messages stay in their sets. *)
THEOREM AsyncTypeCorrect == Async!Spec => []Async!TypeOK
<1>1. AsyncIInv => Async!TypeOK
  BY AsyncTypes
<1> QED
  BY <1>1, AsyncInvariance, PTL

(* Whatever the lengths of the buffers, and however often Windows gives a  *)
(* new connection the socket of an old one: while no message of an old     *)
(* connection has reached a new one, the right to call recv() for it is    *)
(* neither lost nor doubled, and a full buffer will be emptied.            *)
THEOREM OneReadLeft == Async!Spec => []Async!OneReadMessage
<1>1. AsyncIInv => Async!OneReadMessage
  BY AsyncOneRead
<1> QED
  BY <1>1, AsyncInvariance, PTL

(* Misled or not, the server sends a client the bytes of this client, each *)
(* once and in order.                                                      *)
THEOREM BacklogKept == Async!Spec => []Async!BufferIsBacklog
<1>1. AsyncIInv => Async!BufferIsBacklog
  BY AsyncKeeps
<1> QED
  BY <1>1, AsyncInvariance, PTL

(* A connection, accepted or not, is only given up when its client has     *)
(* left, when send() would block, because of a message of an earlier       *)
(* connection, or when WSAAsyncSelect() fails for the one just accepted.   *)
THEOREM GivenUpFor ==
    Async!Spec => [][\A c \in Clients : Async!GivesUp(c) => Async!Excused(c)]_(Async!vars)
<1>1. AsyncIInv /\ [Async!Next]_(Async!vars) =>
         [\A c \in Clients : Async!GivesUp(c) => Async!Excused(c)]_(Async!vars)
  BY AsyncGivesUp
<1> QED
  BY <1>1, AsyncInvariance, PTL DEF Async!Spec

-----------------------------------------------------------------------------
(* The completion port server and the servers that block in send() as echo *)
(* servers.                                                                *)

XOpen == {c \in Clients : x_link[c] = "open"}
XNoFreeFd == \A f \in Fds : x_fdt[f] # Free

(* What EchoSpec allows, said of x_link, x_peer, x_sent and x_out: the     *)
(* remote programs,                                                        *)
Heard(runs) ==
    \E c \in Clients :
       \/ /\ runs /\ x_link[c] = "new" /\ x_link' = [x_link EXCEPT ![c] = "backlog"]
          /\ UNCHANGED <<x_peer, x_sent, x_out>>
       \/ /\ x_link[c] \in {"backlog", "open"} /\ x_peer[c] = "up"
          /\ x_sent' = [x_sent EXCEPT ![c] = @ + 1]
          /\ UNCHANGED <<x_link, x_peer, x_out>>
       \/ /\ x_link[c] \in {"backlog", "open"}
          /\ \/ x_peer[c] = "up" /\ x_peer' = [x_peer EXCEPT ![c] = "fin"]
             \/ x_peer[c] # "rst" /\ x_peer' = [x_peer EXCEPT ![c] = "rst"]
          /\ UNCHANGED <<x_link, x_sent, x_out>>

(* the server as it runs,                                                  *)
Admits(c, places) ==
    /\ x_link[c] = "backlog" /\ Cardinality(XOpen) < places
    /\ x_link' = [x_link EXCEPT ![c] = "open"] /\ UNCHANGED <<x_peer, x_sent, x_out>>
Refuses(c, places) ==
    /\ x_link[c] = "backlog" /\ Cardinality(XOpen) >= places
    /\ x_link' = [x_link EXCEPT ![c] = "closed"] /\ UNCHANGED <<x_peer, x_sent, x_out>>
Drops(c) ==
    /\ x_link[c] = "open"
    /\ x_peer[c] = "rst" \/ (x_peer[c] = "fin" /\ Len(x_out[c]) = x_sent[c])
    /\ x_link' = [x_link EXCEPT ![c] = "closed"] /\ UNCHANGED <<x_peer, x_sent, x_out>>
Gives(c, n) ==
    /\ x_link[c] = "open" /\ Len(x_out[c]) + n <= x_sent[c]
    /\ x_out' = [x_out EXCEPT ![c] = @ \o [k \in 1 .. n |-> <<c, Len(x_out[c]) + k>>]]
    /\ UNCHANGED <<x_link, x_peer, x_sent>>
Works(places) ==
    \E c \in Clients : \/ Admits(c, places) \/ Refuses(c, places) \/ Drops(c)
                       \/ \E n \in 1 .. (x_sent[c] - Len(x_out[c])) : Gives(c, n)

(* and its end.                                                            *)
Ends(places) ==
    /\ \/ Cardinality(XOpen) >= places
       \/ \E c \in Clients : x_link[c] \in {"backlog", "open"} /\ x_peer[c] = "rst"
    /\ x_link' = [c \in Clients |-> IF x_link[c] \in {"backlog", "open"}
                                    THEN "closed" ELSE x_link[c]]
    /\ UNCHANGED <<x_peer, x_sent, x_out>>

Quiet == UNCHANGED <<x_link, x_peer, x_sent, x_out>>

EchoStep(places, runs, goeson) ==
    \/ (runs <=> goeson) /\ (Quiet \/ Heard(runs) \/ (runs /\ Works(places)))
    \/ runs /\ ~ goeson /\ Ends(places)

(* Which is what the two instances of EchoSpec allow.                      *)
Going == main # "exit" /\ loop[listen_sock] = "runs"

LEMMA BlockingShows ==
    ASSUME program \in Blocking, program' = program
    PROVE  /\ Shown(Blocking, x_link, Always("new")) = x_link
           /\ Shown(Blocking, x_link, Always("new"))' = x_link'
           /\ Shown(Blocking, x_peer, Always("up")) = x_peer
           /\ Shown(Blocking, x_peer, Always("up"))' = x_peer'
           /\ Shown(Blocking, x_sent, Always(0)) = x_sent
           /\ Shown(Blocking, x_sent, Always(0))' = x_sent'
           /\ Shown(Blocking, x_out, Always(<<>>)) = x_out
           /\ Shown(Blocking, x_out, Always(<<>>))' = x_out'
           /\ Shown(Blocking, main # "exit" /\ loop[listen_sock] = "runs", TRUE) <=> Going
           /\ Shown(Blocking, main # "exit" /\ loop[listen_sock] = "runs", TRUE)' <=> Going'
           /\ EchoBlocking!Open = XOpen
           /\ \A S : EchoBlocking!Cardinality(S) = Cardinality(S)
<1>1. /\ Shown(Blocking, x_link, Always("new")) = x_link
      /\ Shown(Blocking, x_link, Always("new"))' = x_link'
      /\ Shown(Blocking, x_peer, Always("up")) = x_peer
      /\ Shown(Blocking, x_peer, Always("up"))' = x_peer'
      /\ Shown(Blocking, x_sent, Always(0)) = x_sent
      /\ Shown(Blocking, x_sent, Always(0))' = x_sent'
      /\ Shown(Blocking, x_out, Always(<<>>)) = x_out
      /\ Shown(Blocking, x_out, Always(<<>>))' = x_out'
      /\ Shown(Blocking, main # "exit" /\ loop[listen_sock] = "runs", TRUE) <=> Going
      /\ Shown(Blocking, main # "exit" /\ loop[listen_sock] = "runs", TRUE)' <=> Going'
  BY DEF Shown, Going, Blocking
<1>2. EchoBlocking!Open = XOpen
  BY <1>1 DEF EchoBlocking!Open, XOpen
<1>3. \A S : EchoBlocking!Cardinality(S) = Cardinality(S)
  BY DEF EchoBlocking!Cardinality, Cardinality
<1> QED
  BY <1>1, <1>2, <1>3, Zenon

LEMMA BlockingGoes ==
    ASSUME program \in Blocking, program' = program, Going <=> Going'
    PROVE  Shown(Blocking, main # "exit" /\ loop[listen_sock] = "runs", TRUE)'
              = Shown(Blocking, main # "exit" /\ loop[listen_sock] = "runs", TRUE)
<1>1. (main # "exit" /\ loop[listen_sock] = "runs")' = (main # "exit" /\ loop[listen_sock] = "runs")
  BY Zenon DEF Going
<1> QED
  BY <1>1, Zenon DEF Shown

LEMMA BlockingStep ==
    ASSUME program \in Blocking, program' = program, EchoStep(Cardinality(Fds) - 1, Going, Going')
    PROVE  [EchoBlocking!Next]_(EchoBlocking!vars)
<1>1. CASE (Going <=> Going') /\ Quiet
  <2>1. UNCHANGED <<Shown(Blocking, x_link, Always("new")), Shown(Blocking, x_peer, Always("up")),
                    Shown(Blocking, x_sent, Always(0)), Shown(Blocking, x_out, Always(<<>>))>>
    BY <1>1, BlockingShows DEF Quiet
  <2> QED
    BY <1>1, <2>1, BlockingGoes, Zenon DEF EchoBlocking!vars
<1>2. CASE (Going <=> Going') /\ Heard(Going)
  <2>1. PICK c \in Clients :
           \/ /\ Going /\ x_link[c] = "new" /\ x_link' = [x_link EXCEPT ![c] = "backlog"]
              /\ UNCHANGED <<x_peer, x_sent, x_out>>
           \/ /\ x_link[c] \in {"backlog", "open"} /\ x_peer[c] = "up"
              /\ x_sent' = [x_sent EXCEPT ![c] = @ + 1]
              /\ UNCHANGED <<x_link, x_peer, x_out>>
           \/ /\ x_link[c] \in {"backlog", "open"}
              /\ \/ x_peer[c] = "up" /\ x_peer' = [x_peer EXCEPT ![c] = "fin"]
                 \/ x_peer[c] # "rst" /\ x_peer' = [x_peer EXCEPT ![c] = "rst"]
              /\ UNCHANGED <<x_link, x_sent, x_out>>
    BY <1>2 DEF Heard
  <2>2. CASE /\ Going /\ x_link[c] = "new" /\ x_link' = [x_link EXCEPT ![c] = "backlog"]
             /\ UNCHANGED <<x_peer, x_sent, x_out>>
    <3>1. EchoBlocking!Connect(c)
      BY <1>2, <2>2, BlockingShows, BlockingGoes, Zenon DEF EchoBlocking!Connect
    <3> QED
      BY <3>1, Zenon DEF EchoBlocking!Next
  <2>3. CASE /\ x_link[c] \in {"backlog", "open"} /\ x_peer[c] = "up"
             /\ x_sent' = [x_sent EXCEPT ![c] = @ + 1]
             /\ UNCHANGED <<x_link, x_peer, x_out>>
    <3>1. EchoBlocking!Receive(c)
      BY <1>2, <2>3, BlockingShows, BlockingGoes, Zenon DEF EchoBlocking!Receive
    <3> QED
      BY <3>1, Zenon DEF EchoBlocking!Next
  <2>4. ASSUME NEW how \in {"fin", "rst"}, x_link[c] \in {"backlog", "open"},
               x_peer[c] # how, x_peer[c] # "rst", x_peer' = [x_peer EXCEPT ![c] = how],
               UNCHANGED <<x_link, x_sent, x_out>>
        PROVE  EchoBlocking!Next
    <3>1. how \in {"fin", "rst"} \ {x_peer[c]}
      BY <2>4
    <3>2. EchoBlocking!HangUp(c, how)
      BY <1>2, <2>4, <3>1, BlockingShows, BlockingGoes, Zenon DEF EchoBlocking!HangUp
    <3> QED
      BY <3>2, Zenon DEF EchoBlocking!Next
  <2> QED
    BY <2>1, <2>2, <2>3, <2>4
<1>3. CASE (Going <=> Going') /\ Going /\ Works(Cardinality(Fds) - 1)
  <2>1. PICK c \in Clients :
           \/ Admits(c, Cardinality(Fds) - 1) \/ Refuses(c, Cardinality(Fds) - 1) \/ Drops(c)
           \/ \E n \in 1 .. (x_sent[c] - Len(x_out[c])) : Gives(c, n)
    BY <1>3 DEF Works
  <2>2. CASE Admits(c, Cardinality(Fds) - 1)
    <3>1. EchoBlocking!Admit(c)
      BY <1>3, <2>2, BlockingShows, BlockingGoes, Zenon DEF Admits, EchoBlocking!Admit
    <3> QED
      BY <3>1, Zenon DEF EchoBlocking!Next
  <2>3. CASE Refuses(c, Cardinality(Fds) - 1)
    <3>1. EchoBlocking!Refuse(c)
      BY <1>3, <2>3, BlockingShows, BlockingGoes, Zenon DEF Refuses, EchoBlocking!Refuse
    <3> QED
      BY <3>1, Zenon DEF EchoBlocking!Next
  <2>4. CASE Drops(c)
    <3>1. EchoBlocking!Drop(c)
      BY <1>3, <2>4, BlockingShows, BlockingGoes, Zenon
      DEF Drops, EchoBlocking!Drop, EchoBlocking!Echoed
    <3> QED
      BY <3>1, Zenon DEF EchoBlocking!Next
  <2>5. ASSUME NEW n \in 1 .. (x_sent[c] - Len(x_out[c])), Gives(c, n)
        PROVE  EchoBlocking!Next
    <3>1. EchoBlocking!Echo(c, n)
      BY <1>3, <2>5, BlockingShows, BlockingGoes, ZenonT(60)
      DEF Gives, EchoBlocking!Echo, EchoBlocking!Echoed
    <3>2. n \in 1 .. (Shown(Blocking, x_sent, Always(0))[c] - EchoBlocking!Echoed(c))
      BY <2>5, BlockingShows DEF EchoBlocking!Echoed
    <3> QED
      BY <3>1, <3>2, Zenon DEF EchoBlocking!Next
  <2> QED
    BY <2>1, <2>2, <2>3, <2>4, <2>5
<1>4. CASE Going /\ ~ Going' /\ Ends(Cardinality(Fds) - 1)
  <2>1. Shown(Blocking, main # "exit" /\ loop[listen_sock] = "runs", TRUE)' = FALSE
    <3>1. (main # "exit" /\ loop[listen_sock] = "runs")' = FALSE
      BY <1>4, Zenon DEF Going
    <3> QED
      BY <3>1, Zenon DEF Shown
  <2>2. EchoBlocking!Stop
    <3>1. \/ EchoBlocking!Cardinality(EchoBlocking!Open) >= Cardinality(Fds) - 1
          \/ \E c \in Clients : /\ Shown(Blocking, x_link, Always("new"))[c] \in {"backlog", "open"}
                                /\ Shown(Blocking, x_peer, Always("up"))[c] = "rst"
      BY <1>4, BlockingShows DEF Ends
    <3>2. Shown(Blocking, x_link, Always("new"))' =
             [c \in Clients |-> IF Shown(Blocking, x_link, Always("new"))[c] \in {"backlog", "open"}
                                THEN "closed" ELSE Shown(Blocking, x_link, Always("new"))[c]]
      BY <1>4, BlockingShows DEF Ends
    <3>3. UNCHANGED <<Shown(Blocking, x_peer, Always("up")),
                      Shown(Blocking, x_sent, Always(0)),
                      Shown(Blocking, x_out, Always(<<>>))>>
      BY <1>4, BlockingShows DEF Ends
    <3>4. Shown(Blocking, main # "exit" /\ loop[listen_sock] = "runs", TRUE)
      BY <1>4, BlockingShows, Zenon
    <3> QED
      BY <2>1, <3>1, <3>2, <3>3, <3>4, Zenon DEF EchoBlocking!Stop
  <2> QED
    BY <2>2, Zenon DEF EchoBlocking!Next
<1> QED
  BY <1>1, <1>2, <1>3, <1>4, Zenon DEF EchoStep

LoopGoes == loop[listen_sock] = "runs"

LEMMA ThreadsShows ==
    ASSUME program \in {"ThreadTCPServer"}, program' = program
    PROVE  /\ Shown({"ThreadTCPServer"}, x_link, Always("new")) = x_link
           /\ Shown({"ThreadTCPServer"}, x_link, Always("new"))' = x_link'
           /\ Shown({"ThreadTCPServer"}, x_peer, Always("up")) = x_peer
           /\ Shown({"ThreadTCPServer"}, x_peer, Always("up"))' = x_peer'
           /\ Shown({"ThreadTCPServer"}, x_sent, Always(0)) = x_sent
           /\ Shown({"ThreadTCPServer"}, x_sent, Always(0))' = x_sent'
           /\ Shown({"ThreadTCPServer"}, x_out, Always(<<>>)) = x_out
           /\ Shown({"ThreadTCPServer"}, x_out, Always(<<>>))' = x_out'
           /\ Shown({"ThreadTCPServer"}, loop[listen_sock] = "runs", TRUE) <=> LoopGoes
           /\ Shown({"ThreadTCPServer"}, loop[listen_sock] = "runs", TRUE)' <=> LoopGoes'
           /\ EchoThreads!Open = XOpen
           /\ \A S : EchoThreads!Cardinality(S) = Cardinality(S)
<1>1. /\ Shown({"ThreadTCPServer"}, x_link, Always("new")) = x_link
      /\ Shown({"ThreadTCPServer"}, x_link, Always("new"))' = x_link'
      /\ Shown({"ThreadTCPServer"}, x_peer, Always("up")) = x_peer
      /\ Shown({"ThreadTCPServer"}, x_peer, Always("up"))' = x_peer'
      /\ Shown({"ThreadTCPServer"}, x_sent, Always(0)) = x_sent
      /\ Shown({"ThreadTCPServer"}, x_sent, Always(0))' = x_sent'
      /\ Shown({"ThreadTCPServer"}, x_out, Always(<<>>)) = x_out
      /\ Shown({"ThreadTCPServer"}, x_out, Always(<<>>))' = x_out'
      /\ Shown({"ThreadTCPServer"}, loop[listen_sock] = "runs", TRUE) <=> LoopGoes
      /\ Shown({"ThreadTCPServer"}, loop[listen_sock] = "runs", TRUE)' <=> LoopGoes'
  BY DEF Shown, LoopGoes
<1>2. EchoThreads!Open = XOpen
  BY <1>1 DEF EchoThreads!Open, XOpen
<1>3. \A S : EchoThreads!Cardinality(S) = Cardinality(S)
  BY DEF EchoThreads!Cardinality, Cardinality
<1> QED
  BY <1>1, <1>2, <1>3, Zenon

LEMMA ThreadsGoes ==
    ASSUME program \in {"ThreadTCPServer"}, program' = program, LoopGoes <=> LoopGoes'
    PROVE  Shown({"ThreadTCPServer"}, loop[listen_sock] = "runs", TRUE)'
              = Shown({"ThreadTCPServer"}, loop[listen_sock] = "runs", TRUE)
<1>1. (loop[listen_sock] = "runs")' = (loop[listen_sock] = "runs")
  BY Zenon DEF LoopGoes
<1> QED
  BY <1>1, Zenon DEF Shown

LEMMA ThreadsStep ==
    ASSUME program \in {"ThreadTCPServer"}, program' = program,
           EchoStep(Places, LoopGoes, LoopGoes')
    PROVE  [EchoThreads!Next]_(EchoThreads!vars)
<1>1. CASE (LoopGoes <=> LoopGoes') /\ Quiet
  <2>1. UNCHANGED <<Shown({"ThreadTCPServer"}, x_link, Always("new")),
                    Shown({"ThreadTCPServer"}, x_peer, Always("up")),
                    Shown({"ThreadTCPServer"}, x_sent, Always(0)),
                    Shown({"ThreadTCPServer"}, x_out, Always(<<>>))>>
    BY <1>1, ThreadsShows DEF Quiet
  <2> QED
    BY <1>1, <2>1, ThreadsGoes, Zenon DEF EchoThreads!vars
<1>2. CASE (LoopGoes <=> LoopGoes') /\ Heard(LoopGoes)
  <2>1. PICK c \in Clients :
           \/ /\ LoopGoes /\ x_link[c] = "new" /\ x_link' = [x_link EXCEPT ![c] = "backlog"]
              /\ UNCHANGED <<x_peer, x_sent, x_out>>
           \/ /\ x_link[c] \in {"backlog", "open"} /\ x_peer[c] = "up"
              /\ x_sent' = [x_sent EXCEPT ![c] = @ + 1]
              /\ UNCHANGED <<x_link, x_peer, x_out>>
           \/ /\ x_link[c] \in {"backlog", "open"}
              /\ \/ x_peer[c] = "up" /\ x_peer' = [x_peer EXCEPT ![c] = "fin"]
                 \/ x_peer[c] # "rst" /\ x_peer' = [x_peer EXCEPT ![c] = "rst"]
              /\ UNCHANGED <<x_link, x_sent, x_out>>
    BY <1>2 DEF Heard
  <2>2. CASE /\ LoopGoes /\ x_link[c] = "new" /\ x_link' = [x_link EXCEPT ![c] = "backlog"]
             /\ UNCHANGED <<x_peer, x_sent, x_out>>
    <3>1. EchoThreads!Connect(c)
      BY <1>2, <2>2, ThreadsShows, ThreadsGoes, Zenon DEF EchoThreads!Connect
    <3> QED
      BY <3>1, Zenon DEF EchoThreads!Next
  <2>3. CASE /\ x_link[c] \in {"backlog", "open"} /\ x_peer[c] = "up"
             /\ x_sent' = [x_sent EXCEPT ![c] = @ + 1]
             /\ UNCHANGED <<x_link, x_peer, x_out>>
    <3>1. EchoThreads!Receive(c)
      BY <1>2, <2>3, ThreadsShows, ThreadsGoes, Zenon DEF EchoThreads!Receive
    <3> QED
      BY <3>1, Zenon DEF EchoThreads!Next
  <2>4. ASSUME NEW how \in {"fin", "rst"}, x_link[c] \in {"backlog", "open"},
               x_peer[c] # how, x_peer[c] # "rst", x_peer' = [x_peer EXCEPT ![c] = how],
               UNCHANGED <<x_link, x_sent, x_out>>
        PROVE  EchoThreads!Next
    <3>1. how \in {"fin", "rst"} \ {x_peer[c]}
      BY <2>4
    <3>2. EchoThreads!HangUp(c, how)
      BY <1>2, <2>4, <3>1, ThreadsShows, ThreadsGoes, Zenon DEF EchoThreads!HangUp
    <3> QED
      BY <3>2, Zenon DEF EchoThreads!Next
  <2> QED
    BY <2>1, <2>2, <2>3, <2>4
<1>3. CASE (LoopGoes <=> LoopGoes') /\ LoopGoes /\ Works(Places)
  <2>1. PICK c \in Clients :
           \/ Admits(c, Places) \/ Refuses(c, Places) \/ Drops(c)
           \/ \E n \in 1 .. (x_sent[c] - Len(x_out[c])) : Gives(c, n)
    BY <1>3 DEF Works
  <2>2. CASE Admits(c, Places)
    <3>1. EchoThreads!Admit(c)
      BY <1>3, <2>2, ThreadsShows, ThreadsGoes, Zenon DEF Admits, EchoThreads!Admit
    <3> QED
      BY <3>1, Zenon DEF EchoThreads!Next
  <2>3. CASE Refuses(c, Places)
    <3>1. EchoThreads!Refuse(c)
      BY <1>3, <2>3, ThreadsShows, ThreadsGoes, Zenon DEF Refuses, EchoThreads!Refuse
    <3> QED
      BY <3>1, Zenon DEF EchoThreads!Next
  <2>4. CASE Drops(c)
    <3>1. EchoThreads!Drop(c)
      BY <1>3, <2>4, ThreadsShows, ThreadsGoes, Zenon
      DEF Drops, EchoThreads!Drop, EchoThreads!Echoed
    <3> QED
      BY <3>1, Zenon DEF EchoThreads!Next
  <2>5. ASSUME NEW n \in 1 .. (x_sent[c] - Len(x_out[c])), Gives(c, n)
        PROVE  EchoThreads!Next
    <3>1. EchoThreads!Echo(c, n)
      BY <1>3, <2>5, ThreadsShows, ThreadsGoes, ZenonT(60)
      DEF Gives, EchoThreads!Echo, EchoThreads!Echoed
    <3>2. n \in 1 .. (Shown({"ThreadTCPServer"}, x_sent, Always(0))[c] - EchoThreads!Echoed(c))
      BY <2>5, ThreadsShows DEF EchoThreads!Echoed
    <3> QED
      BY <3>1, <3>2, Zenon DEF EchoThreads!Next
  <2> QED
    BY <2>1, <2>2, <2>3, <2>4, <2>5
<1>4. CASE LoopGoes /\ ~ LoopGoes' /\ Ends(Places)
  <2>1. Shown({"ThreadTCPServer"}, loop[listen_sock] = "runs", TRUE)' = FALSE
    <3>1. (loop[listen_sock] = "runs")' = FALSE
      BY <1>4, Zenon DEF LoopGoes
    <3> QED
      BY <3>1, Zenon DEF Shown
  <2>2. EchoThreads!Stop
    <3>1. \/ EchoThreads!Cardinality(EchoThreads!Open) >= Places
          \/ \E c \in Clients :
                /\ Shown({"ThreadTCPServer"}, x_link, Always("new"))[c] \in {"backlog", "open"}
                /\ Shown({"ThreadTCPServer"}, x_peer, Always("up"))[c] = "rst"
      BY <1>4, ThreadsShows DEF Ends
    <3>2. Shown({"ThreadTCPServer"}, x_link, Always("new"))' =
             [c \in Clients |->
                IF Shown({"ThreadTCPServer"}, x_link, Always("new"))[c] \in {"backlog", "open"}
                THEN "closed" ELSE Shown({"ThreadTCPServer"}, x_link, Always("new"))[c]]
      BY <1>4, ThreadsShows DEF Ends
    <3>3. UNCHANGED <<Shown({"ThreadTCPServer"}, x_peer, Always("up")),
                      Shown({"ThreadTCPServer"}, x_sent, Always(0)),
                      Shown({"ThreadTCPServer"}, x_out, Always(<<>>))>>
      BY <1>4, ThreadsShows DEF Ends
    <3>4. Shown({"ThreadTCPServer"}, loop[listen_sock] = "runs", TRUE)
      BY <1>4, ThreadsShows, Zenon
    <3> QED
      BY <2>1, <3>1, <3>2, <3>3, <3>4, Zenon DEF EchoThreads!Stop
  <2> QED
    BY <2>2, Zenon DEF EchoThreads!Next
<1> QED
  BY <1>1, <1>2, <1>3, <1>4, Zenon DEF EchoStep

(* There are as many open connections as descriptors in use, the listening *)
(* socket's left out.                                                      *)
LEMMA XConnections ==
    ASSUME XSockets, OtherDescriptors(TRUE)
    PROVE  /\ Cardinality(Fds) \in Nat /\ Cardinality(XOpen) \in Nat
           /\ XNoFreeFd => Cardinality(XOpen) = Cardinality(Fds) - 1
           /\ ~ XNoFreeFd => Cardinality(XOpen) < Cardinality(Fds) - 1
<1> DEFINE others == Fds \ {listenfd}
           used == {f \in others : x_fdt[f] \in Clients}
<1>1. /\ IsFiniteSet(Fds) /\ Cardinality(Fds) \in Nat
      /\ IsFiniteSet(others) /\ Cardinality(others) = Cardinality(Fds) - 1
  <2>1. 3 \in Int /\ NOFILE - 1 \in Int /\ listenfd \in Fds
    BY EPollAssumption, SocketsAssumption DEF listenfd, Fds
  <2>2. IsFiniteSet(3 .. (NOFILE - 1))
    BY <2>1, FS_Interval
  <2>3. IsFiniteSet(Fds)
    BY <2>2 DEF Fds
  <2> QED
    BY <2>1, <2>3, FS_RemoveElement, FS_CardinalityType
<1>2. /\ IsFiniteSet(used) /\ Cardinality(used) \in Nat
      /\ Cardinality(used) <= Cardinality(others)
      /\ Cardinality(used) = Cardinality(others) => used = others
  <2>1. used \subseteq others
    OBVIOUS
  <2> HIDE DEF used, others
  <2> QED
    BY <1>1, <2>1, FS_Subset, FS_CardinalityType
<1>3. Cardinality(XOpen) = Cardinality(used)
  <2> DEFINE owner == [f \in used |-> x_fdt[f]]
  <2>1. \A f \in used : x_fdt[f] \in XOpen
    BY DEF XOpen, XSockets, Connections
  <2>2. \A f, g \in used : x_fdt[f] = x_fdt[g] => f = g
    BY DEF XSockets, Connections
  <2>3. \A c \in XOpen : \E f \in used : x_fdt[f] = c
    BY Descriptors DEF XOpen, XSockets, Connections, OtherDescriptors
  <2> HIDE DEF used
  <2>4. owner \in Bijection(used, XOpen)
    BY <2>1, <2>2, <2>3 DEF Bijection, Injection, IsInjective, Surjection
  <2> QED
    BY <1>2, <2>4, FS_Bijection DEF ExistsBijection
<1>4. XNoFreeFd => used = others
  BY DEF XNoFreeFd, OtherDescriptors
<1>5. ~ XNoFreeFd => used # others
  <2> SUFFICES ASSUME NEW f \in Fds, x_fdt[f] = Free PROVE f \in others \ used
    BY DEF XNoFreeFd
  <2> QED
    BY Descriptors DEF OtherDescriptors
<1> HIDE DEF used, others
<1> QED
  BY <1>1, <1>2, <1>3, <1>4, <1>5

(* Nobody connects to a process that has ended. *)
LEMMA ConnectIs ==
    ASSUME NEW c \in Clients, RemoteX(c), x_link' # x_link
    PROVE  \E f \in Fds : x_fdt[f] \in Listeners
<1> USE SocketsAssumption, EPollAssumption, EchoServersAssumption, SameTypes
<1>1. CASE Port!Remote(c)
  <2>1. Port!Connect(c)
    BY <1>1 DEF Port!Remote, Port!ClientSend, Port!ClientRead, Port!ClientFin, Port!ClientReset
  <2> QED
    BY <2>1 DEF Port!Connect, Port!Listening
<1>2. CASE Loops!Remote(c)
  <2>1. Loops!Connect(c)
    BY <1>2 DEF Loops!Remote, Loops!ClientSend, Loops!ClientRead, Loops!ClientFin,
                Loops!ClientReset
  <2> QED
    BY <2>1 DEF Loops!Connect, Loops!Listening, First
<1>3. CASE Server1!Remote(c)
  <2>1. Server1!Connect(c)
    BY <1>3 DEF Server1!Remote, Server1!ClientSend, Server1!ClientRead, Server1!ClientFin,
                Server1!ClientReset
  <2> QED
    BY <2>1 DEF Server1!Connect, Server1!Listening, First
<1>4. CASE Async!Remote(c)
  <2>1. Async!Connect(c)
    BY <1>4 DEF Async!Remote, Async!ClientSend, Async!ClientRead, Async!ClientFin,
                Async!ClientReset
  <2> QED
    BY <2>1 DEF Async!Connect, Async!Listening
<1> QED
  BY <1>1, <1>2, <1>3, <1>4 DEF RemoteX

LEMMA RemoteEchoes ==
    ASSUME NEW c \in Clients, RemoteX(c), NEW runs \in BOOLEAN, XSockets, OtherDescriptors(runs)
    PROVE  Quiet \/ Heard(runs)
<1>1. CASE x_link[c] = "new" /\ x_link' = [x_link EXCEPT ![c] = "backlog"]
           /\ UNCHANGED <<x_peer, x_sent, x_out>>
  <2>1. x_link' # x_link
    BY <1>1 DEF XSockets, XTyped
  <2>2. PICK f \in Fds : x_fdt[f] \in Listeners
    BY <2>1, ConnectIs
  <2>3. runs
    BY <2>2, Descriptors DEF OtherDescriptors
  <2> QED
    BY <1>1, <2>3, Zenon DEF Heard
<1>2. CASE UNCHANGED <<x_link, x_peer, x_sent, x_out>>
  BY <1>2 DEF Quiet
<1>3. CASE /\ x_link[c] \in {"backlog", "open"} /\ x_peer[c] = "up"
           /\ x_sent' = [x_sent EXCEPT ![c] = @ + 1] /\ UNCHANGED <<x_link, x_peer, x_out>>
  BY <1>3, Zenon DEF Heard
<1>4. CASE /\ x_link[c] \in {"backlog", "open"}
           /\ \/ x_peer[c] = "up" /\ x_peer' = [x_peer EXCEPT ![c] = "fin"]
              \/ x_peer[c] # "rst" /\ x_peer' = [x_peer EXCEPT ![c] = "rst"]
           /\ UNCHANGED <<x_link, x_sent, x_out>>
  BY <1>4 DEF Heard
<1> QED
  BY RemoteIs, <1>1, <1>2, <1>3, <1>4

(* The bytes that are sent are the next of the client's stream. *)
LEMMA NextOf ==
    ASSUME NEW c \in Clients, NEW gave \in Nat, NEW buf \in Seq(Bytes), NEW from \in Nat,
           NEW n \in Nat, from + n <= Len(buf),
           \A k \in 1 .. n : buf[from + k] = <<c, gave + k>>
    PROVE  SubSeq(buf, from + 1, from + n) = Chunk(c, gave, n)
<1> DEFINE bytes == SubSeq(buf, from + 1, from + n)
<1>1. /\ bytes \in Seq(Bytes) /\ Len(bytes) = n /\ \A k \in 1 .. n : bytes[k] = buf[from + k]
  BY ONLY buf \in Seq(Bytes), from \in Nat, n \in Nat, from + n <= Len(buf), Slice,
     ZenonT(120) DEF bytes
<1>2. /\ Chunk(c, gave, n) \in Seq(Bytes) /\ Len(Chunk(c, gave, n)) = n
      /\ \A k \in 1 .. n : Chunk(c, gave, n)[k] = <<c, gave + k>>
  BY ChunkType, Zenon
<1> HIDE DEF bytes
<1>3. bytes = Chunk(c, gave, n)
  BY <1>1, <1>2, SeqEqual, ZenonT(60)
<1> QED
  BY <1>3 DEF bytes

(* A process that has ended has no connection. *)
PortEnded == main = "exit" => \A f \in Fds : x_fdt[f] \notin Clients

LEMMA PortQuiet ==
    ASSUME PortEnded, UNCHANGED <<x_link, x_peer, x_sent, x_out, x_fdt>>,
           main' = "exit" <=> main = "exit"
    PROVE  EchoStep(Cardinality(Fds) - 1, main # "exit", main' # "exit") /\ PortEnded'
  BY DEF EchoStep, Quiet, PortEnded

LEMMA PortAcceptEchoes ==
    ASSUME PortIInv, Port!AcceptCall
    PROVE  EchoStep(Cardinality(Fds) - 1, main # "exit", main' # "exit") /\ PortEnded'
<1>1. PICK c \in Clients, fd \in Fds : Port!Accept(listen_sock, c, fd)
  BY SameTypes DEF Port!AcceptCall
<1>2. main # "exit" /\ main' # "exit"
  BY DEF Port!AcceptCall
<1>3. x_link[c] = "backlog" /\ x_fdt[fd] = Free
      /\ x_link' = [x_link EXCEPT ![c] = "open"] /\ UNCHANGED <<x_peer, x_sent, x_out>>
  BY <1>1 DEF Port!Accept, Port!Backlog, Port!LowestFree
<1>4. Cardinality(XOpen) < Cardinality(Fds) - 1
  BY <1>2, <1>3, XConnections DEF PortIInv, OtherDescriptors, XNoFreeFd
<1>5. Admits(c, Cardinality(Fds) - 1)
  BY <1>3, <1>4 DEF Admits
<1> QED
  BY <1>2, <1>5 DEF EchoStep, Works, PortEnded

LEMMA PortBreakEchoes ==
    ASSUME PortIInv, Port!AcceptBreaks
    PROVE  EchoStep(Cardinality(Fds) - 1, main # "exit", main' # "exit") /\ PortEnded'
<1>1. /\ main # "exit" /\ main' = "exit" /\ Port!AcceptFails(listen_sock)
      /\ x_link' = [c \in Clients |-> IF x_link[c] \in {"backlog", "open"}
                                      THEN "closed" ELSE x_link[c]]
      /\ x_fdt' = [fd \in Fds |-> Free]
      /\ UNCHANGED <<x_peer, x_sent, x_out>>
  BY SameTypes DEF Port!AcceptBreaks, Port!CloseAll
<1>2. \/ Cardinality(XOpen) >= Cardinality(Fds) - 1
      \/ \E c \in Clients : x_link[c] \in {"backlog", "open"} /\ x_peer[c] = "rst"
  <2>1. CASE XNoFreeFd
    BY <1>1, <2>1, XConnections DEF PortIInv, OtherDescriptors
  <2>2. CASE ~ XNoFreeFd
    BY <1>1, <2>2, SameTypes DEF Port!AcceptFails, Port!Backlog, Port!NoFreeFd, XNoFreeFd
  <2> QED
    BY <2>1, <2>2
<1>3. Ends(Cardinality(Fds) - 1)
  BY <1>1, <1>2 DEF Ends
<1> QED
  BY <1>1, <1>3, Descriptors DEF EchoStep, PortEnded

LEMMA PortSendEchoes ==
    ASSUME PortIInv, PortEnded, NEW fd \in Fds, Port!SendCompletes(fd)
    PROVE  EchoStep(Cardinality(Fds) - 1, main # "exit", main' # "exit") /\ PortEnded'
<1> DEFINE ptr == p_info[fd]
<1>1. KernelHas(fd) /\ SomeoneHas(fd) /\ overlapped[fd] = "WSASend"
  BY DEF Port!SendCompletes, KernelHas, SomeoneHas
<1>2. PICK c \in Clients : c = x_fdt[fd]
  BY <1>1, PortRecord
<1>3. /\ x_link[c] = "open" /\ x_taken[c] \in Nat /\ x_sent[c] \in Nat
      /\ x_out[c] \in Seq(Bytes) /\ Len(x_out[c]) \in Nat
      /\ ptr.buf \in Seq(Bytes) /\ ptr.recvbytes \in Nat /\ ptr.sendbytes \in Nat
      /\ Owed(ptr, c)
  BY <1>1, <1>2, PortRecord DEF PortIInv, PortBooks, Books
<1>4. x_taken[c] <= x_sent[c]
  BY DEF PortIInv, XSockets, InTime
<1>5. main # "exit"
  BY <1>2 DEF PortEnded
<1>6. ASSUME NEW n \in 1 .. (ptr.recvbytes - ptr.sendbytes),
             Port!Give(c, SubSeq(ptr.buf, ptr.sendbytes + 1, ptr.sendbytes + n)),
             Port!Post(fd, TRUE, n)
      PROVE  EchoStep(Cardinality(Fds) - 1, main # "exit", main' # "exit") /\ PortEnded'
  <2> HIDE DEF ptr
  <2>1. PICK gave \in Nat, from \in Nat, to \in Nat, took \in Nat, buf \in Seq(Bytes) :
           /\ gave = Len(x_out[c]) /\ from = ptr.sendbytes /\ to = ptr.recvbytes
           /\ took = x_taken[c] /\ buf = ptr.buf
    BY <1>3, Zenon
  <2>2. /\ from <= to /\ to <= Len(buf) /\ took = gave + to - from
        /\ \A m \in (from + 1) .. to : buf[m] = <<c, gave + m - from>>
    BY <1>3, <2>1, Zenon DEF Owed
  <2>3. /\ n \in Nat /\ from + n <= Len(buf) /\ gave + n <= x_sent[c]
        /\ n \in 1 .. (x_sent[c] - gave) /\ from + n <= to
    <3>1. PICK all \in Nat : all = x_sent[c] /\ took <= all
      BY <1>3, <1>4, <2>1
    <3>2. n \in Nat /\ n # 0 /\ n <= to - from
      BY <2>1
    <3>3. from + n <= Len(buf) /\ gave + n <= all /\ n \in 1 .. (all - gave) /\ from + n <= to
      BY <2>2, <3>1, <3>2
    <3> QED
      BY <3>1, <3>2, <3>3
  <2>4. SubSeq(buf, from + 1, from + n) = Chunk(c, gave, n)
    <3>1. \A k \in 1 .. n : buf[from + k] = <<c, gave + k>>
      <4> SUFFICES ASSUME NEW k \in 1 .. n PROVE buf[from + k] = <<c, gave + k>>
        OBVIOUS
      <4>1. from + k \in (from + 1) .. to /\ gave + (from + k) - from = gave + k
        BY <2>3
      <4> QED
        BY <2>2, <4>1, Zenon
    <3>2. /\ c \in Clients /\ gave \in Nat /\ from \in Nat /\ buf \in Seq(Bytes)
          /\ n \in Nat /\ from + n <= Len(buf)
      BY <2>1, <2>3
    <3> QED
      BY ONLY <3>1, <3>2, NextOf, ZenonT(120)
  <2>5. /\ x_out' = [x_out EXCEPT ![c] = @ \o [k \in 1 .. n |-> <<c, gave + k>>]]
        /\ UNCHANGED <<x_link, x_peer, x_sent, x_fdt>> /\ main' = main
    BY <1>6, <2>1, <2>4, Zenon DEF Port!Give, Port!Post, Chunk
  <2>6. Gives(c, n)
    BY <1>3, <2>1, <2>3, <2>5 DEF Gives
  <2> QED
    BY <1>5, <2>1, <2>3, <2>5, <2>6 DEF EchoStep, Works, PortEnded
<1>7. ASSUME UNCHANGED Port!sockets, Port!Post(fd, FALSE, 0)
      PROVE  EchoStep(Cardinality(Fds) - 1, main # "exit", main' # "exit") /\ PortEnded'
  BY <1>7, PortQuiet DEF Port!sockets, Port!Post
<1> QED
  <2>1. \/ \E n \in 1 .. (ptr.recvbytes - ptr.sendbytes) :
              /\ Port!Give(c, SubSeq(ptr.buf, ptr.sendbytes + 1, ptr.sendbytes + n))
              /\ Port!Post(fd, TRUE, n)
        \/ Port!Post(fd, FALSE, 0) /\ UNCHANGED Port!sockets
    BY <1>2, Zenon DEF Port!SendCompletes
  <2> QED
    BY <1>6, <1>7, <2>1, Zenon

(* A worker closes the connection of a client that has left and has got    *)
(* everything, or that was reset.                                          *)
LEMMA PortCloseEchoes ==
    ASSUME PortIInv, PortEnded, NEW w \in Workers, Port!CloseConnection(w)
    PROVE  EchoStep(Cardinality(Fds) - 1, main # "exit", main' # "exit") /\ PortEnded'
<1>1. held[w] # Port!NoCompletion /\ (~ held[w].ok \/ held[w].n = 0) /\ main' = main
  BY DEF Port!CloseConnection, Port!Done
<1>2. PICK fd \in Fds : fd = held[w].fd
  BY <1>1, WorkerFacts
<1>3. PICK c \in Clients : c = x_fdt[fd] /\ Means(held[w])
  BY <1>1, <1>2, WorkerFacts
<1>4. /\ x_link[c] = "open" /\ x_taken[c] \in Nat /\ x_sent[c] \in Nat /\ Len(x_out[c]) \in Nat
  BY <1>3 DEF PortIInv, XSockets, XTyped, Connections
<1>5. main # "exit"
  BY <1>3 DEF PortEnded
<1>6. x_peer[c] = "rst" \/ (x_peer[c] = "fin" /\ Len(x_out[c]) = x_sent[c])
  <2>1. CASE ~ held[w].ok
    BY <1>2, <1>3, <2>1 DEF Means
  <2>2. CASE held[w].ok /\ held[w].n = 0
    <3>1. EvenWith(c) /\ (Fins(c) \/ x_peer[c] = "rst")
      BY <1>2, <1>3, <2>2 DEF Means
    <3> QED
      BY <1>4, <3>1 DEF EvenWith, Fins
  <2> QED
    BY <1>1, <2>1, <2>2
<1>7. /\ x_link' = [x_link EXCEPT ![c] = "closed"] /\ UNCHANGED <<x_peer, x_sent, x_out>>
  BY <1>2, <1>3 DEF Port!CloseConnection, Port!Close
<1>8. Drops(c)
  BY <1>4, <1>6, <1>7 DEF Drops
<1> QED
  BY <1>1, <1>5, <1>8 DEF EchoStep, Works, PortEnded

LEMMA PortEchoes ==
    ASSUME PortIInv, PortEnded, [Port!Next]_(Port!vars)
    PROVE  EchoStep(Cardinality(Fds) - 1, main # "exit", main' # "exit") /\ PortEnded'
<1>1. CASE Port!StartConnection
  BY <1>1, PortQuiet DEF Port!StartConnection, Port!sockets
<1>2. ASSUME NEW fd \in Fds, Port!RecvCompletes(fd)
      PROVE  EchoStep(Cardinality(Fds) - 1, main # "exit", main' # "exit") /\ PortEnded'
  BY <1>2, PortQuiet, Zenon DEF Port!RecvCompletes, Port!Take, Port!Post, Port!sockets
<1>3. ASSUME NEW w \in Workers, Port!GetQueuedCompletionStatus(w) \/ Port!Continue(w)
      PROVE  EchoStep(Cardinality(Fds) - 1, main # "exit", main' # "exit") /\ PortEnded'
  BY <1>3, PortQuiet DEF Port!GetQueuedCompletionStatus, Port!Continue, Port!Done, Port!sockets
<1>4. CASE Port!Environment
  <2>1. PICK c \in Clients : RemoteX(c)
    BY <1>4 DEF Port!Environment, RemoteX
  <2>2. main' = main /\ x_fdt' = x_fdt
    BY <1>4, <2>1, RemoteIs DEF Port!Environment, Port!server
  <2>3. Quiet \/ Heard(main # "exit")
    BY <2>1, RemoteEchoes, Zenon DEF PortIInv
  <2> QED
    BY <2>2, <2>3 DEF EchoStep, PortEnded
<1>5. CASE UNCHANGED Port!vars
  BY <1>5, PortQuiet DEF Port!vars, Port!sockets, Port!server
<1> QED
  BY <1>1, <1>2, <1>3, <1>4, <1>5, PortAcceptEchoes, PortBreakEchoes, PortSendEchoes,
     PortCloseEchoes, SameTypes
  DEF Port!Next, Port!Server, Port!MainThread, Port!Kernel, Port!WorkerThread

LoopPlaces == IF program = "ThreadTCPServer" THEN Places ELSE Cardinality(Fds) - 1
LoopEnded == ~ LoopGoes => \A f \in Fds : x_fdt[f] \notin Clients
EchoLoops == {"TCPServer", "ThreadTCPServer"}

LEMMA LoopQuiet ==
    ASSUME LoopEnded, UNCHANGED <<x_link, x_peer, x_sent, x_out, x_fdt, loop>>
    PROVE  EchoStep(LoopPlaces, LoopGoes, LoopGoes') /\ LoopEnded'
  BY DEF EchoStep, Quiet, LoopEnded, LoopGoes

(* How many connections there can be, and how many there are.              *)
LEMMA LoopCounts ==
    ASSUME LoopIInv, program \in EchoLoops, LoopGoes
    PROVE  /\ LoopPlaces \in Int /\ Cardinality(XOpen) \in Nat
           /\ XNoFreeFd => Cardinality(XOpen) >= LoopPlaces
           /\ ~ XNoFreeFd /\ Loops!ThreadLeft => Cardinality(XOpen) < LoopPlaces
           /\ ~ Loops!ThreadLeft => Cardinality(XOpen) >= LoopPlaces
<1> DEFINE served == {fd \in Fds : conn[fd].at # "none"}
<1>1. /\ Cardinality(Fds) \in Nat /\ Cardinality(XOpen) \in Nat /\ MaxThreads \in Nat
      /\ XNoFreeFd => Cardinality(XOpen) = Cardinality(Fds) - 1
      /\ ~ XNoFreeFd => Cardinality(XOpen) < Cardinality(Fds) - 1
  BY XConnections, EchoServersAssumption DEF LoopIInv, LoopGoes, OtherDescriptors, EchoLoops
<1>2. Cardinality(served) = Cardinality(XOpen)
  <2> DEFINE owner == [f \in served |-> x_fdt[f]]
  <2>1. \A f \in served : x_fdt[f] \in XOpen
    BY DEF LoopIInv, Attended, XOpen, XSockets, Connections
  <2>2. \A f, g \in served : x_fdt[f] = x_fdt[g] => f = g
    BY DEF LoopIInv, Attended, XSockets, Connections
  <2>3. \A c \in XOpen : \E f \in served : x_fdt[f] = c
    BY DEF LoopIInv, Attended, XOpen, XSockets, Connections
  <2>4. IsFiniteSet(served)
    <3>1. 3 \in Int /\ NOFILE - 1 \in Int
      BY SocketsAssumption
    <3>2. IsFiniteSet(3 .. (NOFILE - 1))
      BY <3>1, FS_Interval
    <3>3. served \subseteq 3 .. (NOFILE - 1)
      BY DEF Fds
    <3> QED
      BY <3>2, <3>3, FS_Subset, Zenon
  <2> HIDE DEF served
  <2>5. owner \in Bijection(served, XOpen)
    BY <2>1, <2>2, <2>3 DEF Bijection, Injection, IsInjective, Surjection
  <2> QED
    BY <2>4, <2>5, FS_Bijection DEF ExistsBijection
<1>3. Loops!ThreadLeft <=> (program = "ThreadTCPServer" => Cardinality(XOpen) < MaxThreads)
  <2>1. \A S : Loops!Cardinality(S) = Cardinality(S)
    BY DEF Loops!Cardinality, Cardinality
  <2>2. {fd \in Loops!Fds : conn[fd].at # "none"} = served
    BY SameTypes
  <2> HIDE DEF served
  <2> QED
    BY <1>2, <2>1, <2>2 DEF Loops!ThreadLeft, Loops!Threaded
<1> HIDE DEF served
<1>4. PICK fds \in Nat, open \in Nat : fds = Cardinality(Fds) /\ open = Cardinality(XOpen)
  BY <1>1
<1> QED
  BY <1>1, <1>3, <1>4 DEF LoopPlaces, Places

LEMMA LoopAcceptEchoes ==
    ASSUME LoopIInv, program \in EchoLoops, program' = program, NEW l \in Listeners,
           Loops!AcceptCall(l)
    PROVE  EchoStep(LoopPlaces, LoopGoes, LoopGoes') /\ LoopEnded'
<1>1. loop[l] = "runs" /\ l = listen_sock /\ loop' = loop
  BY DEF Loops!AcceptCall, Loops!AtAccept, LoopIInv, OneLoop, EchoLoops
<1>2. LoopGoes /\ LoopGoes' /\ Loops!ThreadLeft
  BY <1>1 DEF Loops!AcceptCall, LoopGoes
<1>3. PICK c \in Clients, fd \in Fds : Loops!Accept(l, c, fd)
  BY SameTypes DEF Loops!AcceptCall
<1>4. x_link[c] = "backlog" /\ x_fdt[fd] = Free
      /\ x_link' = [x_link EXCEPT ![c] = "open"] /\ UNCHANGED <<x_peer, x_sent, x_out>>
  BY <1>3 DEF Loops!Accept, Loops!Backlog, Loops!LowestFree
<1>5. Cardinality(XOpen) < LoopPlaces
  BY <1>2, <1>4, LoopCounts DEF XNoFreeFd
<1>6. Admits(c, LoopPlaces)
  BY <1>4, <1>5 DEF Admits
<1> QED
  BY <1>2, <1>6, Zenon DEF EchoStep, Works, LoopEnded

LEMMA LoopRefuseEchoes ==
    ASSUME LoopIInv, LoopEnded, program \in EchoLoops, program' = program,
           NEW l \in Listeners, Loops!NoThread(l)
    PROVE  EchoStep(LoopPlaces, LoopGoes, LoopGoes') /\ LoopEnded'
<1>1. loop[l] = "runs" /\ l = listen_sock /\ loop' = loop
  BY DEF Loops!NoThread, Loops!AtAccept, Loops!server, LoopIInv, OneLoop, EchoLoops
<1>2. LoopGoes /\ LoopGoes' /\ ~ Loops!ThreadLeft
  BY <1>1 DEF Loops!NoThread, LoopGoes
<1>3. PICK c \in Clients : Loops!AcceptAndClose(l, c)
  BY DEF Loops!NoThread
<1>4. x_link[c] = "backlog"
      /\ x_link' = [x_link EXCEPT ![c] = "closed"] /\ UNCHANGED <<x_peer, x_sent, x_out>>
  BY <1>3 DEF Loops!AcceptAndClose, Loops!Backlog
<1>5. Cardinality(XOpen) >= LoopPlaces
  BY <1>2, LoopCounts
<1>6. Refuses(c, LoopPlaces)
  BY <1>4, <1>5 DEF Refuses
<1> QED
  BY <1>2, <1>6, Zenon DEF EchoStep, Works, LoopEnded

LEMMA LoopBreakEchoes ==
    ASSUME LoopIInv, program \in EchoLoops, program' = program, NEW l \in Listeners,
           Loops!AcceptBreaks(l)
    PROVE  EchoStep(LoopPlaces, LoopGoes, LoopGoes') /\ LoopEnded'
<1>1. loop[l] = "runs" /\ l = listen_sock /\ loop' = [loop EXCEPT ![l] = "ended"]
  BY DEF Loops!AcceptBreaks, Loops!AtAccept, LoopIInv, OneLoop, EchoLoops
<1>2. LoopGoes /\ ~ LoopGoes'
  BY <1>1 DEF LoopGoes, LoopIInv, LoopTyped
<1>3. /\ x_link' = [c \in Clients |-> IF x_link[c] \in {"backlog", "open"}
                                      THEN "closed" ELSE x_link[c]]
      /\ x_fdt' = [fd \in Fds |-> Free]
      /\ UNCHANGED <<x_peer, x_sent, x_out>>
  BY SameTypes DEF Loops!AcceptBreaks, Loops!Echoes, Loops!CloseAll, EchoLoops
<1>4. \/ Cardinality(XOpen) >= LoopPlaces
      \/ \E c \in Clients : x_link[c] \in {"backlog", "open"} /\ x_peer[c] = "rst"
  <2>1. CASE XNoFreeFd
    BY <1>2, <2>1, LoopCounts
  <2>2. CASE ~ XNoFreeFd
    BY <2>2, SameTypes
    DEF Loops!AcceptBreaks, Loops!AcceptFails, Loops!Backlog, Loops!NoFreeFd, XNoFreeFd
  <2> QED
    BY <2>1, <2>2
<1>5. Ends(LoopPlaces)
  BY <1>3, <1>4 DEF Ends
<1> QED
  BY <1>2, <1>3, <1>5, Descriptors, Zenon DEF EchoStep, LoopEnded

(* SIGPIPE. *)
LEMMA LoopKillEchoes ==
    ASSUME LoopIInv, LoopEnded, program \in EchoLoops, program' = program, NEW fd \in Fds,
           Loops!SendKills(fd)
    PROVE  EchoStep(LoopPlaces, LoopGoes, LoopGoes') /\ LoopEnded'
<1>1. conn[fd].at \in {"send", "SEND_AGAIN"} /\ x_peer[x_fdt[fd]] = "rst"
  BY DEF Loops!SendKills, Loops!SendError
<1>2. x_fdt[fd] \in Clients /\ x_link[x_fdt[fd]] = "open"
  BY <1>1, ServedIs
<1>3. LoopGoes /\ ~ LoopGoes'
  BY <1>2, Descriptors DEF LoopEnded, LoopGoes, Loops!SendKills
<1>4. /\ x_link' = [c \in Clients |-> IF x_link[c] \in {"backlog", "open"}
                                      THEN "closed" ELSE x_link[c]]
      /\ x_fdt' = [f \in Fds |-> Free]
      /\ UNCHANGED <<x_peer, x_sent, x_out>>
  BY SameTypes DEF Loops!SendKills, Loops!CloseAll
<1>5. Ends(LoopPlaces)
  BY <1>1, <1>2, <1>4 DEF Ends
<1> QED
  BY <1>3, <1>4, <1>5, Descriptors, Zenon DEF EchoStep, LoopEnded

LEMMA LoopCloseEchoes ==
    ASSUME LoopIInv, LoopEnded, program \in EchoLoops, program' = program, NEW fd \in Fds,
           Loops!CloseCall(fd)
    PROVE  EchoStep(LoopPlaces, LoopGoes, LoopGoes') /\ LoopEnded'
<1>1. conn[fd].at = "close" /\ loop' = loop
  BY DEF Loops!CloseCall
<1>2. PICK c \in Clients : /\ c = x_fdt[fd] /\ x_link[c] = "open" /\ InAnswer(fd, c)
                           /\ x_taken[c] \in Nat /\ x_sent[c] \in Nat /\ Len(x_out[c]) \in Nat
  BY <1>1, ServedIs DEF LoopIInv, EchoLoops
<1>3. LoopGoes /\ LoopGoes'
  BY <1>1, <1>2 DEF LoopEnded, LoopGoes
<1>4. x_peer[c] = "rst" \/ (x_peer[c] = "fin" /\ Len(x_out[c]) = x_sent[c])
  BY <1>1, <1>2 DEF InAnswer, Fins, EvenWith
<1>5. x_link' = [x_link EXCEPT ![c] = "closed"] /\ UNCHANGED <<x_peer, x_sent, x_out>>
  BY <1>2 DEF Loops!CloseCall, Loops!Close
<1>6. Drops(c)
  BY <1>2, <1>4, <1>5 DEF Drops
<1> QED
  BY <1>3, <1>6, Zenon DEF EchoStep, Works, LoopEnded

LEMMA LoopSendEchoes ==
    ASSUME LoopIInv, LoopEnded, program \in EchoLoops, program' = program, NEW fd \in Fds,
           Loops!SendCall(fd)
    PROVE  EchoStep(LoopPlaces, LoopGoes, LoopGoes') /\ LoopEnded'
<1>1. conn[fd].at = "send" /\ loop' = loop
  BY DEF Loops!SendCall
<1>2. PICK c \in Clients : /\ c = x_fdt[fd] /\ x_link[c] = "open" /\ InAnswer(fd, c)
                           /\ x_taken[c] \in Nat /\ x_sent[c] \in Nat /\ Len(x_out[c]) \in Nat
  BY <1>1, ServedIs DEF LoopIInv, EchoLoops
<1>3. LoopGoes /\ LoopGoes'
  BY <1>1, <1>2 DEF LoopEnded, LoopGoes
<1>4. PICK gave \in Nat, took \in Nat, all \in Nat, buf \in Seq(Bytes) :
         /\ gave = Len(x_out[c]) /\ took = x_taken[c] /\ all = x_sent[c] /\ buf = conn[fd].buf
         /\ took <= all
  <2>1. conn[fd].buf \in Seq(Bytes) /\ x_taken[c] <= x_sent[c]
    BY <1>1, ServedIs DEF LoopIInv, XSockets, InTime
  <2> QED
    BY <1>2, <2>1
<1>5. /\ took = gave + Len(buf) /\ Len(buf) \in Nat
      /\ \A m \in 1 .. Len(buf) : buf[m] = <<c, gave + m>>
  <2>1. conn[fd].at \notin {"recv", "close"} /\ Len(buf) \in Nat
    BY <1>1
  <2>2. /\ x_taken[c] = Len(x_out[c]) + Len(conn[fd].buf)
        /\ \A m \in 1 .. Len(conn[fd].buf) : conn[fd].buf[m] = <<c, Len(x_out[c]) + m>>
    BY <1>1, <1>2, Zenon DEF InAnswer
  <2> QED
    BY ONLY <1>4, <2>1, <2>2
<1>6. \/ \E n \in 1 .. Len(buf) : Loops!Give(c, SubSeq(buf, 1, n))
      \/ UNCHANGED Loops!sockets
  BY <1>2, <1>4 DEF Loops!SendCall
<1>7. ASSUME NEW n \in 1 .. Len(buf), Loops!Give(c, SubSeq(buf, 1, n))
      PROVE  EchoStep(LoopPlaces, LoopGoes, LoopGoes') /\ LoopEnded'
  <2>1. n \in Nat /\ n # 0 /\ n <= Len(buf)
    BY <1>5
  <2>2. SubSeq(buf, 1, n) = Chunk(c, gave, n)
    <3>1. SubSeq(buf, 0 + 1, 0 + n) = Chunk(c, gave, n)
      <4>1. \A k \in 1 .. n : buf[0 + k] = <<c, gave + k>>
        BY <1>5, <2>1
      <4>2. /\ c \in Clients /\ gave \in Nat /\ 0 \in Nat /\ buf \in Seq(Bytes)
            /\ n \in Nat /\ 0 + n <= Len(buf)
        BY <1>5, <2>1
      <4> QED
        BY ONLY <4>1, <4>2, NextOf, ZenonT(300)
    <3>2. 0 + 1 = 1 /\ 0 + n = n
      BY <2>1
    <3> QED
      BY <3>1, <3>2
  <2>3. gave + n <= all /\ n \in 1 .. (all - gave)
    <3>1. PICK size \in Nat : size = Len(buf)
      BY <1>5
    <3>2. took = gave + size /\ took <= all /\ n \in Nat /\ n # 0 /\ n <= size
      BY <1>4, <1>5, <2>1, <3>1, Zenon
    <3>3. gave \in Nat /\ took \in Nat /\ all \in Nat /\ size \in Nat
      OBVIOUS
    <3>4. gave + n <= all /\ n <= all - gave /\ all - gave \in Int
      BY ONLY <3>2, <3>3
    <3> QED
      BY ONLY <3>2, <3>3, <3>4
  <2>4. /\ x_out' = [x_out EXCEPT ![c] = @ \o [k \in 1 .. n |-> <<c, gave + k>>]]
        /\ UNCHANGED <<x_link, x_peer, x_sent, x_fdt>>
    BY <1>7, <2>2, Zenon DEF Loops!Give, Chunk
  <2>5. Gives(c, n)
    BY <1>2, <1>4, <2>3, <2>4 DEF Gives
  <2> QED
    BY <1>3, <1>4, <2>3, <2>5, Zenon DEF EchoStep, Works, LoopEnded
<1>8. CASE UNCHANGED Loops!sockets
  BY <1>1, <1>8, LoopQuiet DEF Loops!sockets
<1> QED
  BY <1>6, <1>7, <1>8

LEMMA LoopEchoSteps ==
    ASSUME LoopIInv, LoopEnded, program \in EchoLoops, program' = program, Loops!Server
    PROVE  EchoStep(LoopPlaces, LoopGoes, LoopGoes') /\ LoopEnded'
<1>1. ASSUME NEW fd \in Fds, Loops!RecvCall(fd)
      PROVE  EchoStep(LoopPlaces, LoopGoes, LoopGoes') /\ LoopEnded'
  BY <1>1, LoopQuiet DEF Loops!RecvCall, Loops!Take, Loops!sockets
<1>2. ~ Loops!StartTCPServer6
  BY DEF Loops!StartTCPServer6, EchoLoops
<1>3. ASSUME NEW fd \in Fds PROVE ~ Loops!NonblockSend(fd) /\ ~ Loops!SendAgain(fd)
  <2>1. conn[fd].at # "SEND_AGAIN"
    <3> SUFFICES ASSUME conn[fd].at = "SEND_AGAIN" PROVE FALSE
      OBVIOUS
    <3>1. InAnswer(fd, x_fdt[fd])
      BY ServedIs DEF LoopIInv, EchoLoops
    <3> QED
      BY <3>1 DEF InAnswer
  <2> QED
    BY <2>1 DEF Loops!NonblockSend, Loops!SendAgain, EchoLoops
<1> QED
  BY <1>1, <1>2, <1>3, LoopAcceptEchoes, LoopRefuseEchoes, LoopBreakEchoes, LoopKillEchoes,
     LoopCloseEchoes, LoopSendEchoes, SameTypes
  DEF Loops!Server, Loops!ServerMain, Loops!ProcessClient

LEMMA LoopRemoteEchoes ==
    ASSUME LoopIInv, LoopEnded, program \in EchoLoops, NEW c \in Clients, RemoteX(c),
           loop' = loop, program' = program
    PROVE  EchoStep(LoopPlaces, LoopGoes, LoopGoes') /\ LoopEnded'
<1>1. x_fdt' = x_fdt
  BY RemoteIs
<1>2. LoopGoes \in BOOLEAN /\ OtherDescriptors(LoopGoes) /\ XSockets
  BY DEF LoopIInv, LoopGoes, EchoLoops
<1>3. Quiet \/ Heard(LoopGoes)
  BY <1>2, RemoteEchoes
<1> QED
  BY <1>1, <1>3 DEF EchoStep, LoopEnded, LoopGoes

-----------------------------------------------------------------------------
(* One run of each program. *)

RunIInv ==
    /\ IInv /\ XTyped /\ PortTyped /\ AsyncTyped /\ LoopTyped
    /\ program \in AllPrograms
    /\ program = "CompletionPortTCPServer" => PortIInv
    /\ program = "AsyncSelectTCPServer" => AsyncIInv
    /\ program \in LoopPrograms \cup {"Server"} => LoopIInv

XUnchanged == UNCHANGED <<x_link, x_peer, x_sent, x_taken, x_out, x_got, x_fdt>>
PortUnchanged == UNCHANGED <<main, newfd, p_info, overlapped, hcp, held>>
AsyncLeft == UNCHANGED <<a_pc, wParam, SocketInfoList, a_info, enabled, queue, misled>>
LoopLeft == UNCHANGED <<loop, conn, spoilt>>

(* Which program makes the step, and what is left alone. *)
StepOfEPoll == /\ program = "EPollTCPServer" /\ [Next]_vars
               /\ program' = program /\ XUnchanged /\ PortUnchanged /\ AsyncLeft /\ LoopLeft
StepOfPort == /\ program = "CompletionPortTCPServer" /\ [Port!Next]_(Port!vars)
              /\ program' = program /\ UNCHANGED vars /\ AsyncLeft /\ LoopLeft
StepOfAsync == /\ program = "AsyncSelectTCPServer" /\ [Async!Next]_(Async!vars)
               /\ program' = program /\ UNCHANGED vars /\ PortUnchanged /\ LoopLeft
StepOfLoops == /\ program \in LoopPrograms \cup {"Server"}
               /\ \/ program \in LoopPrograms /\ Loops!Server
                  \/ program = "Server" /\ Server1!Server
                  \/ LoopLeft /\ \E c \in Clients : RemoteX(c)
               /\ program' = program /\ UNCHANGED vars /\ PortUnchanged /\ AsyncLeft
StepOfNone == /\ program' = program /\ UNCHANGED vars
              /\ XUnchanged /\ PortUnchanged /\ AsyncLeft /\ LoopLeft

LEMMA ProgramStays ==
    ASSUME Loops!Server \/ Server1!Server PROVE program' = program
<1>1. CASE Loops!Server
  BY <1>1, Zenon DEF Loops!Server, Loops!ServerMain, Loops!ProcessClient, Loops!StartTCPServer6,
     Loops!AcceptCall, Loops!NoThread, Loops!AcceptBreaks, Loops!RecvCall, Loops!SendCall,
     Loops!CloseCall, Loops!NonblockSend, Loops!SendAgain, Loops!SendKills, Loops!server
<1>2. CASE Server1!Server
  BY <1>2, Zenon DEF Server1!Server, Server1!ServerMain, Server1!ProcessClient,
     Server1!StartTCPServer6, Server1!AcceptCall, Server1!NoThread, Server1!AcceptBreaks,
     Server1!RecvCall, Server1!SendCall, Server1!CloseCall, Server1!NonblockSend,
     Server1!SendAgain, Server1!SendKills, Server1!server
<1> QED
  BY <1>1, <1>2

LEMMA StepIsOf ==
    ASSUME [ServerStep \/ ClientStep]_allVars
    PROVE  StepOfEPoll \/ StepOfPort \/ StepOfAsync \/ StepOfLoops \/ StepOfNone
<1> USE DEF XUnchanged, PortUnchanged, AsyncLeft, LoopLeft
<1>1. CASE OfEPoll(Server) \/ OfEPoll(Environment)
  BY <1>1 DEF OfEPoll, StepOfEPoll, Next, x_sockets, portVars, asyncVars, loopVars
<1>2. CASE OfPort(Port!Server) \/ OfPort(Port!Environment /\ Bounded(1))
  BY <1>2 DEF OfPort, StepOfPort, Port!Next, asyncVars, loopVars
<1>3. CASE \/ OfAsync(Async!ProcessSocketMessage)
           \/ \E fd \in Fds : OfAsync(Async!PostEvent(fd))
           \/ OfAsync(Async!Environment /\ Bounded(0) /\ x_peer'[c2] # "fin")
  BY <1>3, SameTypes DEF OfAsync, StepOfAsync, Async!Next, Async!Server, portVars, loopVars
<1>4. CASE OfLoops(Loops!Server) \/ OfServer1(Server1!Server)
  BY <1>4, ProgramStays DEF OfLoops, OfServer1, StepOfLoops, portVars, asyncVars
<1>5. CASE \/ OfLoops(Loops!Environment /\
                      Bounded(IF program = "ThreadTCPServer" THEN 1 ELSE MaxSend))
           \/ OfServer1(Server1!Environment /\ Bounded(MaxSend))
  BY <1>5 DEF OfLoops, OfServer1, StepOfLoops, portVars, asyncVars, RemoteX,
     Loops!Environment, Server1!Environment, Loops!server, Server1!server
<1>6. CASE UNCHANGED allVars
  BY <1>6 DEF allVars, StepOfNone, x_sockets, portVars, asyncVars, loopVars
<1> QED
  BY <1>1, <1>2, <1>3, <1>4, <1>5, <1>6 DEF ServerStep, ClientStep

LEMMA RunKeeps ==
    /\ (PortIInv => XTyped /\ PortTyped)
    /\ (AsyncIInv => XTyped /\ AsyncTyped)
    /\ (LoopIInv => XTyped /\ LoopTyped)
  BY DEF PortIInv, AsyncIInv, LoopIInv, XSockets

LEMMA RunFrame ==
    /\ IInv /\ UNCHANGED vars => IInv'
    /\ XTyped /\ XUnchanged => XTyped'
    /\ PortTyped /\ PortUnchanged => PortTyped'
    /\ AsyncTyped /\ AsyncLeft => AsyncTyped'
    /\ LoopTyped /\ LoopLeft => LoopTyped'
<1>1. IInv /\ UNCHANGED vars => IInv'
  BY StepIInv
<1>2. XTyped /\ XUnchanged => XTyped'
  BY DEF XTyped, XUnchanged
<1>3. PortTyped /\ PortUnchanged => PortTyped'
  BY DEF PortTyped, PortUnchanged
<1>4. AsyncTyped /\ AsyncLeft => AsyncTyped'
  BY DEF AsyncTyped, AsyncLeft
<1>5. LoopTyped /\ LoopLeft => LoopTyped'
  BY DEF LoopTyped, LoopLeft
<1> QED
  BY <1>1, <1>2, <1>3, <1>4, <1>5

LEMMA RunNext ==
    ASSUME RunIInv, [ServerStep \/ ClientStep]_allVars PROVE RunIInv'
<1>1. /\ IInv /\ XTyped /\ PortTyped /\ AsyncTyped /\ LoopTyped /\ program \in AllPrograms
      /\ program = "CompletionPortTCPServer" => PortIInv
      /\ program = "AsyncSelectTCPServer" => AsyncIInv
      /\ program \in LoopPrograms \cup {"Server"} => LoopIInv
  BY DEF RunIInv
<1>2. CASE StepOfEPoll
  <2>1. IInv'
    BY <1>1, <1>2, StepIInv DEF StepOfEPoll
  <2>2. XTyped' /\ PortTyped' /\ AsyncTyped' /\ LoopTyped'
    BY <1>1, <1>2, RunFrame DEF StepOfEPoll
  <2>3. program' = program /\ program = "EPollTCPServer"
    BY <1>2 DEF StepOfEPoll
  <2> QED
    BY <1>1, <2>1, <2>2, <2>3 DEF RunIInv, LoopPrograms
<1>3. CASE StepOfPort
  <2>1. PortIInv'
    BY <1>1, <1>3, PortNext DEF StepOfPort
  <2>2. XTyped' /\ PortTyped'
    BY <2>1 DEF PortIInv, XSockets
  <2>3. IInv' /\ AsyncTyped' /\ LoopTyped'
    BY <1>1, <1>3, RunFrame DEF StepOfPort
  <2>4. program' = program /\ program = "CompletionPortTCPServer"
    BY <1>3 DEF StepOfPort
  <2> QED
    BY <1>1, <2>1, <2>2, <2>3, <2>4 DEF RunIInv, LoopPrograms
<1>4. CASE StepOfAsync
  <2>1. AsyncIInv'
    BY <1>1, <1>4, AsyncNext DEF StepOfAsync
  <2>2. XTyped' /\ AsyncTyped'
    BY <2>1 DEF AsyncIInv, XSockets
  <2>3. IInv' /\ PortTyped' /\ LoopTyped'
    BY <1>1, <1>4, RunFrame DEF StepOfAsync
  <2>4. program' = program /\ program = "AsyncSelectTCPServer"
    BY <1>4 DEF StepOfAsync
  <2> QED
    BY <1>1, <2>1, <2>2, <2>3, <2>4 DEF RunIInv, LoopPrograms
<1>5. CASE StepOfLoops
  <2>1. LoopIInv'
    <3>1. LoopIInv
      BY <1>1, <1>5 DEF StepOfLoops
    <3>2. ASSUME Loops!Server \/ Server1!Server PROVE LoopIInv'
      BY <3>1, <3>2, LoopServer
    <3>3. CASE LoopLeft /\ \E c \in Clients : RemoteX(c)
      BY <1>5, <3>1, <3>3, LoopEnvironment DEF StepOfLoops, LoopLeft
    <3> QED
      BY <1>5, <3>2, <3>3 DEF StepOfLoops
  <2>2. XTyped' /\ LoopTyped'
    BY <2>1 DEF LoopIInv, XSockets
  <2>3. IInv' /\ PortTyped' /\ AsyncTyped'
    BY <1>1, <1>5, RunFrame DEF StepOfLoops
  <2>4. program' = program /\ program \in LoopPrograms \cup {"Server"}
    BY <1>5 DEF StepOfLoops
  <2> QED
    BY <1>1, <2>1, <2>2, <2>3, <2>4 DEF RunIInv, LoopPrograms
<1>6. CASE StepOfNone
  <2>1. IInv' /\ XTyped' /\ PortTyped' /\ AsyncTyped' /\ LoopTyped'
    BY <1>1, <1>6, RunFrame DEF StepOfNone
  <2>2. program' = program
    BY <1>6 DEF StepOfNone
  <2>3. program = "CompletionPortTCPServer" => PortIInv'
    <3>1. UNCHANGED Port!vars
      BY <1>6 DEF StepOfNone, XUnchanged, PortUnchanged, Port!vars, Port!sockets, Port!server
    <3> QED
      BY <1>1, <3>1, PortNext
  <2>4. program = "AsyncSelectTCPServer" => AsyncIInv'
    <3>1. UNCHANGED Async!vars
      BY <1>6 DEF StepOfNone, XUnchanged, AsyncLeft, Async!vars, Async!sockets, Async!server
    <3> QED
      BY <1>1, <3>1, AsyncNext
  <2>5. program \in LoopPrograms \cup {"Server"} => LoopIInv'
    BY <1>1, <1>6, LoopUnchanged DEF StepOfNone, XUnchanged, LoopLeft
  <2> QED
    BY <1>1, <2>1, <2>2, <2>3, <2>4, <2>5 DEF RunIInv
<1> QED
  BY <1>2, <1>3, <1>4, <1>5, <1>6, StepIsOf

LEMMA RunInit == ASSUME MCInit PROVE RunIInv
<1>1. IInv
  BY InitIInv DEF MCInit
<1>2. PortIInv /\ AsyncIInv /\ LoopIInv
  BY PortInit, AsyncInit, LoopInit DEF MCInit
<1>3. program \in AllPrograms
  BY DEF MCInit, Loops!Init
<1> QED
  BY <1>1, <1>2, <1>3, RunKeeps DEF RunIInv

(* Whichever program runs, the invariant of this program holds. *)
THEOREM RunInvariance == MCSpec => []RunIInv
<1>1. MCInit => RunIInv
  BY RunInit
<1>2. RunIInv /\ [ServerStep \/ ClientStep]_allVars => RunIInv'
  BY RunNext
<1> QED
  BY <1>1, <1>2, PTL DEF MCSpec

(* All the servers keep their variables in their sets. *)
THEOREM RunTypesKept == MCSpec => []TypesOK
<1>1. RunIInv => TypesOK
  BY SameTypes DEF RunIInv, IInv, PortTyped, AsyncTyped, LoopTyped, Messages,
     TypesOK, Port!TypeOK, Async!TypeOK, Loops!TypeOK
<1> QED
  BY <1>1, RunInvariance, PTL

(* In the completion port server nobody has the record of a connection     *)
(* that somebody else has.                                                 *)
THEOREM RunOneOwner == MCSpec => []OneOwner
<1>1. RunIInv => OneOwner
  BY Owned DEF RunIInv, OneOwner
<1> QED
  BY <1>1, RunInvariance, PTL

(* In the server with window messages the right to call recv() is neither  *)
(* lost nor doubled.                                                       *)
THEOREM RunOneRead == MCSpec => []OneReadMessage
<1>1. RunIInv => OneReadMessage
  BY AsyncOneRead DEF RunIInv, OneReadMessage
<1> QED
  BY <1>1, RunInvariance, PTL

(* The bytes of a client are sent back or wait in the buffer, in order, in *)
(* the servers with an accept loop and in the one with window messages.    *)
THEOREM RunBytesKept == MCSpec => []BytesKept
<1>1. RunIInv => BytesKept
  BY LoopEchoes, AsyncKeeps DEF RunIInv, BytesKept
<1> QED
  BY <1>1, RunInvariance, PTL

(* The server with window messages gives up only those it may give up. *)
THEOREM RunGivesUp == MCSpec => ClosedOnlyFor
<1>1. ASSUME RunIInv, [ServerStep \/ ClientStep]_allVars
      PROVE  [program = "AsyncSelectTCPServer" =>
                 \A c \in Clients : Async!GivesUp(c) => Async!Excused(c)]_allVars
  <2> SUFFICES ASSUME program = "AsyncSelectTCPServer", NEW c \in Clients, Async!GivesUp(c)
               PROVE  Async!Excused(c)
    OBVIOUS
  <2>1. StepOfAsync \/ StepOfNone
    BY <1>1, StepIsOf DEF StepOfEPoll, StepOfPort, StepOfLoops, LoopPrograms
  <2>2. CASE StepOfAsync
    BY <1>1, <2>2, AsyncGivesUp DEF RunIInv, StepOfAsync
  <2>3. CASE StepOfNone
    BY <2>3 DEF StepOfNone, XUnchanged, Async!GivesUp
  <2> QED
    BY <2>1, <2>2, <2>3
<1> QED
  BY <1>1, RunInvariance, PTL DEF MCSpec, ClosedOnlyFor

(* Of the programs that do not run, the process has not ended.             *)
EchoIInv ==
    /\ RunIInv
    /\ program = "CompletionPortTCPServer" => PortEnded
    /\ program \in EchoLoops => LoopEnded
    /\ program # "CompletionPortTCPServer" => main # "exit"
    /\ program \notin LoopPrograms \cup {"Server"} => LoopGoes

(* What a step of the run is to the two instances of EchoSpec. *)
StepEchoes ==
    /\ program' = program
    /\ program \in Blocking => EchoStep(Cardinality(Fds) - 1, Going, Going')
    /\ program = "ThreadTCPServer" => EchoStep(Places, LoopGoes, LoopGoes')

LEMMA ProgramsDiffer ==
    /\ "CompletionPortTCPServer" \notin LoopPrograms \cup {"Server"}
    /\ "EPollTCPServer" \notin LoopPrograms \cup {"Server"} \cup Blocking
    /\ "AsyncSelectTCPServer" \notin LoopPrograms \cup {"Server"} \cup Blocking
    /\ Blocking \ {"CompletionPortTCPServer"} = {"TCPServer"}
    /\ EchoLoops \subseteq LoopPrograms
    /\ "CompletionPortTCPServer" \in Blocking /\ "TCPServer" \in EchoLoops
    /\ "ThreadTCPServer" \in EchoLoops
    /\ "ThreadTCPServer" \notin Blocking
  BY DEF LoopPrograms, Blocking, EchoLoops

LEMMA GoingIsMain ==
    ASSUME LoopGoes, LoopGoes', NEW places,
           EchoStep(places, main # "exit", main' # "exit")
    PROVE  EchoStep(places, Going, Going')
<1>1. (Going <=> main # "exit") /\ (Going' <=> main' # "exit")
  BY Zenon DEF Going, LoopGoes
<1> QED
  BY <1>1, Zenon DEF EchoStep, Heard

LEMMA GoingIsLoop ==
    ASSUME main # "exit", main' # "exit", NEW places,
           EchoStep(places, LoopGoes, LoopGoes')
    PROVE  EchoStep(places, Going, Going')
<1>1. (Going <=> LoopGoes) /\ (Going' <=> LoopGoes')
  BY Zenon DEF Going, LoopGoes
<1> QED
  BY <1>1, Zenon DEF EchoStep, Heard

LEMMA LoopStepEchoes ==
    ASSUME EchoIInv, StepOfLoops, program \in EchoLoops
    PROVE  EchoStep(LoopPlaces, LoopGoes, LoopGoes') /\ LoopEnded'
<1>1. LoopIInv /\ LoopEnded /\ program' = program /\ program # "Server"
  BY ProgramsDiffer DEF EchoIInv, RunIInv, StepOfLoops, EchoLoops
<1>2. CASE Loops!Server
  BY <1>1, <1>2, LoopEchoSteps
<1>3. CASE LoopLeft /\ \E c \in Clients : RemoteX(c)
  <2>1. loop' = loop
    BY <1>3 DEF LoopLeft
  <2> QED
    BY <1>1, <1>3, <2>1, LoopRemoteEchoes
<1> QED
  BY <1>1, <1>2, <1>3 DEF StepOfLoops

LEMMA EchoNext ==
    ASSUME EchoIInv, [ServerStep \/ ClientStep]_allVars PROVE EchoIInv' /\ StepEchoes
<1>1. RunIInv'
  BY RunNext DEF EchoIInv
<1>2. CASE StepOfEPoll
  <2>1. program = "EPollTCPServer" /\ program' = program /\ main' = main /\ loop' = loop
    BY <1>2 DEF StepOfEPoll, PortUnchanged, LoopLeft
  <2> QED
    BY <1>1, <2>1 DEF EchoIInv, StepEchoes, LoopGoes, LoopPrograms, EchoLoops, Blocking
<1>3. CASE StepOfAsync
  <2>1. program = "AsyncSelectTCPServer" /\ program' = program /\ main' = main /\ loop' = loop
    BY <1>3 DEF StepOfAsync, PortUnchanged, LoopLeft
  <2> QED
    BY <1>1, <2>1 DEF EchoIInv, StepEchoes, LoopGoes, LoopPrograms, EchoLoops, Blocking
<1>4. CASE StepOfPort
  <2>1. /\ program = "CompletionPortTCPServer" /\ program' = program /\ loop' = loop
        /\ [Port!Next]_(Port!vars)
    BY <1>4 DEF StepOfPort, LoopLeft
  <2>2. PortIInv /\ PortEnded /\ LoopGoes
    BY <2>1, ProgramsDiffer DEF EchoIInv, RunIInv
  <2>3. LoopGoes'
    BY <2>1, <2>2 DEF LoopGoes
  <2>4. EchoStep(Cardinality(Fds) - 1, main # "exit", main' # "exit") /\ PortEnded'
    BY <2>1, <2>2, PortEchoes
  <2>5. EchoStep(Cardinality(Fds) - 1, Going, Going')
    BY <2>2, <2>3, <2>4, GoingIsMain
  <2> QED
    BY <1>1, <2>1, <2>3, <2>4, <2>5 DEF EchoIInv, StepEchoes, EchoLoops
<1>5. CASE StepOfLoops
  <2>1. /\ program \in LoopPrograms \cup {"Server"} /\ program' = program
        /\ main' = main
    BY <1>5 DEF StepOfLoops, PortUnchanged
  <2>2. main # "exit" /\ main' # "exit" /\ program # "CompletionPortTCPServer"
    BY <2>1, ProgramsDiffer DEF EchoIInv
  <2>3. program \in EchoLoops => EchoStep(LoopPlaces, LoopGoes, LoopGoes') /\ LoopEnded'
    BY <1>5, LoopStepEchoes
  <2>4. program = "ThreadTCPServer" => EchoStep(Places, LoopGoes, LoopGoes')
    BY <2>3 DEF LoopPlaces, EchoLoops
  <2>5. program = "TCPServer" => EchoStep(Cardinality(Fds) - 1, LoopGoes, LoopGoes')
    BY <2>3 DEF LoopPlaces, EchoLoops
  <2>6. program \in Blocking => EchoStep(Cardinality(Fds) - 1, Going, Going')
    BY <2>2, <2>5, GoingIsLoop DEF Blocking
  <2> QED
    BY <1>1, <2>1, <2>2, <2>3, <2>4, <2>6 DEF EchoIInv, StepEchoes
<1>6. CASE StepOfNone
  <2>1. /\ program' = program /\ main' = main /\ loop' = loop
        /\ UNCHANGED <<x_link, x_peer, x_sent, x_out, x_fdt>>
    BY <1>6 DEF StepOfNone, XUnchanged, PortUnchanged, LoopLeft
  <2>2. (Going <=> Going') /\ (LoopGoes <=> LoopGoes') /\ Quiet
    BY <2>1 DEF Going, LoopGoes, Quiet
  <2>3. EchoStep(Cardinality(Fds) - 1, Going, Going') /\ EchoStep(Places, LoopGoes, LoopGoes')
    BY <2>2 DEF EchoStep
  <2>4. (PortEnded => PortEnded') /\ (LoopEnded => LoopEnded')
    BY <2>1 DEF PortEnded, LoopEnded, LoopGoes
  <2> QED
    BY <1>1, <2>1, <2>2, <2>3, <2>4 DEF EchoIInv, StepEchoes
<1> QED
  BY <1>2, <1>3, <1>4, <1>5, <1>6, StepIsOf

(* An instance whose program does not run shows nothing. *)
LEMMA NothingShown ==
    ASSUME program' = program
    PROVE  /\ program \notin Blocking => UNCHANGED EchoBlocking!vars
           /\ program # "ThreadTCPServer" => UNCHANGED EchoThreads!vars
  BY Zenon DEF Shown, Always, EchoBlocking!vars, EchoThreads!vars

LEMMA EchoInit == ASSUME MCInit PROVE EchoIInv /\ EchoBlocking!Init /\ EchoThreads!Init
<1>1. RunIInv
  BY RunInit
<1>2. /\ main = "accept" /\ loop[listen_sock] = "runs"
      /\ x_link = Always("new") /\ x_peer = Always("up") /\ x_sent = Always(0)
      /\ x_out = Always(<<>>)
  <2>1. listen_sock \in Listeners
    BY Descriptors
  <2>2. main = "accept"
    BY DEF MCInit, Port!Init
  <2>3. loop[listen_sock] = "runs"
    BY <2>1 DEF MCInit, Loops!Init
  <2>4. /\ x_link = Always("new") /\ x_peer = Always("up") /\ x_sent = Always(0)
        /\ x_out = Always(<<>>)
    BY DEF MCInit, Port!Init, Port!SocketsInit, Always
  <2> QED
    BY <2>2, <2>3, <2>4
<1>3. EchoIInv
  BY <1>1, <1>2 DEF EchoIInv, PortEnded, LoopEnded, LoopGoes
<1>4. EchoBlocking!Init
  BY <1>2 DEF EchoBlocking!Init, Shown, Always
<1>5. EchoThreads!Init
  BY <1>2 DEF EchoThreads!Init, Shown, Always
<1> QED
  BY <1>3, <1>4, <1>5

(* The epoll server, the completion port server, TCPServer and              *)
(* ThreadTCPServer implement EchoSpec, however many clients, descriptors   *)
(* and threads there are: what they send to a client is what the client    *)
(* sent, in order; they give up a connection only when its client has left *)
(* and has all its bytes back, and refuse one only when they are full.     *)
THEOREM RunEchoes == MCSpec => AllImplementEcho
<1>1. MCInit => EchoIInv /\ EchoBlocking!Init /\ EchoThreads!Init
  BY EchoInit
<1>2. EchoIInv /\ [ServerStep \/ ClientStep]_allVars => EchoIInv'
  BY EchoNext
<1>3. ASSUME EchoIInv, [ServerStep \/ ClientStep]_allVars
      PROVE  [EchoBlocking!Next]_(EchoBlocking!vars) /\ [EchoThreads!Next]_(EchoThreads!vars)
  <2>1. StepEchoes
    BY <1>3, EchoNext
  <2>2. [EchoBlocking!Next]_(EchoBlocking!vars)
    BY <2>1, BlockingStep, NothingShown DEF StepEchoes
  <2>3. [EchoThreads!Next]_(EchoThreads!vars)
    BY <2>1, ThreadsStep, NothingShown DEF StepEchoes
  <2> QED
    BY <2>2, <2>3
<1>4. MCSpec => EchoBlocking!Spec /\ EchoThreads!Spec
  BY <1>1, <1>2, <1>3, PTL DEF MCSpec, EchoBlocking!Spec, EchoThreads!Spec
<1>5. MCSpec => Spec
  <2>1. MCInit => Init
    BY DEF MCInit
  <2>2. [ServerStep \/ ClientStep]_allVars => [Next]_vars
    BY StepIsOf DEF StepOfEPoll, StepOfPort, StepOfAsync, StepOfLoops, StepOfNone
  <2> QED
    BY <2>1, <2>2, PTL DEF MCSpec, Spec
<1> QED
  BY <1>4, <1>5, RefinesEcho, PTL DEF AllImplementEcho
=============================================================================
