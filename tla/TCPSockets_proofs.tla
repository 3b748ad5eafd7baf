-------------------------- MODULE TCPSockets_proofs --------------------------
(***************************************************************************)
(* Lemmas for the proofs about the servers that keep an array of records:  *)
(* sequences, and the books of a record and its client.                    *)
(***************************************************************************)
EXTENDS TCPSockets, FiniteSetTheorems, SequenceTheorems, TLAPS

-----------------------------------------------------------------------------
(* Sequences. *)

(* Filling the place of element k with the last one, as RemoveSocketInfo() *)
(* does, makes a sequence that is one shorter.                             *)
LEMMA Compaction ==
    ASSUME NEW S, NEW s \in Seq(S), NEW k \in 1 .. Len(s), NEW t,
           t = [j \in 1 .. (Len(s) - 1) |-> s[IF j = k THEN Len(s) ELSE j]]
    PROVE  /\ t \in Seq(S)
           /\ Len(t) = Len(s) - 1
           /\ \A j \in 1 .. Len(t) : t[j] = s[IF j = k THEN Len(s) ELSE j]
<1>1. Len(s) \in Nat /\ Len(s) - 1 \in Nat
  OBVIOUS
<1>2. \A j \in 1 .. (Len(s) - 1) : s[IF j = k THEN Len(s) ELSE j] \in S
  BY <1>1
<1>3. t \in [1 .. (Len(s) - 1) -> S]
  BY <1>2
<1>4. t \in Seq(S)
  BY <1>1, <1>3
<1>5. Len(t) = Len(s) - 1
  BY <1>1, <1>3, <1>4
<1> QED
  BY <1>4, <1>5

(* Replacing one element keeps the length. *)
LEMMA Replacement ==
    ASSUME NEW S, NEW s \in Seq(S), NEW k \in 1 .. Len(s), NEW e \in S
    PROVE  /\ [s EXCEPT ![k] = e] \in Seq(S)
           /\ Len([s EXCEPT ![k] = e]) = Len(s)
           /\ \A j \in 1 .. Len(s) :
                 [s EXCEPT ![k] = e][j] = IF j = k THEN e ELSE s[j]
  OBVIOUS

(* The bytes that send() is given are those after the ones already sent. *)
LEMMA Slice ==
    ASSUME NEW S, NEW s \in Seq(S), NEW a \in Nat, NEW n \in Nat, a + n <= Len(s)
    PROVE  /\ SubSeq(s, a + 1, a + n) \in Seq(S)
           /\ Len(SubSeq(s, a + 1, a + n)) = n
           /\ \A j \in 1 .. n : SubSeq(s, a + 1, a + n)[j] = s[a + j]
  OBVIOUS

LEMMA Joining ==
    ASSUME NEW S, NEW s \in Seq(S), NEW t \in Seq(S)
    PROVE  /\ s \o t \in Seq(S)
           /\ Len(s \o t) = Len(s) + Len(t)
           /\ \A j \in 1 .. (Len(s) + Len(t)) :
                 (s \o t)[j] = IF j <= Len(s) THEN s[j] ELSE t[j - Len(s)]
  OBVIOUS

(* What recv() stores in the buffer. *)
LEMMA ChunkType ==
    ASSUME NEW c \in Clients, NEW m \in Nat, NEW n \in Nat
    PROVE  /\ Chunk(c, m, n) \in Seq(Bytes)
           /\ Len(Chunk(c, m, n)) = n
           /\ \A j \in 1 .. n : Chunk(c, m, n)[j] = <<c, m + j>>
<1>1. \A j \in 1 .. n : <<c, m + j>> \in Bytes
  BY DEF Bytes
<1>2. Chunk(c, m, n) \in [1 .. n -> Bytes]
  BY <1>1 DEF Chunk
<1>3. Chunk(c, m, n) \in Seq(Bytes)
  BY <1>2
<1> QED
  BY <1>2, <1>3 DEF Chunk

-----------------------------------------------------------------------------
(* The books of a record (Booked), whatever else the record has. *)

(* What waits in the buffer are the next bytes of the client's stream. *)
LEMMA NextBytes ==
    ASSUME NEW ptr, NEW c \in Clients, NEW took \in Nat, NEW gave \in Nat,
           ptr.buf \in Seq(Bytes), ptr.recvbytes \in Nat, ptr.sendbytes \in Nat,
           Booked(ptr, c, took, gave),
           NEW b \in Nat, b <= ptr.recvbytes - ptr.sendbytes
    PROVE  SubSeq(ptr.buf, ptr.sendbytes + 1, ptr.sendbytes + b) = Chunk(c, gave, b)
<1> DEFINE from == SubSeq(ptr.buf, ptr.sendbytes + 1, ptr.sendbytes + b)
<1>1. /\ ptr.sendbytes + b <= Len(ptr.buf) /\ ptr.buf \in Seq(Bytes)
      /\ ptr.sendbytes \in Nat /\ b \in Nat
  BY DEF Booked
<1>2. /\ from \in Seq(Bytes) /\ Len(from) = b
      /\ \A m \in 1 .. b : from[m] = ptr.buf[ptr.sendbytes + m]
  BY ONLY <1>1, Slice, ZenonT(180) DEF from
<1>3. /\ Chunk(c, gave, b) \in Seq(Bytes) /\ Len(Chunk(c, gave, b)) = b
      /\ \A m \in 1 .. b : Chunk(c, gave, b)[m] = <<c, gave + m>>
  BY ChunkType
<1>4. ASSUME NEW m \in 1 .. b PROVE from[m] = Chunk(c, gave, b)[m]
  <2>1. ptr.sendbytes + m \in (ptr.sendbytes + 1) .. ptr.recvbytes
    OBVIOUS
  <2>2. ptr.buf[ptr.sendbytes + m] = <<c, gave + (ptr.sendbytes + m) - ptr.sendbytes>>
    BY <2>1 DEF Booked
  <2>3. gave + (ptr.sendbytes + m) - ptr.sendbytes = gave + m
    OBVIOUS
  <2> QED
    BY <1>2, <1>3, <2>2, <2>3
<1> HIDE DEF from
<1>5. from = Chunk(c, gave, b)
  BY <1>2, <1>3, <1>4, SeqEqual
<1> QED
  BY <1>5 DEF from

(* recv() of b bytes into a buffer from which everything has been sent. *)
LEMMA BookedRecv ==
    ASSUME NEW ptr, NEW new, NEW c \in Clients, NEW took \in Nat, NEW gave \in Nat,
           NEW b \in Nat,
           ptr.recvbytes \in Nat, ptr.sendbytes \in Nat, Booked(ptr, c, took, gave),
           ~ (ptr.recvbytes > ptr.sendbytes), b > 0,
           new.buf = Chunk(c, took, b), new.recvbytes = b, new.sendbytes = ptr.sendbytes
    PROVE  Booked(new, c, took + b, gave)
<1>1. ptr.sendbytes = 0 /\ took = gave
  BY DEF Booked
<1>2. Len(Chunk(c, took, b)) = b /\ \A m \in 1 .. b : Chunk(c, took, b)[m] = <<c, took + m>>
  BY ChunkType
<1> QED
  BY <1>1, <1>2 DEF Booked

(* send() of b bytes: the counters are advanced, or set to 0 when the      *)
(* buffer is empty.                                                        *)
LEMMA BookedSend ==
    ASSUME NEW ptr, NEW new, NEW c \in Clients, NEW took \in Nat, NEW gave \in Nat,
           NEW b \in Nat, b <= ptr.recvbytes - ptr.sendbytes,
           ptr.buf \in Seq(Bytes), ptr.recvbytes \in Nat, ptr.sendbytes \in Nat,
           Booked(ptr, c, took, gave),
           new.buf = ptr.buf,
           \/ /\ ptr.sendbytes + b = ptr.recvbytes
              /\ new.recvbytes = 0 /\ new.sendbytes = 0
           \/ /\ ptr.sendbytes + b # ptr.recvbytes
              /\ new.recvbytes = ptr.recvbytes /\ new.sendbytes = ptr.sendbytes + b
    PROVE  Booked(new, c, took, gave + b)
<1>1. /\ took = gave + ptr.recvbytes - ptr.sendbytes
      /\ ptr.recvbytes <= Len(ptr.buf) /\ Len(ptr.buf) \in Nat
  BY DEF Booked
<1>2. CASE /\ ptr.sendbytes + b = ptr.recvbytes
           /\ new.recvbytes = 0 /\ new.sendbytes = 0
  <2>1. took = gave + b /\ 0 <= Len(ptr.buf) /\ (0 + 1) .. 0 = {}
    BY <1>1, <1>2
  <2> QED
    BY <1>2, <2>1 DEF Booked
<1>3. CASE /\ ptr.sendbytes + b # ptr.recvbytes
           /\ new.recvbytes = ptr.recvbytes /\ new.sendbytes = ptr.sendbytes + b
  <2>1. ASSUME NEW m \in (ptr.sendbytes + b + 1) .. ptr.recvbytes
        PROVE  ptr.buf[m] = <<c, gave + b + m - (ptr.sendbytes + b)>>
    <3>1. ptr.buf[m] = <<c, gave + m - ptr.sendbytes>>
      BY DEF Booked
    <3>2. gave + m - ptr.sendbytes = gave + b + m - (ptr.sendbytes + b)
      OBVIOUS
    <3> QED
      BY <3>1, <3>2
  <2>2. /\ ptr.sendbytes + b <= ptr.recvbytes
        /\ took = gave + b + ptr.recvbytes - (ptr.sendbytes + b)
    BY <1>1
  <2> QED
    BY <1>1, <1>3, <2>1, <2>2 DEF Booked
<1> QED
  BY <1>2, <1>3

(* A client that is given the next bytes of its stream has got them in     *)
(* order.                                                                  *)
LEMMA InOrder ==
    ASSUME NEW c \in Clients, NEW s \in Seq(Bytes), NEW b \in Nat,
           \A m \in 1 .. Len(s) : s[m] = <<c, m>>
    PROVE  /\ s \o Chunk(c, Len(s), b) \in Seq(Bytes)
           /\ Len(s \o Chunk(c, Len(s), b)) = Len(s) + b
           /\ \A m \in 1 .. (Len(s) + b) : (s \o Chunk(c, Len(s), b))[m] = <<c, m>>
<1> DEFINE t == Chunk(c, Len(s), b)
<1>1. Len(s) \in Nat
  OBVIOUS
<1>2. /\ t \in Seq(Bytes) /\ Len(t) = b
      /\ \A m \in 1 .. b : t[m] = <<c, Len(s) + m>>
  BY <1>1, ChunkType
<1> HIDE DEF t
<1>3. /\ s \o t \in Seq(Bytes) /\ Len(s \o t) = Len(s) + b
      /\ \A m \in 1 .. (Len(s) + b) :
            (s \o t)[m] = IF m <= Len(s) THEN s[m] ELSE t[m - Len(s)]
  BY <1>2, Joining
<1>4. ASSUME NEW m \in 1 .. (Len(s) + b) PROVE (s \o t)[m] = <<c, m>>
  <2>1. CASE m <= Len(s)
    BY <1>1, <1>3, <2>1
  <2>2. CASE ~ (m <= Len(s))
    <3>1. m - Len(s) \in 1 .. b /\ Len(s) + (m - Len(s)) = m
      BY <1>1, <2>2
    <3>2. t[m - Len(s)] = <<c, Len(s) + (m - Len(s))>>
      BY <1>2, <3>1
    <3> QED
      BY <1>3, <2>2, <3>1, <3>2
  <2> QED
    BY <2>1, <2>2
<1> QED
  BY <1>3, <1>4 DEF t

(* A client that was given all that was taken from it, which is all that   *)
(* arrived, has its whole stream.                                          *)
LEMMA WholeStream ==
    ASSUME NEW c \in Clients, NEW s \in Seq(Bytes),
           \A m \in 1 .. Len(s) : s[m] = <<c, m>>
    PROVE  s = Stream(c, Len(s))
<1>1. Len(s) \in Nat
  OBVIOUS
<1>2. \A m \in 1 .. Len(s) : <<c, m>> \in Bytes
  BY <1>1 DEF Bytes
<1>3. Stream(c, Len(s)) \in Seq(Bytes) /\ Len(Stream(c, Len(s))) = Len(s)
  BY <1>1, <1>2 DEF Stream
<1>4. \A m \in 1 .. Len(s) : Stream(c, Len(s))[m] = s[m]
  BY DEF Stream
<1> QED
  BY <1>3, <1>4, SeqEqual

-----------------------------------------------------------------------------
(* The clients. *)

(* The types of the sockets when the bytes given to the clients are in S. *)
SocketsTyped(S) ==
    /\ link \in [Clients -> {"new", "backlog", "open", "closed"}]
    /\ peer \in [Clients -> {"up", "fin", "rst"}]
    /\ sent \in [Clients -> Nat]
    /\ taken \in [Clients -> Nat]
    /\ out \in [Clients -> Seq(S)]
    /\ got \in [Clients -> Nat]
    /\ fdt \in [Fds -> Clients \cup Listeners \cup {Free}]

(* The system calls keep the types. *)
LEMMA TakeTyped ==
    ASSUME NEW S, SocketsTyped(S), NEW c \in Clients, NEW n \in Nat,
           taken' = [taken EXCEPT ![c] = @ + n],
           UNCHANGED <<link, peer, sent, out, got, fdt>>
    PROVE  SocketsTyped(S)'
<1>1. taken' \in [Clients -> Nat]
  BY DEF SocketsTyped
<1> QED
  BY <1>1 DEF SocketsTyped

LEMMA GiveTyped ==
    ASSUME NEW S, SocketsTyped(S), NEW c \in Clients, NEW bytes \in Seq(S),
           out' = [out EXCEPT ![c] = @ \o bytes],
           UNCHANGED <<link, peer, sent, taken, got, fdt>>
    PROVE  SocketsTyped(S)'
<1>1. out[c] \o bytes \in Seq(S)
  BY DEF SocketsTyped
<1>2. out' \in [Clients -> Seq(S)]
  BY <1>1 DEF SocketsTyped
<1> QED
  BY <1>2 DEF SocketsTyped

LEMMA LinkTyped ==
    ASSUME NEW S, SocketsTyped(S),
           link' \in [Clients -> {"new", "backlog", "open", "closed"}],
           fdt' \in [Fds -> Clients \cup Listeners \cup {Free}],
           UNCHANGED <<peer, sent, taken, out, got>>
    PROVE  SocketsTyped(S)'
  BY DEF SocketsTyped

(* What clients do leaves what the server has taken and given, and its     *)
(* descriptors, as they are, and neither opens nor closes a connection.    *)
LEMMA RemoteLeaves ==
    ASSUME NEW S, SocketsTyped(S), NEW c \in Clients, Remote(c)
    PROVE  /\ SocketsTyped(S)' /\ taken' = taken /\ out' = out /\ fdt' = fdt
           /\ \A d \in Clients :
                 /\ link'[d] = "open" <=> link[d] = "open"
                 /\ link'[d] = "closed" <=> link[d] = "closed"
                 /\ link'[d] \in {"new", "backlog"} => link[d] \in {"new", "backlog"}
<1> USE DEF SocketsTyped
<1>1. CASE Connect(c)
  BY <1>1 DEF Connect
<1>2. CASE ClientSend(c)
  <2>1. sent' \in [Clients -> Nat]
    BY <1>2 DEF ClientSend
  <2> QED
    BY <1>2, <2>1 DEF ClientSend
<1>3. CASE ClientRead(c)
  <2>1. got' \in [Clients -> Nat]
    BY <1>3 DEF ClientRead
  <2> QED
    BY <1>3, <2>1 DEF ClientRead
<1>4. CASE ClientFin(c) \/ ClientReset(c)
  BY <1>4 DEF ClientFin, ClientReset
<1> QED
  BY <1>1, <1>2, <1>3, <1>4 DEF Remote

(* The same for the servers that send back what they received. *)
LEMMA RemoteFrame ==
    ASSUME SocketsTypeOK, NEW c \in Clients, Remote(c)
    PROVE  /\ SocketsTypeOK' /\ taken' = taken /\ out' = out /\ fdt' = fdt
           /\ \A d \in Clients :
                 /\ link'[d] = "open" <=> link[d] = "open"
                 /\ link'[d] = "closed" <=> link[d] = "closed"
                 /\ link'[d] \in {"new", "backlog"} => link[d] \in {"new", "backlog"}
<1>1. SocketsTyped(Bytes)
  BY DEF SocketsTyped, SocketsTypeOK
<1>2. /\ SocketsTyped(Bytes)' /\ taken' = taken /\ out' = out /\ fdt' = fdt
      /\ \A d \in Clients :
            /\ link'[d] = "open" <=> link[d] = "open"
            /\ link'[d] = "closed" <=> link[d] = "closed"
            /\ link'[d] \in {"new", "backlog"} => link[d] \in {"new", "backlog"}
  BY <1>1, RemoteLeaves
<1>3. SocketsTypeOK'
  BY <1>2 DEF SocketsTyped, SocketsTypeOK
<1> QED
  BY <1>2, <1>3

(* What clients do makes a connection readable and writable, never the     *)
(* opposite.                                                               *)
LEMMA RemoteKeeps ==
    ASSUME NEW S, SocketsTyped(S), NEW c \in Clients, Remote(c), NEW d \in Clients
    PROVE  /\ ~ SendWouldBlock(d) => ~ SendWouldBlock(d)'
           /\ taken[d] <= sent[d] => /\ ~ RecvWouldBlock(d) => ~ RecvWouldBlock(d)'
                                     /\ taken'[d] <= sent'[d]
<1> USE DEF SocketsTyped, RecvWouldBlock, SendWouldBlock, Unread, SendSpace
<1>1. CASE Connect(c)
  BY <1>1 DEF Connect
<1>2. CASE ClientSend(c)
  <2>1. /\ sent' = [sent EXCEPT ![c] = @ + 1] /\ peer' = peer /\ taken' = taken
        /\ out' = out /\ got' = got
    BY <1>2 DEF ClientSend
  <2>2. sent[d] \in Nat /\ taken[d] \in Nat /\ sent'[d] \in {sent[d], sent[d] + 1}
    BY <2>1
  <2> QED
    BY <2>1, <2>2
<1>3. CASE ClientRead(c)
  <2>1. /\ got' = [got EXCEPT ![c] = @ + 1] /\ peer' = peer /\ taken' = taken
        /\ out' = out /\ sent' = sent
    BY <1>3 DEF ClientRead
  <2>2. /\ got[d] \in Nat /\ got'[d] \in {got[d], got[d] + 1} /\ Len(out[d]) \in Nat
        /\ SNDBUF \in Nat
    BY <2>1, SocketsAssumption
  <2> QED
    BY <2>1, <2>2
<1>4. CASE ClientFin(c) \/ ClientReset(c)
  <2>1. /\ peer' = [peer EXCEPT ![c] = "fin"] \/ peer' = [peer EXCEPT ![c] = "rst"]
        /\ peer[c] = "up" \/ peer' = [peer EXCEPT ![c] = "rst"]
        /\ sent' = sent /\ taken' = taken /\ out' = out /\ got' = got
    BY <1>4 DEF ClientFin, ClientReset
  <2>2. peer'[d] = peer[d] \/ (peer'[d] = "fin" /\ peer[d] = "up") \/ peer'[d] = "rst"
    BY <2>1
  <2> QED
    BY <2>1, <2>2
<1> QED
  BY <1>1, <1>2, <1>3, <1>4 DEF Remote

LEMMA RemoteKeepsReady ==
    ASSUME SocketsTypeOK, NEW c \in Clients, Remote(c), NEW d \in Clients
    PROVE  /\ ~ SendWouldBlock(d) => ~ SendWouldBlock(d)'
           /\ taken[d] <= sent[d] => /\ ~ RecvWouldBlock(d) => ~ RecvWouldBlock(d)'
                                     /\ taken'[d] <= sent'[d]
<1>1. SocketsTyped(Bytes)
  BY DEF SocketsTyped, SocketsTypeOK
<1> QED
  BY <1>1, RemoteKeeps
=============================================================================
