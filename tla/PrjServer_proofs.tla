-------------------------- MODULE PrjServer_proofs --------------------------
(***************************************************************************)
(* Proofs about module PrjServer, for any set of clients and any size of   *)
(* the messages, the descriptor table and the record array.                *)
(***************************************************************************)
EXTENDS PrjServer, TCPSockets_proofs

-----------------------------------------------------------------------------
(* The inductive invariant. *)

(* The listeners keep their descriptors while the program runs, and every  *)
(* open connection has one of its own.                                     *)
DescriptorTable ==
    /\ pc # "exit" => fdt[listenfd4] = listen_sock4 /\ fdt[listenfd6] = listen_sock6
    /\ pc = "exit" => SocketInfoArray = <<>>
    /\ \A f \in Fds : fdt[f] \in Clients => link[fdt[f]] = "open"
    /\ \A f, g \in Fds : fdt[f] \in Clients /\ fdt[f] = fdt[g] => f = g

(* Every record is an open connection of its own and holds the beginning   *)
(* of a message.                                                           *)
Records ==
    /\ \A k \in 1 .. nTotalSockets :
          /\ Connected(SocketInfoArray[k].sock)
          /\ SocketInfoArray[k].recvbytes < BUFSIZE
          /\ SocketInfoArray[k].recvbytes <= Len(SocketInfoArray[k].buf)
    /\ \A k, m \in 1 .. nTotalSockets :
          SocketInfoArray[k].sock = SocketInfoArray[m].sock => k = m

(* What select() reported is still worth a recv(), for the records the     *)
(* data loop has yet to come to; while connections are accepted, no        *)
(* reported descriptor is free.                                            *)
StillReadable ==
    /\ \A k \in 1 .. nTotalSockets :
          (/\ SocketInfoArray[k].sock \in rset
           /\ k > i \/ (k = i /\ pc # "send"))
             => ~ RecvWouldBlock(Owner(k))
    /\ pc \in {"accept4", "accept6"} => \A f \in rset : fdt[f] # Free
    /\ pc = "select" => rset = {}
    /\ \A c \in Clients : taken[c] <= sent[c]

(* Broadcasts, as an operator of any log. *)
Count(s, c, m) == Cardinality({x \in 1 .. m : s[x][1][1] = c})

(* The bytes taken from a client are the messages broadcast for it and     *)
(* what its record holds.                                                  *)
Collected ==
    /\ \A k \in 1 .. nTotalSockets :
          LET c == Owner(k)
              info == SocketInfoArray[k]
              before == BUFSIZE * Count(log, c, Len(log))
          IN  /\ taken[c] = before + info.recvbytes
              /\ \A m \in 1 .. info.recvbytes : info.buf[m] = <<c, before + m>>
    /\ \A c \in Clients : link[c] \in {"new", "backlog"} =>
          taken[c] = 0 /\ out[c] = <<>> /\ Count(log, c, Len(log)) = 0

(* Clients are given whole messages, and none that was not broadcast. *)
Deliveries ==
    /\ \A c \in Clients :
          /\ Len(out[c]) = BUFSIZE * Received(c)
          /\ joined[c] + Received(c) <= Len(log)

(* The two parts of CommonOrder. *)
SameMessages ==
    \A c \in Clients : \A q \in 1 .. Received(c) :
       Message(c, q) \in {log[joined[c] + q], [k \in 1 .. BUFSIZE |-> Garbage]}
CaughtUp ==
    \A k \in 1 .. nTotalSockets :
       joined[Owner(k)] + Received(Owner(k)) =
          IF pc = "send" /\ k >= j THEN Len(log) - 1 ELSE Len(log)

(* The message under way is the last of the log. *)
Broadcasting == pc = "send" => Len(log) > 0 /\ ptr.buf = log[Len(log)]

IInv == /\ TypeOK /\ SocketsTyped(ChatBytes) /\ DescriptorTable /\ Records
        /\ StillReadable /\ Collected /\ WholeMessages
        /\ Deliveries /\ SameMessages /\ CaughtUp /\ Broadcasting

-----------------------------------------------------------------------------
(* What the invariant says of one record. *)
LEMMA RecordFacts ==
    ASSUME IInv, NEW k \in 1 .. nTotalSockets
    PROVE  /\ nTotalSockets \in Nat /\ k \in Nat /\ k >= 1
           /\ SocketInfoArray[k] \in SOCKETINFO
           /\ SocketInfoArray[k].sock \in Fds
           /\ SocketInfoArray[k].buf \in Seq(Bytes)
           /\ SocketInfoArray[k].recvbytes \in Nat
           /\ SocketInfoArray[k].recvbytes < BUFSIZE
           /\ SocketInfoArray[k].recvbytes <= Len(SocketInfoArray[k].buf)
           /\ Owner(k) \in Clients
           /\ link[Owner(k)] = "open"
           /\ pc # "exit"
<1>1. SocketInfoArray \in Seq(SOCKETINFO)
  BY DEF IInv, TypeOK
<1>2. nTotalSockets \in Nat /\ SocketInfoArray[k] \in SOCKETINFO
  BY <1>1 DEF nTotalSockets
<1>3. /\ SocketInfoArray[k].sock \in Fds
      /\ SocketInfoArray[k].buf \in Seq(Bytes)
      /\ SocketInfoArray[k].recvbytes \in Nat
  BY <1>2 DEF SOCKETINFO
<1>4. /\ SocketInfoArray[k].recvbytes < BUFSIZE
      /\ SocketInfoArray[k].recvbytes <= Len(SocketInfoArray[k].buf)
      /\ Owner(k) \in Clients
  BY DEF IInv, Records, Connected, Owner
<1>5. link[Owner(k)] = "open"
  BY <1>3, <1>4 DEF IInv, DescriptorTable, Owner
<1>6. pc # "exit"
  <2>1. SocketInfoArray # <<>>
    BY DEF nTotalSockets
  <2> QED
    BY <2>1 DEF IInv, DescriptorTable
<1> QED
  BY <1>2, <1>3, <1>4, <1>5, <1>6

(* Different records belong to different clients. *)
LEMMA OwnersDiffer ==
    ASSUME IInv, NEW k \in 1 .. nTotalSockets, NEW m \in 1 .. nTotalSockets,
           Owner(k) = Owner(m)
    PROVE  k = m
<1>1. /\ SocketInfoArray[k].sock \in Fds /\ SocketInfoArray[m].sock \in Fds
      /\ Owner(k) \in Clients
  BY RecordFacts
<1>2. SocketInfoArray[k].sock = SocketInfoArray[m].sock
  BY <1>1 DEF IInv, DescriptorTable, Owner
<1> QED
  BY <1>2 DEF IInv, Records

LEMMA ListenersApart ==
    /\ listenfd4 \in Fds /\ listenfd6 \in Fds /\ listenfd4 # listenfd6
    /\ listen_sock4 \notin Clients /\ listen_sock6 \notin Clients /\ Free \notin Clients
    /\ Free # listen_sock4 /\ Free # listen_sock6
    /\ BUFSIZE \in Nat /\ BUFSIZE > 0
<1>1. 3 \in 3 .. (NOFILE - 1) /\ 4 \in 3 .. (NOFILE - 1)
  BY PrjAssumption, SocketsAssumption
<1> QED
  BY <1>1, PrjAssumption, SocketsAssumption DEF listenfd4, listenfd6, Fds

(* Messages have a length of their own each: a multiple of BUFSIZE bytes   *)
(* holds that many messages.                                               *)
LEMMA WholeNumber ==
    ASSUME NEW B \in Nat, B > 0, NEW a \in Nat
    PROVE  /\ B * a \in Nat
           /\ (B * a) \div B = a
           /\ B * (a + 1) = B * a + B
           /\ B * 0 = 0
  OBVIOUS

-----------------------------------------------------------------------------
(* Counting the broadcasts. *)

LEMMA CountFinite ==
    ASSUME NEW s, NEW c, NEW m \in Nat
    PROVE  /\ IsFiniteSet({x \in 1 .. m : s[x][1][1] = c})
           /\ Count(s, c, m) \in Nat
<1>1. IsFiniteSet(1 .. m)
  BY FS_Interval
<1>2. IsFiniteSet({x \in 1 .. m : s[x][1][1] = c})
  BY <1>1, FS_Subset
<1> QED
  BY <1>2, FS_CardinalityType DEF Count

(* One message more. *)
LEMMA CountNext ==
    ASSUME NEW s, NEW c, NEW m \in Nat
    PROVE  Count(s, c, m + 1) = Count(s, c, m) + (IF s[m + 1][1][1] = c THEN 1 ELSE 0)
<1> DEFINE S(n) == {x \in 1 .. n : s[x][1][1] = c}
<1>1. IsFiniteSet(S(m)) /\ Count(s, c, m) \in Nat
  BY CountFinite
<1>2. CASE s[m + 1][1][1] = c
  <2>1. S(m + 1) = S(m) \cup {m + 1} /\ m + 1 \notin S(m)
    BY <1>2
  <2>2. Cardinality(S(m) \cup {m + 1}) = Cardinality(S(m)) + 1
    BY <1>1, <2>1, FS_AddElement
  <2> QED
    BY <1>2, <2>1, <2>2 DEF Count
<1>3. CASE s[m + 1][1][1] # c
  <2>1. S(m + 1) = S(m)
    BY <1>3
  <2>2. Count(s, c, m + 1) = Count(s, c, m)
    BY <2>1 DEF Count
  <2> QED
    BY <1>1, <1>3, <2>2
<1> QED
  BY <1>2, <1>3

(* Messages of later broadcasts do not count. *)
LEMMA CountSame ==
    ASSUME NEW old, NEW new, NEW c, NEW m \in Nat, \A x \in 1 .. m : new[x] = old[x]
    PROVE  Count(new, c, m) = Count(old, c, m)
<1>1. {x \in 1 .. m : new[x][1][1] = c} = {x \in 1 .. m : old[x][1][1] = c}
  OBVIOUS
<1> QED
  BY <1>1 DEF Count

LEMMA WholeIs ==
    /\ WholeMessages <=>
          \A m \in 1 .. Len(log) : \E c \in Clients :
             log[m] = Chunk(c, BUFSIZE * Count(log, c, m - 1), BUFSIZE)
    /\ WholeMessages' <=>
          \A m \in 1 .. Len(log') : \E c \in Clients :
             log'[m] = Chunk(c, BUFSIZE * Count(log', c, m - 1), BUFSIZE)
  BY DEF WholeMessages, Broadcasts, Count, Chunk

-----------------------------------------------------------------------------
(* What a client was given. *)

LEMMA GivenSame ==
    ASSUME NEW c, out'[c] = out[c]
    PROVE  /\ Received(c)' = Received(c)
           /\ \A q : Message(c, q)' = Message(c, q)
  BY DEF Received, Message

(* Where message q of r messages is. *)
LEMMA MessagePlaces ==
    ASSUME NEW B \in Nat, B > 0, NEW r \in Nat, NEW q \in 1 .. r
    PROVE  (q - 1) * B + 1 \in 1 .. (B * r) /\ q * B \in 1 .. (B * r)
<1>1. q - 1 \in Nat /\ r - q \in Nat /\ q \in Nat
  OBVIOUS
<1>2. B * (r - q) \in Nat /\ B * (q - 1) \in Nat /\ B * q \in Nat /\ B * r \in Nat
  BY <1>1
<1>3. B * (r - q) = B * r - B * q /\ B * (q - 1) = B * q - B
  BY <1>1
<1>4. (q - 1) * B = B * (q - 1) /\ q * B = B * q
  BY <1>1
<1> QED
  BY <1>2, <1>3, <1>4

LEMMA AppendedPart ==
    ASSUME NEW S, NEW s \in Seq(S), NEW t \in Seq(S), Len(t) > 0
    PROVE  SubSeq(s \o t, Len(s) + 1, Len(s) + Len(t)) = t
<1> DEFINE w == s \o t
           a == Len(s)
           n == Len(t)
           u == SubSeq(w, a + 1, a + n)
<1>1. w \in Seq(S) /\ a \in Nat /\ n \in Nat /\ a + n <= Len(w)
  OBVIOUS
<1>2. \A m \in 1 .. n : w[a + m] = t[m]
  OBVIOUS
<1> HIDE DEF w, a, n
<1>3. u \in Seq(S) /\ Len(u) = n /\ \A m \in 1 .. n : u[m] = w[a + m]
  BY ONLY <1>1, Slice, ZenonT(60) DEF u
<1> HIDE DEF u
<1>4. u = t
  BY <1>1, <1>2, <1>3, SeqEqual DEF n
<1> QED
  BY <1>4 DEF u, w, a, n

(* A message more: the others stay what they were. *)
LEMMA GivenNext ==
    ASSUME NEW c, out[c] \in Seq(ChatBytes), NEW bytes \in Seq(ChatBytes),
           Len(bytes) = BUFSIZE, out'[c] = out[c] \o bytes,
           NEW r \in Nat, r = Received(c), Len(out[c]) = BUFSIZE * r
    PROVE  /\ Received(c)' = r + 1
           /\ Len(out'[c]) = BUFSIZE * (r + 1)
           /\ Message(c, r + 1)' = bytes
           /\ \A q \in 1 .. r : Message(c, q)' = Message(c, q)
<1> DEFINE B == BUFSIZE
           s == out[c]
<1>1. B \in Nat /\ B > 0 /\ r \in Nat /\ r + 1 \in Nat
  BY ListenersApart
<1>2. /\ s \in Seq(ChatBytes) /\ bytes \in Seq(ChatBytes) /\ out'[c] = s \o bytes
      /\ Len(s) = B * r /\ Len(bytes) = B
  OBVIOUS
<1> HIDE DEF B, s
<1>3. B * (r + 1) = B * r + B /\ (B * (r + 1)) \div B = r + 1 /\ B * r \in Nat
  BY ONLY <1>1, WholeNumber
<1>4. Len(s \o bytes) = B * (r + 1)
  <2>1. Len(s \o bytes) = Len(s) + Len(bytes)
    BY ONLY <1>2, ConcatProperties, ZenonT(60)
  <2> QED
    BY ONLY <1>2, <1>3, <2>1, ZenonT(60)
<1>5. Received(c)' = r + 1
  BY <1>2, <1>3, <1>4 DEF Received, B
<1>6. SubSeq(s \o bytes, (r + 1 - 1) * B + 1, (r + 1) * B) = bytes
  <2>1. (r + 1 - 1) * B + 1 = Len(s) + 1 /\ (r + 1) * B = Len(s) + Len(bytes)
    BY ONLY <1>1, <1>2, <1>3
  <2>2. SubSeq(s \o bytes, Len(s) + 1, Len(s) + Len(bytes)) = bytes
    BY ONLY <1>1, <1>2, AppendedPart, ZenonT(60)
  <2> QED
    BY ONLY <2>1, <2>2
<1>7. ASSUME NEW q \in 1 .. r
      PROVE  SubSeq(s \o bytes, (q - 1) * B + 1, q * B) = SubSeq(s, (q - 1) * B + 1, q * B)
  <2>1. (q - 1) * B + 1 \in 1 .. Len(s) /\ q * B \in 1 .. Len(s)
    BY ONLY <1>1, <1>2, MessagePlaces, q \in 1 .. r
  <2> QED
    BY ONLY <1>2, <2>1, SubSeqOfConcat1, ZenonT(60)
<1>8. \A q : /\ Message(c, q)' = SubSeq(out'[c], (q - 1) * B + 1, q * B)
            /\ Message(c, q) = SubSeq(out[c], (q - 1) * B + 1, q * B)
  BY ZenonT(60) DEF Message, B
<1>9. Message(c, r + 1)' = bytes
  <2>1. Message(c, r + 1)' = SubSeq(out'[c], (r + 1 - 1) * B + 1, (r + 1) * B)
    BY ONLY <1>8
  <2> QED
    BY ONLY <1>2, <1>6, <2>1
<1>10. ASSUME NEW q \in 1 .. r PROVE Message(c, q)' = Message(c, q)
  <2>1. SubSeq(s \o bytes, (q - 1) * B + 1, q * B) = SubSeq(s, (q - 1) * B + 1, q * B)
    BY <1>7
  <2> QED
    BY ONLY <1>2, <1>8, <2>1, ZenonT(60) DEF s
<1> QED
  BY <1>2, <1>4, <1>5, <1>9, <1>10 DEF B
-----------------------------------------------------------------------------
(* Steps that leave the records and the log as they are. *)

LEMMA Unmoved ==
    ASSUME IInv, taken' = taken, out' = out, fdt' = fdt,
           \A c \in Clients :
              /\ link'[c] = "open" <=> link[c] = "open"
              /\ link'[c] \in {"new", "backlog"} => link[c] \in {"new", "backlog"},
           SocketInfoArray' = SocketInfoArray, log' = log, joined' = joined,
           pc' = "exit" <=> pc = "exit"
    PROVE  /\ DescriptorTable' /\ Records' /\ Collected' /\ WholeMessages'
           /\ Deliveries' /\ SameMessages'
           /\ nTotalSockets' = nTotalSockets
           /\ \A k : Owner(k)' = Owner(k)
           /\ \A c : Received(c)' = Received(c)
<1>1. nTotalSockets' = nTotalSockets /\ \A k : Owner(k)' = Owner(k)
  BY DEF nTotalSockets, Owner
<1>2. \A c : Received(c)' = Received(c) /\ \A q : Message(c, q)' = Message(c, q)
  BY GivenSame
<1>3. DescriptorTable'
  BY DEF IInv, DescriptorTable
<1>4. Records'
  BY <1>1 DEF IInv, Records, Connected
<1>5. Collected'
  <2>1. \A k \in 1 .. nTotalSockets : Owner(k) \in Clients
    BY RecordFacts
  <2> QED
    BY <1>1, <2>1 DEF IInv, Collected
<1>6. WholeMessages'
  BY WholeIs DEF IInv
<1>7. Deliveries' /\ SameMessages'
  BY <1>2 DEF IInv, Deliveries, SameMessages
<1> QED
  BY <1>1, <1>2, <1>3, <1>4, <1>5, <1>6, <1>7

(* The clients. *)
LEMMA EnvironmentStep ==
    ASSUME IInv, Environment
    PROVE  IInv'
<1>1. PICK c \in Clients : Remote(c)
  BY DEF Environment
<1>2. UNCHANGED server
  BY DEF Environment
<1>3. SocketsTyped(ChatBytes)
  BY DEF IInv
<1>4. /\ SocketsTyped(ChatBytes)' /\ taken' = taken /\ out' = out /\ fdt' = fdt
      /\ \A d \in Clients :
            /\ link'[d] = "open" <=> link[d] = "open"
            /\ link'[d] \in {"new", "backlog"} => link[d] \in {"new", "backlog"}
  BY <1>1, <1>3, RemoteLeaves
<1>5. /\ pc' = pc /\ SocketInfoArray' = SocketInfoArray /\ rset' = rset /\ i' = i /\ j' = j
      /\ ptr' = ptr /\ log' = log /\ joined' = joined
  BY <1>2 DEF server
<1>6. /\ DescriptorTable' /\ Records' /\ Collected' /\ WholeMessages'
      /\ Deliveries' /\ SameMessages'
      /\ nTotalSockets' = nTotalSockets
      /\ \A k : Owner(k)' = Owner(k)
      /\ \A d : Received(d)' = Received(d)
  BY <1>4, <1>5, Unmoved
<1>7. TypeOK'
  BY <1>4, <1>5, <1>6 DEF IInv, TypeOK, SocketsTyped
<1>8. CaughtUp' /\ Broadcasting'
  <2>1. \A k \in 1 .. nTotalSockets : Owner(k) \in Clients
    BY RecordFacts
  <2> QED
    BY <1>5, <1>6, <2>1 DEF IInv, CaughtUp, Broadcasting
<1>9. StillReadable'
  <2>1. \A d \in Clients : (~ RecvWouldBlock(d) => ~ RecvWouldBlock(d)') /\ taken'[d] <= sent'[d]
    BY <1>1, <1>3, RemoteKeeps DEF IInv, StillReadable
  <2>2. \A k \in 1 .. nTotalSockets : Owner(k) \in Clients
    BY RecordFacts
  <2>3. ASSUME NEW k \in 1 .. nTotalSockets, ~ RecvWouldBlock(Owner(k))
        PROVE  ~ RecvWouldBlock(Owner(k))'
    <3>1. PICK d \in Clients : d = Owner(k)
      BY <2>2
    <3>2. d = Owner(k)'
      BY <1>6, <3>1
    <3>3. ~ RecvWouldBlock(d)
      BY <2>3, <3>1
    <3>4. ~ RecvWouldBlock(d)'
      BY <2>1, <3>3
    <3> QED
      BY <3>2, <3>4 DEF RecvWouldBlock, Unread
  <2> QED
    BY <1>4, <1>5, <1>6, <2>1, <2>3 DEF IInv, StillReadable
<1> QED
  BY <1>4, <1>6, <1>7, <1>8, <1>9 DEF IInv
-----------------------------------------------------------------------------
(* The control of the loops. *)

(* The parts of the invariant that hold whatever a step does to the loops. *)
LEMMA ControlKeeps ==
    ASSUME IInv, UNCHANGED <<sockets, SocketInfoArray, log, joined>>, pc # "exit", pc' # "exit"
    PROVE  /\ SocketsTyped(ChatBytes)' /\ DescriptorTable' /\ Records' /\ Collected'
           /\ WholeMessages' /\ Deliveries' /\ SameMessages'
           /\ nTotalSockets' = nTotalSockets /\ nTotalSockets \in Nat
           /\ \A k : Owner(k)' = Owner(k) /\ RecvWouldBlock(Owner(k))' = RecvWouldBlock(Owner(k))
           /\ \A c : Received(c)' = Received(c)
           /\ fdt' = fdt /\ taken' = taken /\ sent' = sent
<1>1. /\ taken' = taken /\ out' = out /\ fdt' = fdt /\ link' = link /\ peer' = peer
      /\ sent' = sent /\ got' = got
  BY DEF sockets
<1>2. /\ DescriptorTable' /\ Records' /\ Collected' /\ WholeMessages'
      /\ Deliveries' /\ SameMessages'
      /\ nTotalSockets' = nTotalSockets
      /\ \A k : Owner(k)' = Owner(k)
      /\ \A d : Received(d)' = Received(d)
  BY <1>1, Unmoved
<1>3. SocketsTyped(ChatBytes)'
  BY <1>1 DEF IInv, SocketsTyped
<1>4. nTotalSockets \in Nat
  BY DEF IInv, TypeOK, nTotalSockets
<1>5. \A k : RecvWouldBlock(Owner(k))' = RecvWouldBlock(Owner(k))
  BY <1>1, <1>2 DEF RecvWouldBlock, Unread
<1> QED
  BY <1>1, <1>2, <1>3, <1>4, <1>5

LEMMA SelectStep ==
    ASSUME IInv, SelectCall
    PROVE  IInv'
<1> DEFINE r == rset'
<1>1. /\ pc = "select" /\ pc' \in {"accept4", "accept6", "scan"} /\ i' = 1
      /\ UNCHANGED <<sockets, SocketInfoArray, j, ptr, log, joined>>
  BY DEF SelectCall
<1>2. \A f \in r : f \in Fds /\ ReadyForRead(f)
  BY DEF SelectCall
<1>3. /\ SocketsTyped(ChatBytes)' /\ DescriptorTable' /\ Records' /\ Collected'
      /\ WholeMessages' /\ Deliveries' /\ SameMessages'
      /\ nTotalSockets' = nTotalSockets /\ nTotalSockets \in Nat
      /\ \A k : Owner(k)' = Owner(k) /\ RecvWouldBlock(Owner(k))' = RecvWouldBlock(Owner(k))
      /\ \A c : Received(c)' = Received(c)
      /\ fdt' = fdt /\ taken' = taken /\ sent' = sent
  BY <1>1, ControlKeeps
<1>4. TypeOK'
  BY <1>1, <1>2, <1>3 DEF IInv, TypeOK, SocketsTyped
<1>5. CaughtUp' /\ Broadcasting'
  <2>1. \A k \in 1 .. nTotalSockets : Owner(k) \in Clients
    BY RecordFacts
  <2> QED
    BY <1>1, <1>3, <2>1 DEF IInv, CaughtUp, Broadcasting
<1>6. StillReadable'
  <2>1. \A f \in r : fdt'[f] # Free
    <3> SUFFICES ASSUME NEW f \in r PROVE fdt[f] # Free
      BY <1>3
    <3>1. CASE f \in {listenfd4, listenfd6}
      BY <1>1, <3>1, ListenersApart DEF IInv, DescriptorTable
    <3>2. CASE f \notin {listenfd4, listenfd6}
      BY <1>2, <3>2, ListenersApart DEF ReadyForRead, Connected
    <3> QED
      BY <3>1, <3>2
  <2>2. ASSUME NEW k \in 1 .. nTotalSockets, SocketInfoArray[k].sock \in r
        PROVE  ~ RecvWouldBlock(Owner(k))
    <3>1. PICK c \in Clients : c = Owner(k)
      BY RecordFacts
    <3>2. SocketInfoArray[k].sock \notin {listenfd4, listenfd6}
      BY <1>1, <3>1, ListenersApart DEF IInv, DescriptorTable, Owner
    <3>3. Readable(c)
      BY <1>2, <2>2, <3>1, <3>2 DEF ReadyForRead, Owner
    <3> QED
      BY <3>1, <3>3 DEF Readable, RecvWouldBlock, Unread
  <2> QED
    BY <1>1, <1>3, <2>1, <2>2 DEF IInv, StillReadable
<1> QED
  BY <1>3, <1>4, <1>5, <1>6 DEF IInv

(* The records the data loop has still to come to are fewer. *)
LEMMA LoopStep ==
    ASSUME IInv, (Skip(i) /\ i <= nTotalSockets) \/ ScanEnds \/ SendEnds
    PROVE  IInv'
<1>1. /\ pc \in {"scan", "send"} /\ pc' \in {"scan", "select"}
      /\ UNCHANGED <<sockets, SocketInfoArray, j, log, joined>>
      /\ ptr' \in {ptr, NoSender} /\ rset' \in {rset, {}}
      /\ i' \in {i, i + 1}
      /\ \/ /\ pc' = "scan" /\ rset' = rset /\ i' = i + 1
         \/ /\ pc' = "select" /\ rset' = {}
  BY DEF Skip, Scanning, ScanEnds, SendEnds
<1>2. /\ SocketsTyped(ChatBytes)' /\ DescriptorTable' /\ Records' /\ Collected'
      /\ WholeMessages' /\ Deliveries' /\ SameMessages'
      /\ nTotalSockets' = nTotalSockets /\ nTotalSockets \in Nat
      /\ \A k : Owner(k)' = Owner(k) /\ RecvWouldBlock(Owner(k))' = RecvWouldBlock(Owner(k))
      /\ \A c : Received(c)' = Received(c)
      /\ fdt' = fdt /\ taken' = taken /\ sent' = sent
  BY <1>1, ControlKeeps
<1>3. TypeOK'
  <2>1. NoSender \in [sock: Fds \cup {0}, buf: Seq(Bytes), freed: BOOLEAN]
    BY DEF NoSender
  <2>2. i' \in Nat \ {0} /\ rset' \subseteq Fds
    BY <1>1 DEF IInv, TypeOK
  <2> QED
    BY <1>1, <1>2, <2>1, <2>2 DEF IInv, TypeOK, SocketsTyped
<1>4. CaughtUp' /\ Broadcasting'
  <2>1. \A k \in 1 .. nTotalSockets : Owner(k) \in Clients
    BY RecordFacts
  <2>2. pc = "send" => j > nTotalSockets
    BY DEF Skip, Scanning, ScanEnds, SendEnds
  <2>3. \A k \in 1 .. nTotalSockets : ~ (pc = "send" /\ k >= j)
    BY <1>2, <2>2 DEF IInv, TypeOK
  <2>4. \A k \in 1 .. nTotalSockets : joined[Owner(k)] + Received(Owner(k)) = Len(log)
    BY <2>3 DEF IInv, CaughtUp
  <2> QED
    BY <1>1, <1>2, <2>1, <2>4 DEF CaughtUp, Broadcasting
<1>5. StillReadable'
  <2>1. i \in Nat
    BY DEF IInv, TypeOK
  <2>2. \A k \in 1 .. nTotalSockets :
           pc' = "scan" /\ (k > i' \/ k = i') => k > i
    BY <1>1, <1>2, <2>1
  <2> QED
    BY <1>1, <1>2, <2>2 DEF IInv, StillReadable
<1> QED
  BY <1>2, <1>3, <1>4, <1>5 DEF IInv

(* accept() and close() at once. *)
LEMMA AcceptFullStep ==
    ASSUME IInv, AcceptFull
    PROVE  IInv'
<1>1. /\ pc \in {"accept4", "accept6"} /\ pc' \in {"accept6", "scan"}
      /\ UNCHANGED <<SocketInfoArray, joined, rset, i, j, ptr, log>>
  BY DEF AcceptFull, AfterAccept
<1>2. PICK c \in Clients : /\ link[c] = "backlog" /\ link' = [link EXCEPT ![c] = "closed"]
                           /\ UNCHANGED <<peer, sent, taken, out, got, fdt>>
  BY DEF AcceptFull, AcceptAndClose, Backlog
<1>3. /\ link \in [Clients -> {"new", "backlog", "open", "closed"}]
      /\ fdt \in [Fds -> Clients \cup Listeners \cup {Free}]
      /\ SocketsTyped(ChatBytes)
  BY DEF IInv, TypeOK
<1>4. SocketsTyped(ChatBytes)'
  BY <1>2, <1>3, LinkTyped
<1>5. /\ DescriptorTable' /\ Records' /\ Collected' /\ WholeMessages'
      /\ Deliveries' /\ SameMessages'
      /\ nTotalSockets' = nTotalSockets
      /\ \A k : Owner(k)' = Owner(k)
      /\ \A d : Received(d)' = Received(d)
  BY <1>1, <1>2, <1>3, Unmoved
<1>6. TypeOK'
  BY <1>1, <1>2, <1>3, <1>4, <1>5 DEF IInv, TypeOK, SocketsTyped
<1>7. CaughtUp' /\ Broadcasting'
  BY <1>1, <1>5 DEF IInv, CaughtUp, Broadcasting
<1>8. StillReadable'
  <2>1. \A k : RecvWouldBlock(Owner(k))' = RecvWouldBlock(Owner(k))
    BY <1>2, <1>5 DEF RecvWouldBlock, Unread
  <2> QED
    BY <1>1, <1>2, <1>5, <2>1 DEF IInv, StillReadable
<1> QED
  BY <1>4, <1>5, <1>6, <1>7, <1>8 DEF IInv
-----------------------------------------------------------------------------
(* accept(): a new record, whose descriptor select() has not reported. *)

LEMMA AcceptStep ==
    ASSUME IInv, AcceptCall
    PROVE  IInv'
<1>0. PICK n \in Nat : n = nTotalSockets
  BY DEF IInv, TypeOK, nTotalSockets
<1>1. /\ pc \in {"accept4", "accept6"} /\ pc' \in {"accept6", "scan"}
      /\ UNCHANGED <<rset, i, j, ptr, log>>
  BY DEF AcceptCall, AfterAccept
<1>2. PICK c \in Clients, fd \in Fds :
         /\ link[c] = "backlog" /\ fdt[fd] = Free
         /\ link' = [link EXCEPT ![c] = "open"] /\ fdt' = [fdt EXCEPT ![fd] = c]
         /\ UNCHANGED <<peer, sent, taken, out, got>>
         /\ SocketInfoArray' =
              Append(SocketInfoArray, [sock |-> fd, buf |-> <<>>, recvbytes |-> 0])
         /\ joined' = [joined EXCEPT ![c] = Len(log)]
  BY DEF AcceptCall, Accept, AddSocketInfo, Backlog, LowestFree
<1> DEFINE e == [sock |-> fd, buf |-> <<>>, recvbytes |-> 0]
<1>3. /\ link \in [Clients -> {"new", "backlog", "open", "closed"}]
      /\ fdt \in [Fds -> Clients \cup Listeners \cup {Free}]
      /\ SocketInfoArray \in Seq(SOCKETINFO) /\ joined \in [Clients -> Nat]
      /\ log \in Seq(Seq(Bytes)) /\ Len(log) \in Nat
      /\ SocketsTyped(ChatBytes)
      /\ Free \notin Clients /\ BUFSIZE \in Nat /\ BUFSIZE > 0
  BY ListenersApart DEF IInv, TypeOK
<1>4. SocketsTyped(ChatBytes)'
  BY <1>2, <1>3, LinkTyped
<1>5. e \in SOCKETINFO
  BY DEF SOCKETINFO
<1>6. /\ SocketInfoArray' \in Seq(SOCKETINFO) /\ n \in Nat /\ nTotalSockets' = n + 1
      /\ \A k \in 1 .. n : SocketInfoArray'[k] = SocketInfoArray[k]
      /\ SocketInfoArray'[n + 1] = e
  BY <1>0, <1>2, <1>3, <1>5, AppendProperties DEF nTotalSockets
<1>7. /\ \A k \in 1 .. n : /\ SocketInfoArray[k].sock \in Fds /\ SocketInfoArray[k].sock # fd
                             /\ Owner(k) \in Clients /\ link[Owner(k)] = "open"
                             /\ Owner(k) # c /\ Owner(k)' = Owner(k)
      /\ Owner(n + 1)' = c
  <2>1. \A k \in 1 .. n : /\ SocketInfoArray[k].sock \in Fds
                          /\ Owner(k) \in Clients /\ link[Owner(k)] = "open"
    BY <1>0, RecordFacts
  <2>2. \A k \in 1 .. n : SocketInfoArray[k].sock # fd
    BY <1>2, <1>3, <2>1 DEF Owner
  <2>3. \A k \in 1 .. n : fdt'[SocketInfoArray'[k].sock] = fdt[SocketInfoArray[k].sock]
    BY <1>2, <1>3, <1>6, <2>1, <2>2
  <2>4. fdt'[SocketInfoArray'[n + 1].sock] = c
    <3>1. SocketInfoArray'[n + 1].sock = fd
      BY <1>6
    <3>2. fdt'[fd] = c
      BY <1>2, <1>3
    <3> QED
      BY <3>1, <3>2
  <2> QED
    BY <1>2, <2>1, <2>2, <2>3, <2>4 DEF Owner
<1> HIDE DEF e
<1>8. 1 .. nTotalSockets' = (1 .. n) \cup {n + 1}
  BY <1>6
<1>9. TypeOK'
  <2>1. \A k \in 1 .. nTotalSockets' : SocketInfoArray'[k].recvbytes < BUFSIZE
    <3>1. \A k \in 1 .. n : SocketInfoArray'[k].recvbytes < BUFSIZE
      BY <1>0, <1>6 DEF IInv, TypeOK
    <3>2. SocketInfoArray'[n + 1].recvbytes < BUFSIZE
      BY <1>3, <1>6 DEF e
    <3> QED
      BY <1>8, <3>1, <3>2
  <2>2. joined' \in [Clients -> Nat]
    BY <1>2, <1>3
  <2>3. /\ link' \in [Clients -> {"new", "backlog", "open", "closed"}]
        /\ peer' \in [Clients -> {"up", "fin", "rst"}]
        /\ out' \in [Clients -> Seq(ChatBytes)]
        /\ fdt' \in [Fds -> Clients \cup Listeners \cup {Free}]
    BY <1>4 DEF SocketsTyped
  <2> QED
    BY <1>1, <1>6, <2>1, <2>2, <2>3 DEF IInv, TypeOK
<1>10. DescriptorTable'
  <2>1. listenfd4 # fd /\ listenfd6 # fd
    BY <1>1, <1>2, ListenersApart DEF IInv, DescriptorTable
  <2>2. \A f \in Fds : fdt[f] # c
    BY <1>2 DEF IInv, DescriptorTable
  <2>3. \A f \in Fds : fdt'[f] = IF f = fd THEN c ELSE fdt[f]
    BY <1>2, <1>3
  <2>4. \A f \in Fds : fdt'[f] \in Clients => link'[fdt'[f]] = "open"
    BY <1>2, <1>3, <2>2, <2>3 DEF IInv, DescriptorTable
  <2>5. \A f, g \in Fds : fdt'[f] \in Clients /\ fdt'[f] = fdt'[g] => f = g
    BY <2>2, <2>3 DEF IInv, DescriptorTable
  <2> QED
    BY <1>1, <2>1, <2>3, <2>4, <2>5, ListenersApart DEF IInv, DescriptorTable
<1>11. Records'
  <2>1. ASSUME NEW k \in 1 .. nTotalSockets'
        PROVE  /\ fdt'[SocketInfoArray'[k].sock] \in Clients
               /\ SocketInfoArray'[k].recvbytes < BUFSIZE
               /\ SocketInfoArray'[k].recvbytes <= Len(SocketInfoArray'[k].buf)
    <3>1. CASE k \in 1 .. n
      BY <1>0, <1>6, <1>7, <3>1 DEF IInv, Records, Owner
    <3>2. CASE k = n + 1
      BY <1>3, <1>6, <1>7, <3>2 DEF e, Owner
    <3> QED
      BY <1>8, <3>1, <3>2
  <2>2. ASSUME NEW k \in 1 .. nTotalSockets', NEW m \in 1 .. nTotalSockets',
               SocketInfoArray'[k].sock = SocketInfoArray'[m].sock
        PROVE  k = m
    BY <1>0, <1>6, <1>7, <1>8, <2>2 DEF IInv, Records, e
  <2> QED
    BY <2>1, <2>2 DEF Records, Connected
<1>12. StillReadable'
  <2>1. \A k \in 1 .. n : RecvWouldBlock(Owner(k))' = RecvWouldBlock(Owner(k))
    BY <1>2, <1>7 DEF RecvWouldBlock, Unread
  <2>2. fd \notin rset
    BY <1>1, <1>2 DEF IInv, StillReadable
  <2>3. \A f \in rset : fdt'[f] # Free
    BY <1>1, <1>2, <1>3 DEF IInv, StillReadable, TypeOK
  <2>4. ASSUME NEW k \in 1 .. nTotalSockets', SocketInfoArray'[k].sock \in rset',
               k > i' \/ k = i'
        PROVE  ~ RecvWouldBlock(Owner(k))'
    <3>1. k \in 1 .. n
      BY <1>1, <1>6, <1>8, <2>2, <2>4 DEF e
    <3> QED
      BY <1>0, <1>1, <1>6, <2>1, <2>4, <3>1 DEF IInv, StillReadable
  <2> QED
    BY <1>1, <1>2, <2>3, <2>4 DEF IInv, StillReadable
<1>13. Collected'
  <2>1. ASSUME NEW k \in 1 .. n
        PROVE  /\ taken'[Owner(k)'] = BUFSIZE * Count(log', Owner(k)', Len(log'))
                                          + SocketInfoArray'[k].recvbytes
               /\ \A m \in 1 .. SocketInfoArray'[k].recvbytes : SocketInfoArray'[k].buf[m]
                    = <<Owner(k)', BUFSIZE * Count(log', Owner(k)', Len(log')) + m>>
    BY <1>0, <1>1, <1>2, <1>6, <1>7 DEF IInv, Collected
  <2>2. /\ taken'[c] = BUFSIZE * Count(log', c, Len(log')) + e.recvbytes
        /\ 1 .. e.recvbytes = {}
    <3>1. taken[c] = 0 /\ Count(log, c, Len(log)) = 0
      BY <1>2 DEF IInv, Collected
    <3>2. e.recvbytes = 0
      BY DEF e
    <3> QED
      BY <1>1, <1>2, <1>3, <3>1, <3>2
  <2>3. \A d \in Clients : link'[d] \in {"new", "backlog"} =>
           taken'[d] = 0 /\ out'[d] = <<>> /\ Count(log', d, Len(log')) = 0
    BY <1>1, <1>2, <1>3 DEF IInv, Collected
  <2> QED
    BY <1>6, <1>7, <1>8, <2>1, <2>2, <2>3 DEF Collected
<1>14. WholeMessages'
  BY <1>1, WholeIs DEF IInv
<1>15. /\ \A d : Received(d)' = Received(d) /\ \A q : Message(d, q)' = Message(d, q)
       /\ Received(c) = 0 /\ Len(out[c]) = 0
  <2>1. Len(out[c]) = 0
    BY <1>2 DEF IInv, Collected
  <2>2. 0 \div BUFSIZE = 0
    BY <1>3
  <2> QED
    BY <1>2, <2>1, <2>2, GivenSame DEF Received
<1>16. Deliveries' /\ SameMessages'
  <2>1. \A d \in Clients : joined'[d] = IF d = c THEN Len(log) ELSE joined[d]
    BY <1>2, <1>3
  <2>2. ASSUME NEW d \in Clients
        PROVE  /\ Len(out'[d]) = BUFSIZE * Received(d)
               /\ joined'[d] + Received(d) <= Len(log)
    <3>1. /\ Len(out[d]) = BUFSIZE * Received(d)
          /\ joined[d] + Received(d) <= Len(log)
      BY DEF IInv, Deliveries
    <3>2. d = c => joined'[d] + Received(d) <= Len(log)
      BY <1>3, <1>15, <2>1
    <3> QED
      BY <1>2, <2>1, <3>1, <3>2
  <2>3. ASSUME NEW d \in Clients, NEW q \in 1 .. Received(d)
        PROVE  Message(d, q) \in {log[joined'[d] + q], [k \in 1 .. BUFSIZE |-> Garbage]}
    BY <1>15, <2>1 DEF IInv, SameMessages
  <2> QED
    BY <1>1, <1>15, <2>2, <2>3 DEF Deliveries, SameMessages
<1>17. CaughtUp' /\ Broadcasting'
  <2>1. \A k \in 1 .. n : joined[Owner(k)] + Received(Owner(k)) = Len(log)
    BY <1>0, <1>1 DEF IInv, CaughtUp
  <2>2. \A k \in 1 .. n : joined'[Owner(k)'] + Received(Owner(k)') = Len(log)
    BY <1>2, <1>3, <1>7, <2>1
  <2>3. joined'[c] + Received(c) = Len(log)
    BY <1>2, <1>3, <1>15
  <2>4. \A k \in 1 .. nTotalSockets' : joined'[Owner(k)'] + Received(Owner(k)') = Len(log)
    BY <1>7, <1>8, <2>2, <2>3
  <2>5. \A k \in 1 .. nTotalSockets' : Received(Owner(k))' = Received(Owner(k)')
    BY <1>2 DEF Received
  <2> QED
    BY <1>1, <2>4, <2>5 DEF CaughtUp, Broadcasting
<1> QED
  BY <1>4, <1>9, <1>10, <1>11, <1>12, <1>13, <1>14, <1>16, <1>17 DEF IInv
-----------------------------------------------------------------------------
(* RemoveSocketInfo() in the data loop and in the broadcast loop: record m *)
(* is afterwards what record From(m) was.                                  *)

LEMMA Removal ==
    ASSUME IInv, NEW n \in Nat, n = nTotalSockets, NEW k \in 1 .. n, RemoveSocketInfo(k),
           log' = log, joined' = joined, pc' # "exit"
    PROVE  /\ SocketsTyped(ChatBytes)' /\ SocketInfoArray' \in Seq(SOCKETINFO)
           /\ nTotalSockets' = n - 1
           /\ \A m \in 1 .. (n - 1) : \E o \in 1 .. n :
                 /\ o = (IF m = k THEN n ELSE m)
                 /\ SocketInfoArray'[m] = SocketInfoArray[o]
                 /\ Owner(m)' = Owner(o)
                 /\ Owner(o) \in Clients
                 /\ RecvWouldBlock(Owner(m))' = RecvWouldBlock(Owner(o))
           /\ DescriptorTable' /\ Records' /\ Collected' /\ WholeMessages'
           /\ Deliveries' /\ SameMessages'
           /\ \A c : Received(c)' = Received(c)
           /\ taken' = taken /\ sent' = sent
<1> DEFINE From(m) == IF m = k THEN n ELSE m
<1> PICK fd \in Fds : fd = SocketInfoArray[k].sock
  BY RecordFacts
<1> PICK c \in Clients : c = fdt[fd]
  BY RecordFacts DEF Owner
<1>1. /\ link' = [link EXCEPT ![c] = "closed"] /\ fdt' = [fdt EXCEPT ![fd] = Free]
      /\ UNCHANGED <<peer, sent, taken, out, got>>
      /\ SocketInfoArray' = [m \in 1 .. (n - 1) |-> SocketInfoArray[From(m)]]
  BY DEF RemoveSocketInfo, Close
<1>2. /\ link \in [Clients -> {"new", "backlog", "open", "closed"}]
      /\ fdt \in [Fds -> Clients \cup Listeners \cup {Free}]
      /\ SocketInfoArray \in Seq(SOCKETINFO)
      /\ SocketsTyped(ChatBytes) /\ Len(SocketInfoArray) = n
  BY DEF IInv, TypeOK, nTotalSockets
<1>3. SocketsTyped(ChatBytes)'
  BY <1>1, <1>2, LinkTyped
<1>4. /\ SocketInfoArray' \in Seq(SOCKETINFO) /\ nTotalSockets' = n - 1
      /\ \A m \in 1 .. (n - 1) : SocketInfoArray'[m] = SocketInfoArray[From(m)]
  BY <1>1, <1>2, Compaction DEF nTotalSockets
<1>5. \A m \in 1 .. n : /\ SocketInfoArray[m].sock \in Fds /\ Owner(m) \in Clients
                        /\ link[Owner(m)] = "open" /\ pc # "exit"
  BY RecordFacts
<1>6. \A m \in 1 .. n : m # k => SocketInfoArray[m].sock # fd /\ Owner(m) # c
  BY <1>5, OwnersDiffer DEF Owner, IInv, Records
<1>7. \A m \in 1 .. (n - 1) : From(m) \in 1 .. n /\ From(m) # k
  OBVIOUS
<1>8. \A m \in 1 .. (n - 1) : /\ Owner(m)' = Owner(From(m)) /\ Owner(From(m)) \in Clients
                              /\ Owner(From(m)) # c
  BY <1>1, <1>2, <1>4, <1>5, <1>6, <1>7 DEF Owner
<1>9. \A m \in 1 .. (n - 1) : RecvWouldBlock(Owner(m))' = RecvWouldBlock(Owner(From(m)))
  BY <1>1, <1>8 DEF RecvWouldBlock, Unread
<1> HIDE DEF From
<1>10. DescriptorTable'
  <2>1. fd \notin {listenfd4, listenfd6}
    BY <1>5, ListenersApart DEF IInv, DescriptorTable
  <2>2. \A f \in Fds : fdt'[f] = IF f = fd THEN Free ELSE fdt[f]
    BY <1>1, <1>2
  <2>3. Free \notin Clients
    BY ListenersApart
  <2>4. \A f \in Fds : f # fd => fdt[f] # c
    BY DEF IInv, DescriptorTable
  <2>5. \A f \in Fds : fdt'[f] \in Clients => link'[fdt'[f]] = "open"
    BY <1>1, <1>2, <2>2, <2>3, <2>4 DEF IInv, DescriptorTable
  <2>6. \A f, g \in Fds : fdt'[f] \in Clients /\ fdt'[f] = fdt'[g] => f = g
    BY <2>2, <2>3 DEF IInv, DescriptorTable
  <2> QED
    BY <1>5, <2>1, <2>2, <2>5, <2>6, ListenersApart DEF IInv, DescriptorTable
<1>11. Records'
  <2>1. ASSUME NEW m \in 1 .. (n - 1)
        PROVE  /\ fdt'[SocketInfoArray'[m].sock] \in Clients
               /\ SocketInfoArray'[m].recvbytes < BUFSIZE
               /\ SocketInfoArray'[m].recvbytes <= Len(SocketInfoArray'[m].buf)
    <3>1. SocketInfoArray'[m] = SocketInfoArray[From(m)] /\ From(m) \in 1 .. n
      BY <1>4, <1>7
    <3>2. fdt'[SocketInfoArray'[m].sock] \in Clients
      BY <1>8 DEF Owner
    <3> QED
      BY <3>1, <3>2 DEF IInv, Records
  <2>2. ASSUME NEW a \in 1 .. (n - 1), NEW b \in 1 .. (n - 1),
               SocketInfoArray'[a].sock = SocketInfoArray'[b].sock
        PROVE  a = b
    <3>1. From(a) = From(b)
      BY <1>4, <1>7, <2>2, SMTT(120) DEF IInv, Records
    <3> QED
      BY <3>1 DEF From
  <2> QED
    BY <1>4, <2>1, <2>2 DEF Records, Connected
<1>12. Collected'
  <2>1. ASSUME NEW m \in 1 .. (n - 1)
        PROVE  /\ taken'[Owner(m)'] = BUFSIZE * Count(log', Owner(m)', Len(log'))
                                          + SocketInfoArray'[m].recvbytes
               /\ \A q \in 1 .. SocketInfoArray'[m].recvbytes : SocketInfoArray'[m].buf[q]
                    = <<Owner(m)', BUFSIZE * Count(log', Owner(m)', Len(log')) + q>>
    <3>1. PICK o \in 1 .. n : o = From(m)
      BY <1>7
    <3>2. SocketInfoArray'[m] = SocketInfoArray[o] /\ Owner(m)' = Owner(o)
      BY <1>4, <1>8, <3>1
    <3> QED
      BY <1>1, <3>2 DEF IInv, Collected
  <2>2. \A d \in Clients : link'[d] \in {"new", "backlog"} =>
           taken'[d] = 0 /\ out'[d] = <<>> /\ Count(log', d, Len(log')) = 0
    BY <1>1, <1>2 DEF IInv, Collected
  <2> QED
    BY <1>4, <2>1, <2>2 DEF Collected
<1>13. WholeMessages'
  BY WholeIs DEF IInv
<1>14. \A d : Received(d)' = Received(d) /\ \A q : Message(d, q)' = Message(d, q)
  BY <1>1, GivenSame
<1>15. Deliveries' /\ SameMessages'
  BY <1>1, <1>14 DEF IInv, Deliveries, SameMessages
<1>16. \A m \in 1 .. (n - 1) : \E o \in 1 .. n :
          /\ o = (IF m = k THEN n ELSE m)
          /\ SocketInfoArray'[m] = SocketInfoArray[o]
          /\ Owner(m)' = Owner(o)
          /\ Owner(o) \in Clients
          /\ RecvWouldBlock(Owner(m))' = RecvWouldBlock(Owner(o))
  BY <1>4, <1>7, <1>8, <1>9 DEF From
<1> QED
  BY <1>1, <1>3, <1>4, <1>10, <1>11, <1>12, <1>13, <1>14, <1>15, <1>16

(* The program ends: err_quit(), a broken accept() or SIGPIPE. *)
LEMMA ExitStep ==
    ASSUME IInv, Exit
    PROVE  IInv'
<1>1. /\ pc' = "exit" /\ SocketInfoArray' = <<>>
      /\ UNCHANGED <<rset, i, j, ptr, log, joined, peer, sent, taken, out, got>>
      /\ link' = [c \in Clients |-> IF link[c] \in {"backlog", "open"}
                                    THEN "closed" ELSE link[c]]
      /\ fdt' = [fd \in Fds |-> Free]
  BY DEF Exit, CloseAll
<1>2. /\ link \in [Clients -> {"new", "backlog", "open", "closed"}]
      /\ SocketsTyped(ChatBytes) /\ Free \notin Clients
  BY ListenersApart DEF IInv, TypeOK
<1>3. SocketsTyped(ChatBytes)'
  BY <1>1, <1>2, LinkTyped
<1>4. nTotalSockets' = 0 /\ 1 .. nTotalSockets' = {} /\ SocketInfoArray' \in Seq(SOCKETINFO)
  BY <1>1 DEF nTotalSockets
<1>5. TypeOK'
  BY <1>1, <1>3, <1>4 DEF IInv, TypeOK, SocketsTyped
<1>6. DescriptorTable' /\ Records' /\ CaughtUp' /\ Broadcasting'
  BY <1>1, <1>2, <1>4 DEF DescriptorTable, Records, CaughtUp, Broadcasting
<1>7. StillReadable'
  BY <1>1, <1>4 DEF IInv, StillReadable
<1>8. Collected'
  <2>1. \A d \in Clients : link'[d] \in {"new", "backlog"} => link[d] = link'[d]
    BY <1>1, <1>2
  <2>2. \A d \in Clients : link'[d] \in {"new", "backlog"} =>
           taken'[d] = 0 /\ out'[d] = <<>> /\ Count(log', d, Len(log')) = 0
    BY <1>1, <2>1 DEF IInv, Collected
  <2> QED
    BY <1>4, <2>2 DEF Collected
<1>9. WholeMessages'
  BY <1>1, WholeIs DEF IInv
<1>10. \A d : Received(d)' = Received(d) /\ \A q : Message(d, q)' = Message(d, q)
  BY <1>1, GivenSame
<1>11. Deliveries' /\ SameMessages'
  BY <1>1, <1>10 DEF IInv, Deliveries, SameMessages
<1> QED
  BY <1>3, <1>5, <1>6, <1>7, <1>8, <1>9, <1>11 DEF IInv
-----------------------------------------------------------------------------
(* recv() in the data loop. *)

(* The bytes received follow the ones the record holds. *)
LEMMA Gathered ==
    ASSUME NEW c \in Clients, NEW s \in Seq(Bytes), NEW r \in Nat, r <= Len(s),
           NEW a \in Nat, NEW b \in Nat, \A m \in 1 .. r : s[m] = <<c, a + m>>
    PROVE  SubSeq(s, 1, r) \o Chunk(c, a + r, b) = Chunk(c, a, r + b)
<1> DEFINE u == SubSeq(s, 1, r)
           t == Chunk(c, a + r, b)
           w == Chunk(c, a, r + b)
<1>1. u \in Seq(Bytes) /\ Len(u) = r /\ \A m \in 1 .. r : u[m] = <<c, a + m>>
  <2>1. u = SubSeq(s, 0 + 1, 0 + r)
    OBVIOUS
  <2>2. 0 \in Nat /\ 0 + r <= Len(s)
    OBVIOUS
  <2> DEFINE v == SubSeq(s, 0 + 1, 0 + r)
  <2>3. v \in Seq(Bytes) /\ Len(v) = r /\ \A m \in 1 .. r : v[m] = s[0 + m]
    BY ONLY <2>2, s \in Seq(Bytes), r \in Nat, Slice, ZenonT(60)
  <2> HIDE DEF v
  <2>4. u = v
    BY <2>1 DEF v
  <2> HIDE DEF u
  <2>5. \A m \in 1 .. r : u[m] = s[0 + m] /\ 0 + m = m
    BY ONLY <2>3, <2>4
  <2> QED
    BY <2>3, <2>4, <2>5
<1>2. t \in Seq(Bytes) /\ Len(t) = b /\ \A m \in 1 .. b : t[m] = <<c, (a + r) + m>>
  <2>1. a + r \in Nat
    OBVIOUS
  <2> QED
    BY ONLY <2>1, ChunkType, c \in Clients, b \in Nat, ZenonT(60) DEF t
<1>3. w \in Seq(Bytes) /\ Len(w) = r + b /\ \A m \in 1 .. (r + b) : w[m] = <<c, a + m>>
  <2>1. r + b \in Nat
    OBVIOUS
  <2> QED
    BY ONLY <2>1, ChunkType, c \in Clients, a \in Nat, ZenonT(60) DEF w
<1> DEFINE v == u \o t
<1> HIDE DEF u, t, w
<1>4. /\ v \in Seq(Bytes) /\ Len(v) = r + b
      /\ \A m \in 1 .. (r + b) : v[m] = IF m <= r THEN u[m] ELSE t[m - r]
  BY <1>1, <1>2, Joining, ZenonT(60)
<1> HIDE DEF v
<1>5. ASSUME NEW m \in 1 .. (r + b) PROVE v[m] = w[m]
  <2>1. ASSUME m <= r PROVE v[m] = w[m]
    <3>1. m \in 1 .. r
      BY <2>1
    <3>2. v[m] = u[m]
      BY <1>4, <2>1
    <3>3. u[m] = <<c, a + m>>
      BY <1>1, <3>1
    <3> QED
      BY <1>3, <3>2, <3>3
  <2>2. ASSUME m > r PROVE v[m] = w[m]
    <3>1. v[m] = t[m - r] /\ m - r \in 1 .. b
      BY <1>4, <2>2
    <3>2. t[m - r] = <<c, (a + r) + (m - r)>>
      BY <1>2, <3>1
    <3>3. (a + r) + (m - r) = a + m
      OBVIOUS
    <3> QED
      BY <1>3, <3>1, <3>2, <3>3
  <2>3. m \in Int /\ r \in Int
    OBVIOUS
  <2> QED
    BY <2>1, <2>2, <2>3
<1>6. v = w
  BY <1>3, <1>4, <1>5, SeqEqual
<1> QED
  BY <1>6 DEF u, t, w, v

(* What a recv() of b bytes does, whether or not they complete a message. *)
LEMMA RecvTakes ==
    ASSUME IInv, NEW k \in 1 .. nTotalSockets, NEW b \in Nat, b > 0,
           NEW c \in Clients, c = Owner(k),
           SocketInfoArray[k].recvbytes + b <= BUFSIZE, b <= Unread(c), Take(c, b),
           NEW e \in SOCKETINFO, e.sock = SocketInfoArray[k].sock,
           e.recvbytes < BUFSIZE, e.recvbytes <= Len(e.buf),
           SocketInfoArray' = [SocketInfoArray EXCEPT ![k] = e],
           pc' # "exit", joined' = joined
    PROVE  /\ SocketsTyped(ChatBytes)' /\ DescriptorTable' /\ Records'
           /\ nTotalSockets' = nTotalSockets /\ nTotalSockets \in Nat
           /\ SocketInfoArray' \in Seq(SOCKETINFO) /\ SocketInfoArray'[k] = e
           /\ \A m \in 1 .. nTotalSockets : m # k =>
                 /\ SocketInfoArray'[m] = SocketInfoArray[m]
                 /\ Owner(m) # c
                 /\ RecvWouldBlock(Owner(m))' = RecvWouldBlock(Owner(m))
           /\ \A m \in 1 .. nTotalSockets :
                 /\ SocketInfoArray'[m].sock = SocketInfoArray[m].sock
                 /\ Owner(m) \in Clients /\ Owner(m)' = Owner(m)
           /\ taken' = [taken EXCEPT ![c] = @ + b] /\ UNCHANGED <<sent, link, out, fdt>>
           /\ \A d : Received(d)' = Received(d) /\ \A q : Message(d, q)' = Message(d, q)
           /\ \A d \in Clients : taken'[d] <= sent'[d]
<1>1. taken' = [taken EXCEPT ![c] = @ + b] /\ UNCHANGED <<link, peer, sent, out, got, fdt>>
  BY DEF Take
<1>2. SocketInfoArray \in Seq(SOCKETINFO) /\ nTotalSockets \in Nat
  BY DEF IInv, TypeOK, nTotalSockets
<1>3. SocketsTyped(ChatBytes)'
  BY <1>1, TakeTyped DEF IInv
<1>4. /\ SocketInfoArray' \in Seq(SOCKETINFO) /\ nTotalSockets' = nTotalSockets
      /\ \A m \in 1 .. nTotalSockets :
            SocketInfoArray'[m] = IF m = k THEN e ELSE SocketInfoArray[m]
  BY <1>2, Replacement DEF nTotalSockets
<1>5. \A m \in 1 .. nTotalSockets :
         /\ SocketInfoArray'[m].sock = SocketInfoArray[m].sock
         /\ Owner(m) \in Clients /\ Owner(m)' = Owner(m)
  <2>1. \A m \in 1 .. nTotalSockets : Owner(m) \in Clients
    BY RecordFacts
  <2>2. \A m \in 1 .. nTotalSockets : SocketInfoArray'[m].sock = SocketInfoArray[m].sock
    BY <1>4
  <2> QED
    BY <1>1, <2>1, <2>2 DEF Owner
<1>6. \A m \in 1 .. nTotalSockets : m # k => Owner(m) # c
  BY OwnersDiffer
<1>7. taken \in [Clients -> Nat] /\ sent \in [Clients -> Nat]
  BY DEF IInv, SocketsTyped
<1>8. \A m \in 1 .. nTotalSockets : m # k =>
         RecvWouldBlock(Owner(m))' = RecvWouldBlock(Owner(m))
  <2>1. \A m \in 1 .. nTotalSockets : m # k => taken'[Owner(m)] = taken[Owner(m)]
    BY <1>1, <1>5, <1>6, <1>7
  <2> QED
    BY <1>1, <1>5, <2>1 DEF RecvWouldBlock, Unread
<1>9. DescriptorTable'
  <2>1. SocketInfoArray # <<>> /\ pc # "exit"
    BY RecordFacts DEF nTotalSockets
  <2> QED
    BY <1>1, <2>1 DEF IInv, DescriptorTable
<1>10. Records'
  BY <1>1, <1>4, <1>5 DEF IInv, Records, Connected
<1>11. \A d : Received(d)' = Received(d) /\ \A q : Message(d, q)' = Message(d, q)
  BY <1>1, GivenSame
<1>12. \A d \in Clients : taken'[d] <= sent'[d]
  BY <1>1, <1>7 DEF IInv, StillReadable, Unread
<1> QED
  BY <1>1, <1>2, <1>3, <1>4, <1>5, <1>6, <1>8, <1>9, <1>10, <1>11, <1>12
(* A message that is not complete yet: the data loop goes on. *)
LEMMA RecvPart ==
    ASSUME IInv, NEW k \in 1 .. nTotalSockets, Scanning(k), NEW c \in Clients, c = Owner(k),
           NEW b \in Nat, b > 0, SocketInfoArray[k].recvbytes + b < BUFSIZE,
           b <= Unread(c), Take(c, b),
           SocketInfoArray' =
              [SocketInfoArray EXCEPT ![k].buf = Assembled(SocketInfoArray[k], c, b),
                                      ![k].recvbytes = @ + b],
           i' = i + 1, UNCHANGED <<pc, rset, j, ptr, log, joined>>
    PROVE  IInv'
<1> PICK info \in SOCKETINFO : info = SocketInfoArray[k]
  BY RecordFacts
<1> PICK before \in Nat : before = BUFSIZE * Count(log, c, Len(log))
  <2>1. Len(log) \in Nat /\ BUFSIZE \in Nat
    BY ListenersApart DEF IInv, TypeOK
  <2>2. Count(log, c, Len(log)) \in Nat
    BY <2>1, CountFinite
  <2> QED
    BY <2>1, <2>2
<1> DEFINE new == Chunk(c, before, info.recvbytes + b)
           e == [sock |-> info.sock, buf |-> new, recvbytes |-> info.recvbytes + b]
<1>1. /\ info.sock \in Fds /\ info.buf \in Seq(Bytes) /\ info.recvbytes \in Nat
      /\ info.recvbytes <= Len(info.buf) /\ pc = "scan" /\ i = k /\ BUFSIZE \in Nat
  BY RecordFacts, ListenersApart DEF SOCKETINFO, Scanning
<1>2. /\ taken[c] = before + info.recvbytes
      /\ \A m \in 1 .. info.recvbytes : info.buf[m] = <<c, before + m>>
  BY DEF IInv, Collected
<1>3. Assembled(info, c, b) = new
  <2>1. /\ info.buf \in Seq(Bytes) /\ info.recvbytes \in Nat
        /\ info.recvbytes <= Len(info.buf)
        /\ \A m \in 1 .. info.recvbytes : info.buf[m] = <<c, before + m>>
    BY <1>1, <1>2
  <2>2. SubSeq(info.buf, 1, info.recvbytes) \o Chunk(c, before + info.recvbytes, b) = new
    BY ONLY <2>1, Gathered, c \in Clients, before \in Nat, b \in Nat, ZenonT(60)
  <2> QED
    BY ONLY <1>2, <2>2 DEF Assembled
<1>4. SocketInfoArray' = [SocketInfoArray EXCEPT ![k] = e]
  <2>1. SocketInfoArray \in Seq(SOCKETINFO)
    BY DEF IInv, TypeOK
  <2> QED
    BY <1>3, <2>1 DEF SOCKETINFO, nTotalSockets
<1>5. /\ new \in Seq(Bytes) /\ Len(new) = info.recvbytes + b
      /\ \A m \in 1 .. (info.recvbytes + b) : new[m] = <<c, before + m>>
  <2>1. info.recvbytes + b \in Nat
    BY <1>1
  <2> QED
    BY ONLY <2>1, ChunkType, c \in Clients, before \in Nat, ZenonT(60) DEF new
<1> HIDE DEF new
<1>6. /\ e \in SOCKETINFO /\ e.sock = info.sock /\ e.recvbytes < BUFSIZE
      /\ e.recvbytes <= Len(e.buf)
  BY <1>1, <1>5 DEF SOCKETINFO
<1>7. e.recvbytes = info.recvbytes + b /\ e.buf = new
  OBVIOUS
<1> HIDE DEF e
<1>8. /\ SocketsTyped(ChatBytes)' /\ DescriptorTable' /\ Records'
      /\ nTotalSockets' = nTotalSockets /\ nTotalSockets \in Nat
      /\ SocketInfoArray' \in Seq(SOCKETINFO) /\ SocketInfoArray'[k] = e
      /\ \A m \in 1 .. nTotalSockets : m # k =>
            /\ SocketInfoArray'[m] = SocketInfoArray[m]
            /\ Owner(m) # c
            /\ RecvWouldBlock(Owner(m))' = RecvWouldBlock(Owner(m))
      /\ \A m \in 1 .. nTotalSockets :
            /\ SocketInfoArray'[m].sock = SocketInfoArray[m].sock
            /\ Owner(m) \in Clients /\ Owner(m)' = Owner(m)
      /\ taken' = [taken EXCEPT ![c] = @ + b] /\ UNCHANGED <<sent, link, out, fdt>>
      /\ \A d : Received(d)' = Received(d) /\ \A q : Message(d, q)' = Message(d, q)
      /\ \A d \in Clients : taken'[d] <= sent'[d]
  <2>1. /\ IInv /\ pc' # "exit" /\ joined' = joined
        /\ c = Owner(k) /\ b > 0 /\ b <= Unread(c) /\ Take(c, b)
        /\ SocketInfoArray[k].recvbytes + b <= BUFSIZE
        /\ e.sock = SocketInfoArray[k].sock
    BY <1>1, <1>6
  <2> QED
    BY ONLY ZenonT(90), <1>4, <1>6, <2>1, RecvTakes, c \in Clients, b \in Nat, k \in 1 .. nTotalSockets
<1>9. TypeOK'
  <2>1. \A m \in 1 .. nTotalSockets' : SocketInfoArray'[m].recvbytes < BUFSIZE
    BY <1>8 DEF Records
  <2>2. i' \in Nat \ {0}
    BY DEF IInv, TypeOK
  <2>3. /\ link' \in [Clients -> {"new", "backlog", "open", "closed"}]
        /\ peer' \in [Clients -> {"up", "fin", "rst"}]
        /\ out' \in [Clients -> Seq(ChatBytes)]
        /\ fdt' \in [Fds -> Clients \cup Listeners \cup {Free}]
    BY <1>8 DEF SocketsTyped
  <2> QED
    BY <1>8, <2>1, <2>2, <2>3 DEF IInv, TypeOK
<1>10. StillReadable'
  <2>1. \A m \in 1 .. nTotalSockets : m > i' \/ m = i' => m # k /\ m > i
    BY <1>1, <1>8
  <2>2. ASSUME NEW m \in 1 .. nTotalSockets, SocketInfoArray'[m].sock \in rset',
               m > i' \/ m = i'
        PROVE  ~ RecvWouldBlock(Owner(m))'
    <3>1. m # k /\ m > i /\ SocketInfoArray[m].sock \in rset
      BY <1>8, <2>1, <2>2
    <3>2. ~ RecvWouldBlock(Owner(m))
      BY <3>1 DEF IInv, StillReadable
    <3> QED
      BY <1>8, <3>1, <3>2
  <2> QED
    BY <1>1, <1>8, <2>2 DEF StillReadable
<1>11. Collected'
  <2>1. taken \in [Clients -> Nat]
    BY DEF IInv, SocketsTyped
  <2>2. \A d \in Clients : taken'[d] = IF d = c THEN before + (info.recvbytes + b) ELSE taken[d]
    BY <1>1, <1>2, <1>8, <2>1
  <2>3. ASSUME NEW m \in 1 .. nTotalSockets
        PROVE  /\ taken'[Owner(m)'] = BUFSIZE * Count(log', Owner(m)', Len(log'))
                                          + SocketInfoArray'[m].recvbytes
               /\ \A q \in 1 .. SocketInfoArray'[m].recvbytes : SocketInfoArray'[m].buf[q]
                    = <<Owner(m)', BUFSIZE * Count(log', Owner(m)', Len(log')) + q>>
    <3>1. CASE m = k
      BY <1>5, <1>7, <1>8, <2>2, <3>1
    <3>2. CASE m # k
      <4>1. /\ SocketInfoArray'[m] = SocketInfoArray[m] /\ Owner(m) # c
            /\ Owner(m)' = Owner(m) /\ Owner(m) \in Clients /\ taken'[Owner(m)] = taken[Owner(m)]
        BY <1>8, <2>2, <3>2
      <4>2. /\ taken[Owner(m)] = BUFSIZE * Count(log, Owner(m), Len(log))
                                     + SocketInfoArray[m].recvbytes
            /\ \A q \in 1 .. SocketInfoArray[m].recvbytes : SocketInfoArray[m].buf[q]
                  = <<Owner(m), BUFSIZE * Count(log, Owner(m), Len(log)) + q>>
        BY DEF IInv, Collected
      <4> QED
        BY <4>1, <4>2
    <3> QED
      BY <3>1, <3>2
  <2>4. \A d \in Clients : link'[d] \in {"new", "backlog"} =>
           taken'[d] = 0 /\ out'[d] = <<>> /\ Count(log', d, Len(log')) = 0
    <3>1. link[c] = "open"
      BY RecordFacts
    <3> QED
      BY <1>8, <2>2, <3>1 DEF IInv, Collected
  <2> QED
    BY <1>8, <2>3, <2>4 DEF Collected
<1>12. WholeMessages'
  BY WholeIs DEF IInv
<1>13. Deliveries' /\ SameMessages'
  BY <1>8 DEF IInv, Deliveries, SameMessages
<1>14. CaughtUp' /\ Broadcasting'
  BY <1>1, <1>8 DEF IInv, CaughtUp, Broadcasting
<1> QED
  BY <1>8, <1>9, <1>10, <1>11, <1>12, <1>13, <1>14 DEF IInv
(* A message is complete: it is the next one of its sender, it goes to the *)
(* end of the log and the broadcast begins.                                *)
LEMMA RecvWhole ==
    ASSUME IInv, NEW k \in 1 .. nTotalSockets, Scanning(k), NEW c \in Clients, c = Owner(k),
           NEW b \in Nat, b > 0, SocketInfoArray[k].recvbytes + b = BUFSIZE,
           b <= Unread(c), Take(c, b),
           NEW buf, buf = Assembled(SocketInfoArray[k], c, b),
           SocketInfoArray' =
              [SocketInfoArray EXCEPT ![k].buf = buf, ![k].recvbytes = 0],
           pc' = "send", j' = 1, i' = i, log' = Append(log, buf),
           ptr' = [sock |-> SocketInfoArray[k].sock, buf |-> buf, freed |-> FALSE],
           UNCHANGED <<rset, joined>>
    PROVE  IInv'
<1> PICK info \in SOCKETINFO : info = SocketInfoArray[k]
  BY RecordFacts
<1>0. Len(log) \in Nat /\ BUFSIZE \in Nat /\ BUFSIZE > 0 /\ log \in Seq(Seq(Bytes))
  BY ListenersApart DEF IInv, TypeOK
<1> PICK q0 \in Nat : q0 = Count(log, c, Len(log))
  BY <1>0, CountFinite
<1> PICK before \in Nat : before = BUFSIZE * q0
  BY <1>0
<1> DEFINE e == [sock |-> info.sock, buf |-> buf, recvbytes |-> 0]
<1>1. /\ info.sock \in Fds /\ info.buf \in Seq(Bytes) /\ info.recvbytes \in Nat
      /\ info.recvbytes <= Len(info.buf) /\ pc = "scan" /\ i = k
      /\ info.recvbytes + b = BUFSIZE
  BY RecordFacts DEF SOCKETINFO, Scanning
<1>2. /\ taken[c] = before + info.recvbytes
      /\ \A m \in 1 .. info.recvbytes : info.buf[m] = <<c, before + m>>
  BY DEF IInv, Collected
<1>3. buf = Chunk(c, before, BUFSIZE)
  <2>1. /\ info.buf \in Seq(Bytes) /\ info.recvbytes \in Nat
        /\ info.recvbytes <= Len(info.buf)
        /\ \A m \in 1 .. info.recvbytes : info.buf[m] = <<c, before + m>>
    BY <1>1, <1>2
  <2>2. SubSeq(info.buf, 1, info.recvbytes) \o Chunk(c, before + info.recvbytes, b)
          = Chunk(c, before, info.recvbytes + b)
    BY ONLY <2>1, Gathered, c \in Clients, before \in Nat, b \in Nat, ZenonT(60)
  <2>3. buf = SubSeq(info.buf, 1, info.recvbytes) \o Chunk(c, taken[c], b)
    BY DEF Assembled
  <2> QED
    BY ONLY <1>1, <1>2, <2>2, <2>3
<1>4. SocketInfoArray' = [SocketInfoArray EXCEPT ![k] = e]
  <2> DEFINE x == [info EXCEPT !.buf = buf]
             y == [sock |-> info.sock, buf |-> buf, recvbytes |-> info.recvbytes]
             t == [SocketInfoArray EXCEPT ![k] = x]
  <2>1. x = y
    BY ONLY info \in SOCKETINFO DEF SOCKETINFO
  <2>2. [y EXCEPT !.recvbytes = 0] = e
    OBVIOUS
  <2>3. SocketInfoArray' = [t EXCEPT ![k].recvbytes = 0]
    OBVIOUS
  <2> HIDE DEF x, y, e
  <2>4. SocketInfoArray \in Seq(SOCKETINFO) /\ k \in 1 .. Len(SocketInfoArray)
    BY DEF IInv, TypeOK, nTotalSockets
  <2>5. t[k] = y
    BY <2>1, <2>4
  <2>6. [t EXCEPT ![k].recvbytes = 0] = [t EXCEPT ![k] = e]
    BY <2>2, <2>5
  <2>7. [t EXCEPT ![k] = e] = [SocketInfoArray EXCEPT ![k] = e]
    BY <2>4
  <2> QED
    BY <2>3, <2>6, <2>7
<1>5. /\ buf \in Seq(Bytes) /\ Len(buf) = BUFSIZE
      /\ \A m \in 1 .. BUFSIZE : buf[m] = <<c, before + m>>
  BY ONLY <1>0, <1>3, ChunkType, c \in Clients, before \in Nat, ZenonT(60)
<1>6. /\ e \in SOCKETINFO /\ e.sock = info.sock /\ e.recvbytes < BUFSIZE
      /\ e.recvbytes <= Len(e.buf)
  BY <1>0, <1>1, <1>5 DEF SOCKETINFO
<1>7. e.recvbytes = 0 /\ e.buf = buf
  OBVIOUS
<1> HIDE DEF e
<1>8. /\ SocketsTyped(ChatBytes)' /\ DescriptorTable' /\ Records'
      /\ nTotalSockets' = nTotalSockets /\ nTotalSockets \in Nat
      /\ SocketInfoArray' \in Seq(SOCKETINFO) /\ SocketInfoArray'[k] = e
      /\ \A m \in 1 .. nTotalSockets : m # k =>
            /\ SocketInfoArray'[m] = SocketInfoArray[m]
            /\ Owner(m) # c
            /\ RecvWouldBlock(Owner(m))' = RecvWouldBlock(Owner(m))
      /\ \A m \in 1 .. nTotalSockets :
            /\ SocketInfoArray'[m].sock = SocketInfoArray[m].sock
            /\ Owner(m) \in Clients /\ Owner(m)' = Owner(m)
      /\ taken' = [taken EXCEPT ![c] = @ + b] /\ UNCHANGED <<sent, link, out, fdt>>
      /\ \A d : Received(d)' = Received(d) /\ \A q : Message(d, q)' = Message(d, q)
      /\ \A d \in Clients : taken'[d] <= sent'[d]
  <2>1. /\ IInv /\ pc' # "exit" /\ joined' = joined
        /\ c = Owner(k) /\ b > 0 /\ b <= Unread(c) /\ Take(c, b)
        /\ SocketInfoArray[k].recvbytes + b <= BUFSIZE
        /\ e.sock = SocketInfoArray[k].sock
    BY <1>0, <1>1, <1>6
  <2> QED
    BY ONLY ZenonT(90), <1>4, <1>6, <2>1, RecvTakes, c \in Clients, b \in Nat, k \in 1 .. nTotalSockets
<1>9. /\ log' \in Seq(Seq(Bytes)) /\ Len(log') = Len(log) + 1 /\ log'[Len(log) + 1] = buf
      /\ \A x \in 1 .. Len(log) : log'[x] = log[x]
  BY <1>0, <1>5, AppendProperties
<1>10. ASSUME NEW d
       PROVE  /\ \A m \in 0 .. Len(log) : Count(log', d, m) = Count(log, d, m)
              /\ Count(log, d, Len(log)) \in Nat
              /\ Count(log', d, Len(log')) =
                    Count(log, d, Len(log)) + (IF buf[1][1] = d THEN 1 ELSE 0)
  <2>1. ASSUME NEW m \in 0 .. Len(log) PROVE Count(log', d, m) = Count(log, d, m)
    <3>1. m \in Nat /\ \A x \in 1 .. m : log'[x] = log[x]
      BY <1>0, <1>9
    <3> QED
      BY ONLY <3>1, CountSame
  <2>2. Count(log', d, Len(log) + 1) =
           Count(log', d, Len(log)) + (IF log'[Len(log) + 1][1][1] = d THEN 1 ELSE 0)
    BY ONLY <1>0, CountNext
  <2>3. Count(log, d, Len(log)) \in Nat
    BY ONLY <1>0, CountFinite
  <2>4. Count(log', d, Len(log)) = Count(log, d, Len(log))
    <3>1. Len(log) \in 0 .. Len(log)
      BY <1>0
    <3> QED
      BY ONLY <2>1, <3>1
  <2> QED
    BY <1>9, <2>1, <2>2, <2>3, <2>4
<1>11. buf[1][1] = c
  <2>1. 1 \in 1 .. BUFSIZE
    BY <1>0
  <2>2. buf[1] = <<c, before + 1>>
    BY <1>5, <2>1
  <2> QED
    BY <2>2
<1>12. TypeOK'
  <2>1. \A m \in 1 .. nTotalSockets' : SocketInfoArray'[m].recvbytes < BUFSIZE
    BY <1>8 DEF Records
  <2>2. i' \in Nat \ {0} /\ j' \in Nat \ {0}
    BY DEF IInv, TypeOK
  <2>3. /\ link' \in [Clients -> {"new", "backlog", "open", "closed"}]
        /\ peer' \in [Clients -> {"up", "fin", "rst"}]
        /\ out' \in [Clients -> Seq(ChatBytes)]
        /\ fdt' \in [Fds -> Clients \cup Listeners \cup {Free}]
    BY <1>8 DEF SocketsTyped
  <2>4. ptr' \in [sock: Fds \cup {0}, buf: Seq(Bytes), freed: BOOLEAN]
    BY <1>1, <1>5
  <2> QED
    BY <1>8, <1>9, <2>1, <2>2, <2>3, <2>4 DEF IInv, TypeOK
<1>13. StillReadable'
  <2>2. ASSUME NEW m \in 1 .. nTotalSockets, SocketInfoArray'[m].sock \in rset', m > i'
        PROVE  ~ RecvWouldBlock(Owner(m))'
    <3>1. m # k /\ m > i /\ SocketInfoArray[m].sock \in rset
      BY <1>1, <1>8, <2>2
    <3>2. ~ RecvWouldBlock(Owner(m))
      BY <3>1 DEF IInv, StillReadable
    <3> QED
      BY <1>8, <3>1, <3>2
  <2> QED
    BY <1>8, <2>2 DEF StillReadable
<1>14. Collected'
  <2>1. taken \in [Clients -> Nat]
    BY DEF IInv, SocketsTyped
  <2>2. \A d \in Clients : taken'[d] = IF d = c THEN before + BUFSIZE ELSE taken[d]
    BY <1>1, <1>2, <1>8, <2>1
  <2>3. /\ Count(log', c, Len(log')) = q0 + 1
        /\ \A d : d # c => Count(log', d, Len(log')) = Count(log, d, Len(log))
    BY <1>10, <1>11
  <2>4. BUFSIZE * (q0 + 1) = before + BUFSIZE
    BY ONLY <1>0, WholeNumber, q0 \in Nat, before = BUFSIZE * q0
  <2>5. ASSUME NEW m \in 1 .. nTotalSockets
        PROVE  /\ taken'[Owner(m)'] = BUFSIZE * Count(log', Owner(m)', Len(log'))
                                          + SocketInfoArray'[m].recvbytes
               /\ \A q \in 1 .. SocketInfoArray'[m].recvbytes : SocketInfoArray'[m].buf[q]
                    = <<Owner(m)', BUFSIZE * Count(log', Owner(m)', Len(log')) + q>>
    <3>1. CASE m = k
      <4>1. SocketInfoArray'[m].recvbytes = 0 /\ Owner(m)' = c
        BY <1>7, <1>8, <3>1
      <4>2. taken'[c] = BUFSIZE * Count(log', c, Len(log')) + 0
        BY <1>0, <2>2, <2>3, <2>4
      <4>3. 1 .. 0 = {}
        OBVIOUS
      <4>4. \A q \in 1 .. SocketInfoArray'[m].recvbytes : FALSE
        BY <4>1, <4>3
      <4>5. taken'[Owner(m)'] = BUFSIZE * Count(log', Owner(m)', Len(log'))
                                   + SocketInfoArray'[m].recvbytes
        BY ONLY <4>1, <4>2
      <4> QED
        BY ONLY <4>4, <4>5
    <3>2. CASE m # k
      <4>1. /\ SocketInfoArray'[m] = SocketInfoArray[m] /\ Owner(m) # c
            /\ Owner(m)' = Owner(m) /\ Owner(m) \in Clients /\ taken'[Owner(m)] = taken[Owner(m)]
        BY <1>8, <2>2, <3>2
      <4>2. /\ taken[Owner(m)] = BUFSIZE * Count(log, Owner(m), Len(log))
                                     + SocketInfoArray[m].recvbytes
            /\ \A q \in 1 .. SocketInfoArray[m].recvbytes : SocketInfoArray[m].buf[q]
                  = <<Owner(m), BUFSIZE * Count(log, Owner(m), Len(log)) + q>>
        BY DEF IInv, Collected
      <4>3. Count(log', Owner(m), Len(log')) = Count(log, Owner(m), Len(log))
        BY <2>3, <4>1
      <4> QED
        BY <4>1, <4>2, <4>3
    <3> QED
      BY <3>1, <3>2
  <2>6. \A d \in Clients : link'[d] \in {"new", "backlog"} =>
           taken'[d] = 0 /\ out'[d] = <<>> /\ Count(log', d, Len(log')) = 0
    <3>1. link[c] = "open"
      BY RecordFacts
    <3> QED
      BY <1>8, <2>2, <2>3, <3>1 DEF IInv, Collected
  <2> QED
    BY <1>8, <2>5, <2>6 DEF Collected
<1>15. WholeMessages'
  <2>1. \A m \in 1 .. Len(log') : \E d \in Clients :
           log'[m] = Chunk(d, BUFSIZE * Count(log', d, m - 1), BUFSIZE)
    <3> SUFFICES ASSUME NEW m \in 1 .. Len(log')
                 PROVE  \E d \in Clients :
                           log'[m] = Chunk(d, BUFSIZE * Count(log', d, m - 1), BUFSIZE)
      OBVIOUS
    <3>1. CASE m \in 1 .. Len(log)
      <4>1. PICK d \in Clients : log[m] = Chunk(d, BUFSIZE * Count(log, d, m - 1), BUFSIZE)
        BY <3>1, WholeIs DEF IInv
      <4>2. m - 1 \in 0 .. Len(log)
        BY <1>0, <3>1
      <4>3. Count(log', d, m - 1) = Count(log, d, m - 1)
        BY <1>10, <4>2
      <4> QED
        BY <1>9, <3>1, <4>1, <4>3
    <3>2. CASE m = Len(log) + 1
      <4>1. m - 1 = Len(log) /\ Len(log) \in 0 .. Len(log)
        BY <1>0, <3>2
      <4>2. Count(log', c, m - 1) = q0
        BY <1>10, <4>1
      <4> QED
        BY <1>3, <1>9, <3>2, <4>2
    <3> QED
      BY <1>0, <1>9, <3>1, <3>2
  <2> QED
    BY <2>1, WholeIs
<1>16. Deliveries'
  <2>1. ASSUME NEW d \in Clients
        PROVE  joined[d] + Received(d) <= Len(log) + 1
    <3>1. joined[d] \in Nat /\ Len(out[d]) \in Nat
      BY DEF IInv, TypeOK
    <3>2. Received(d) \in Int
      BY <1>0, <3>1 DEF Received
    <3>3. joined[d] + Received(d) <= Len(log)
      BY DEF IInv, Deliveries
    <3> QED
      BY <1>0, <3>1, <3>2, <3>3
  <2> QED
    BY <1>8, <1>9, <2>1 DEF IInv, Deliveries
<1>17. SameMessages'
  <2>1. ASSUME NEW d \in Clients, NEW q \in 1 .. Received(d)
        PROVE  Message(d, q) \in {log'[joined[d] + q], [m \in 1 .. BUFSIZE |-> Garbage]}
    <3>1. joined[d] \in Nat /\ Len(out[d]) \in Nat
      BY DEF IInv, TypeOK
    <3>2. Received(d) \in Int
      BY <1>0, <3>1 DEF Received
    <3>3. joined[d] + Received(d) <= Len(log)
      BY DEF IInv, Deliveries
    <3>4. joined[d] + q \in 1 .. Len(log)
      <4>1. PICK r \in Int : r = Received(d)
        BY <3>2
      <4>2. q \in 1 .. r /\ joined[d] + r <= Len(log)
        BY <3>3, <4>1
      <4> QED
        BY ONLY <1>0, <3>1, <4>2, r \in Int
    <3>5. log'[joined[d] + q] = log[joined[d] + q]
      BY <1>9, <3>4
    <3> QED
      BY <3>5 DEF IInv, SameMessages
  <2> QED
    BY <1>8, <2>1 DEF SameMessages
<1>18. CaughtUp'
  <2>1. \A m \in 1 .. nTotalSockets : joined[Owner(m)] + Received(Owner(m)) = Len(log)
    BY <1>1 DEF IInv, CaughtUp
  <2>2. \A m \in 1 .. nTotalSockets : m >= 1 /\ Len(log') - 1 = Len(log)
    BY <1>0, <1>9
  <2>3. \A m \in 1 .. nTotalSockets : Received(Owner(m))' = Received(Owner(m))
    BY <1>8 DEF Received
  <2> QED
    BY <1>8, <2>1, <2>2, <2>3 DEF CaughtUp
<1>19. Broadcasting'
  BY <1>0, <1>9 DEF Broadcasting
<1> QED
  BY <1>8, <1>12, <1>13, <1>14, <1>15, <1>16, <1>17, <1>18, <1>19 DEF IInv
(* The connection is gone: the records the loops have yet to come to are   *)
(* still to come.                                                          *)
LEMMA RecvGone ==
    ASSUME IInv, NEW k \in 1 .. nTotalSockets, Scanning(k), RemoveSocketInfo(k),
           i' = i + 1, UNCHANGED <<pc, rset, j, ptr, log, joined>>
    PROVE  IInv'
<1> PICK n \in Nat : n = nTotalSockets
  BY ONLY IInv DEF IInv, TypeOK, nTotalSockets
<1>1. pc = "scan" /\ i = k /\ k \in 1 .. n
  BY DEF Scanning
<1>2. /\ SocketsTyped(ChatBytes)' /\ SocketInfoArray' \in Seq(SOCKETINFO)
      /\ nTotalSockets' = n - 1
      /\ \A m \in 1 .. (n - 1) : \E o \in 1 .. n :
            /\ o = (IF m = k THEN n ELSE m)
            /\ SocketInfoArray'[m] = SocketInfoArray[o]
            /\ Owner(m)' = Owner(o)
            /\ Owner(o) \in Clients
            /\ RecvWouldBlock(Owner(m))' = RecvWouldBlock(Owner(o))
      /\ DescriptorTable' /\ Records' /\ Collected' /\ WholeMessages'
      /\ Deliveries' /\ SameMessages'
      /\ \A c : Received(c)' = Received(c)
      /\ taken' = taken /\ sent' = sent
  <2>1. k \in 1 .. n /\ n = nTotalSockets /\ log' = log /\ joined' = joined /\ pc' # "exit"
    BY <1>1
  <2> QED
    BY <2>1, Removal
<1>3. TypeOK'
  <2>1. \A m \in 1 .. nTotalSockets' : SocketInfoArray'[m].recvbytes < BUFSIZE
    BY <1>2 DEF Records
  <2>2. i' \in Nat \ {0}
    BY DEF IInv, TypeOK
  <2>3. /\ link' \in [Clients -> {"new", "backlog", "open", "closed"}]
        /\ peer' \in [Clients -> {"up", "fin", "rst"}]
        /\ out' \in [Clients -> Seq(ChatBytes)]
        /\ fdt' \in [Fds -> Clients \cup Listeners \cup {Free}]
    BY <1>2 DEF SocketsTyped
  <2> QED
    BY <1>2, <2>1, <2>2, <2>3 DEF IInv, TypeOK
<1>4. StillReadable'
  <2>1. ASSUME NEW m \in 1 .. (n - 1), SocketInfoArray'[m].sock \in rset', m > i' \/ m = i'
        PROVE  ~ RecvWouldBlock(Owner(m))'
    <3>1. m # k /\ m > i /\ m \in 1 .. n
      BY <1>1, <2>1
    <3>2. /\ SocketInfoArray'[m] = SocketInfoArray[m]
          /\ RecvWouldBlock(Owner(m))' = RecvWouldBlock(Owner(m))
      BY <1>2, <3>1
    <3> QED
      BY <2>1, <3>1, <3>2 DEF IInv, StillReadable
  <2> QED
    BY <1>1, <1>2, <2>1 DEF IInv, StillReadable
<1>5. CaughtUp' /\ Broadcasting'
  <2>1. \A o \in 1 .. n : joined[Owner(o)] + Received(Owner(o)) = Len(log)
    BY <1>1 DEF IInv, CaughtUp
  <2>2. ASSUME NEW m \in 1 .. (n - 1)
        PROVE  joined'[Owner(m)'] + Received(Owner(m))' = Len(log')
    <3>1. PICK o \in 1 .. n : Owner(m)' = Owner(o)
      BY <1>2
    <3>2. Received(Owner(m))' = Received(Owner(o))
      <4>1. PICK c : c = Owner(o)
        OBVIOUS
      <4>2. Received(Owner(m))' = Received(c)'
        BY <3>1, <4>1 DEF Received
      <4> QED
        BY <1>2, <4>1, <4>2
    <3> QED
      BY <2>1, <3>1, <3>2
  <2> QED
    BY <1>1, <1>2, <2>2 DEF CaughtUp, Broadcasting
<1> QED
  BY <1>2, <1>3, <1>4, <1>5 DEF IInv

LEMMA RecvStep ==
    ASSUME IInv, NEW k \in 1 .. nTotalSockets, RecvCall(k)
    PROVE  IInv'
<1> PICK info \in SOCKETINFO : info = SocketInfoArray[k]
  BY RecordFacts
<1> PICK c \in Clients : c = Owner(k)
  BY RecordFacts
<1>1. info.recvbytes \in Nat /\ BUFSIZE \in Nat /\ Scanning(k) /\ UNCHANGED <<rset, joined>>
  BY RecordFacts, ListenersApart DEF RecvCall
<1>2. CASE /\ RemoveSocketInfo(k)
           /\ i' = i + 1
           /\ UNCHANGED <<pc, j, ptr, log>>
  BY <1>1, <1>2, RecvGone
<1>3. ASSUME NEW b \in 1 .. (BUFSIZE - info.recvbytes),
             RecvReturns(c, b), Take(c, b),
             SocketInfoArray' =
                [SocketInfoArray EXCEPT
                   ![k].buf = Assembled(info, c, b),
                   ![k].recvbytes = IF info.recvbytes + b = BUFSIZE THEN 0 ELSE @ + b],
             IF info.recvbytes + b = BUFSIZE
             THEN /\ pc' = "send"
                  /\ j' = 1
                  /\ ptr' = [sock |-> info.sock, buf |-> Assembled(info, c, b), freed |-> FALSE]
                  /\ log' = Append(log, Assembled(info, c, b))
                  /\ i' = i
             ELSE i' = i + 1 /\ UNCHANGED <<pc, j, ptr, log>>
      PROVE  IInv'
  <2>1. b \in Nat /\ b > 0 /\ b <= Unread(c)
    BY <1>1, <1>3 DEF RecvReturns
  <2>2. CASE info.recvbytes + b = BUFSIZE
    <3>1. PICK buf : buf = Assembled(info, c, b)
      OBVIOUS
    <3>2. SocketInfoArray' = [SocketInfoArray EXCEPT ![k].buf = buf, ![k].recvbytes = 0]
      BY <1>3, <2>2, <3>1
    <3>3. /\ IInv /\ Scanning(k) /\ c = Owner(k) /\ b > 0 /\ b <= Unread(c) /\ Take(c, b)
          /\ SocketInfoArray[k].recvbytes + b = BUFSIZE
          /\ buf = Assembled(SocketInfoArray[k], c, b)
          /\ pc' = "send" /\ j' = 1 /\ i' = i /\ log' = Append(log, buf)
          /\ UNCHANGED <<rset, joined>>
      BY <1>1, <1>3, <2>1, <2>2, <3>1
    <3>4. ptr' = [sock |-> SocketInfoArray[k].sock, buf |-> buf, freed |-> FALSE]
      BY <1>3, <2>2, <3>1
    <3> QED
      BY ONLY <3>2, <3>3, <3>4, RecvWhole, c \in Clients, b \in Nat, <2>1,
         k \in 1 .. nTotalSockets
  <2>3. CASE info.recvbytes + b # BUFSIZE
    <3>1. info.recvbytes + b < BUFSIZE
      BY <1>1, <2>1, <2>3
    <3>2. SocketInfoArray' =
             [SocketInfoArray EXCEPT ![k].buf = Assembled(SocketInfoArray[k], c, b),
                                     ![k].recvbytes = @ + b]
      BY <1>3, <2>3
    <3> QED
      BY <1>1, <1>3, <2>1, <2>3, <3>1, <3>2, RecvPart
  <2> QED
    BY <2>2, <2>3
<1> QED
  BY <1>2, <1>3 DEF RecvCall
-----------------------------------------------------------------------------
(* send() in the broadcast loop. *)

(* What is sent is as long as a message: it is the last message of the log *)
(* or what has become of it.                                               *)
LEMMA ContentsAre ==
    ASSUME IInv, pc = "send", NEW bytes \in Contents
    PROVE  /\ bytes \in Seq(ChatBytes) /\ Len(bytes) = BUFSIZE
           /\ bytes \in {log[Len(log)], [m \in 1 .. BUFSIZE |-> Garbage]}
<1>1. BUFSIZE \in Nat /\ Len(log) \in Nat
  BY ListenersApart DEF IInv, TypeOK
<1>2. CASE bytes = ptr.buf
  <2>1. Len(log) \in 1 .. Len(log) /\ ptr.buf = log[Len(log)]
    BY <1>1 DEF IInv, Broadcasting
  <2>2. PICK c \in Clients, a \in Nat : log[Len(log)] = Chunk(c, a, BUFSIZE)
    <3>1. PICK c \in Clients :
             log[Len(log)] = Chunk(c, BUFSIZE * Count(log, c, Len(log) - 1), BUFSIZE)
      BY <2>1, WholeIs DEF IInv
    <3>2. Len(log) - 1 \in Nat
      BY <1>1, <2>1
    <3>3. PICK q \in Nat : q = Count(log, c, Len(log) - 1)
      BY ONLY <3>2, CountFinite
    <3>4. BUFSIZE * q \in Nat
      BY <1>1
    <3> QED
      BY <3>1, <3>3, <3>4
  <2>3. log[Len(log)] \in Seq(Bytes) /\ Len(log[Len(log)]) = BUFSIZE
    <3>1. BUFSIZE \in Nat
      BY <1>1
    <3> QED
      BY ONLY <2>2, <3>1, ChunkType, c \in Clients, a \in Nat
  <2>4. log[Len(log)] \in Seq(ChatBytes)
    BY <2>3 DEF ChatBytes
  <2> QED
    BY <1>2, <2>1, <2>3, <2>4
<1>3. CASE bytes = [m \in 1 .. BUFSIZE |-> Garbage]
  BY <1>1, <1>3 DEF ChatBytes
<1> QED
  BY <1>2, <1>3 DEF Contents

(* One client more has had the last message. *)
LEMMA SendGives ==
    ASSUME IInv, pc = "send", NEW k \in 1 .. nTotalSockets, j = k,
           NEW c \in Clients, c = Owner(k),
           NEW bytes \in Contents, Give(c, bytes), j' = j + 1,
           UNCHANGED <<SocketInfoArray, ptr, pc, rset, i, log, joined>>
    PROVE  IInv'
<1>1. out' = [out EXCEPT ![c] = @ \o bytes] /\ UNCHANGED <<link, peer, sent, taken, got, fdt>>
  BY DEF Give
<1>2. /\ bytes \in Seq(ChatBytes) /\ Len(bytes) = BUFSIZE
      /\ bytes \in {log[Len(log)], [m \in 1 .. BUFSIZE |-> Garbage]}
  BY ContentsAre
<1>3. /\ out \in [Clients -> Seq(ChatBytes)] /\ joined \in [Clients -> Nat]
      /\ SocketsTyped(ChatBytes) /\ Len(log) \in Nat /\ BUFSIZE \in Nat /\ BUFSIZE > 0
  BY ListenersApart DEF IInv, TypeOK
<1>4. SocketsTyped(ChatBytes)'
  BY <1>1, <1>2, <1>3, GiveTyped
<1>5. PICK r \in Nat : r = Received(c) /\ Len(out[c]) = BUFSIZE * r
  <2>1. Received(c) \in Nat
    <3>1. PICK a \in Nat : a = Len(out[c])
      BY <1>3
    <3>2. PICK q \in Int : q = Received(c) /\ a = BUFSIZE * q
      <4>1. a \div BUFSIZE \in Int
        BY ONLY <1>3, a \in Nat
      <4> QED
        BY <3>1, <4>1 DEF Received, IInv, Deliveries
    <3>3. q >= 0
      BY ONLY <1>3, <3>2, a \in Nat, q \in Int
    <3> QED
      BY <3>2, <3>3
  <2> QED
    BY <2>1 DEF IInv, Deliveries
<1>6. joined[c] + r = Len(log) - 1
  <2>1. k >= j
    BY RecordFacts
  <2> QED
    BY <1>5, <2>1 DEF IInv, CaughtUp
<1>7. /\ out'[c] = out[c] \o bytes
      /\ \A d \in Clients : d # c => out'[d] = out[d]
  BY <1>1, <1>3
<1>8. /\ Received(c)' = r + 1
      /\ Len(out'[c]) = BUFSIZE * (r + 1)
      /\ Message(c, r + 1)' = bytes
      /\ \A q \in 1 .. r : Message(c, q)' = Message(c, q)
  <2>1. /\ out[c] \in Seq(ChatBytes) /\ bytes \in Seq(ChatBytes) /\ Len(bytes) = BUFSIZE
        /\ out'[c] = out[c] \o bytes /\ r = Received(c) /\ Len(out[c]) = BUFSIZE * r
    BY <1>2, <1>3, <1>5, <1>7
  <2> QED
    BY ONLY <2>1, GivenNext, r \in Nat
<1>9. \A d \in Clients : d # c =>
         Received(d)' = Received(d) /\ \A q : Message(d, q)' = Message(d, q)
  BY <1>7, GivenSame
<1>10. /\ nTotalSockets' = nTotalSockets /\ nTotalSockets \in Nat
       /\ \A m \in 1 .. nTotalSockets :
             /\ Owner(m) \in Clients /\ Owner(m)' = Owner(m)
             /\ m # k => Owner(m) # c
  BY <1>1, RecordFacts, OwnersDiffer DEF Owner, nTotalSockets, IInv, TypeOK
<1>11. TypeOK'
  <2>1. /\ link' \in [Clients -> {"new", "backlog", "open", "closed"}]
        /\ peer' \in [Clients -> {"up", "fin", "rst"}]
        /\ out' \in [Clients -> Seq(ChatBytes)]
        /\ fdt' \in [Fds -> Clients \cup Listeners \cup {Free}]
    BY <1>4 DEF SocketsTyped
  <2>2. j' \in Nat \ {0}
    BY DEF IInv, TypeOK
  <2> QED
    BY <1>10, <2>1, <2>2 DEF IInv, TypeOK
<1>12. DescriptorTable' /\ Records' /\ Broadcasting'
  BY <1>1, <1>10 DEF IInv, DescriptorTable, Records, Connected, Broadcasting
<1>13. StillReadable'
  <2>1. \A m \in 1 .. nTotalSockets : RecvWouldBlock(Owner(m))' = RecvWouldBlock(Owner(m))
    BY <1>1, <1>10 DEF RecvWouldBlock, Unread
  <2> QED
    BY <1>1, <1>10, <2>1 DEF IInv, StillReadable
<1>14. Collected'
  <2>1. link[c] = "open"
    BY RecordFacts
  <2>2. \A d \in Clients : link'[d] \in {"new", "backlog"} =>
           taken'[d] = 0 /\ out'[d] = <<>> /\ Count(log', d, Len(log')) = 0
    BY <1>1, <1>7, <2>1 DEF IInv, Collected
  <2> QED
    BY <1>1, <1>10, <2>2 DEF IInv, Collected
<1>15. WholeMessages'
  BY WholeIs DEF IInv
<1>16. Deliveries'
  <2>1. ASSUME NEW d \in Clients
        PROVE  /\ Len(out'[d]) = BUFSIZE * Received(d)'
               /\ joined[d] + Received(d)' <= Len(log)
    <3>1. CASE d = c
      BY <1>3, <1>6, <1>8, <3>1
    <3>2. CASE d # c
      BY <1>7, <1>9, <3>2 DEF IInv, Deliveries
    <3> QED
      BY <3>1, <3>2
  <2> QED
    BY <2>1 DEF Deliveries
<1>17. SameMessages'
  <2>1. ASSUME NEW d \in Clients, NEW q \in 1 .. Received(d)'
        PROVE  Message(d, q)' \in {log[joined[d] + q], [m \in 1 .. BUFSIZE |-> Garbage]}
    <3>1. CASE d = c /\ q = r + 1
      <4>1. joined[c] + (r + 1) = Len(log)
        BY <1>3, <1>6
      <4> QED
        BY <1>2, <1>8, <3>1, <4>1
    <3>2. CASE d = c /\ q # r + 1
      <4>1. q \in 1 .. r
        BY <1>8, <3>2
      <4>2. Message(c, q)' = Message(c, q)
        BY <1>8, <4>1
      <4>3. Message(c, q) \in {log[joined[c] + q], [m \in 1 .. BUFSIZE |-> Garbage]}
        BY <1>5, <4>1 DEF IInv, SameMessages
      <4> QED
        BY <3>2, <4>2, <4>3
    <3>3. CASE d # c
      BY <1>9, <3>3 DEF IInv, SameMessages
    <3> QED
      BY <3>1, <3>2, <3>3
  <2> QED
    BY <2>1 DEF SameMessages
<1>18. CaughtUp'
  <2>1. ASSUME NEW m \in 1 .. nTotalSockets
        PROVE  joined[Owner(m)] + Received(Owner(m))' =
                  IF m >= j' THEN Len(log) - 1 ELSE Len(log)
    <3>1. CASE m = k
      <4>1. Received(Owner(m))' = Received(c)'
        BY <1>10, <3>1 DEF Received
      <4>2. ~ (m >= j') /\ joined[Owner(m)] = joined[c]
        BY <1>10, <3>1
      <4> QED
        BY <1>3, <1>6, <1>8, <4>1, <4>2
    <3>2. CASE m # k
      <4>1. PICK d \in Clients : d = Owner(m) /\ d # c
        BY <1>10, <3>2
      <4>2. Received(Owner(m))' = Received(d)'
        BY <1>10, <4>1 DEF Received
      <4>3. joined[d] + Received(d) = IF m >= j THEN Len(log) - 1 ELSE Len(log)
        BY <4>1 DEF IInv, CaughtUp
      <4>4. m >= j' <=> m >= j
        BY <1>10, <3>2
      <4> QED
        BY <1>9, <4>1, <4>2, <4>3, <4>4
    <3> QED
      BY <3>1, <3>2
  <2> QED
    BY <1>10, <2>1 DEF CaughtUp
<1> QED
  BY <1>4, <1>11, <1>12, <1>13, <1>14, <1>15, <1>16, <1>17, <1>18 DEF IInv

(* The record is removed, and the one that takes its place comes next. *)
LEMMA SendGone ==
    ASSUME IInv, pc = "send", NEW k \in 1 .. nTotalSockets, j = k, RemoveSocketInfo(k),
           j' = j, ptr' = [ptr EXCEPT !.freed = @ \/ SocketInfoArray[k].sock = ptr.sock],
           UNCHANGED <<pc, rset, i, log, joined>>
    PROVE  IInv'
<1> PICK n \in Nat : n = nTotalSockets
  BY ONLY IInv DEF IInv, TypeOK, nTotalSockets
<1>1. k \in 1 .. n /\ i \in Nat /\ Len(log) \in Nat
  BY DEF IInv, TypeOK
<1>2. /\ SocketsTyped(ChatBytes)' /\ SocketInfoArray' \in Seq(SOCKETINFO)
      /\ nTotalSockets' = n - 1
      /\ \A m \in 1 .. (n - 1) : \E o \in 1 .. n :
            /\ o = (IF m = k THEN n ELSE m)
            /\ SocketInfoArray'[m] = SocketInfoArray[o]
            /\ Owner(m)' = Owner(o)
            /\ Owner(o) \in Clients
            /\ RecvWouldBlock(Owner(m))' = RecvWouldBlock(Owner(o))
      /\ DescriptorTable' /\ Records' /\ Collected' /\ WholeMessages'
      /\ Deliveries' /\ SameMessages'
      /\ \A c : Received(c)' = Received(c)
      /\ taken' = taken /\ sent' = sent
  <2>1. k \in 1 .. n /\ n = nTotalSockets /\ log' = log /\ joined' = joined /\ pc' # "exit"
    BY <1>1
  <2> QED
    BY <2>1, Removal
<1>3. /\ ptr' \in [sock: Fds \cup {0}, buf: Seq(Bytes), freed: BOOLEAN]
      /\ ptr'.buf = ptr.buf
  BY DEF IInv, TypeOK
<1>4. TypeOK'
  <2>1. \A m \in 1 .. nTotalSockets' : SocketInfoArray'[m].recvbytes < BUFSIZE
    BY <1>2 DEF Records
  <2>2. /\ link' \in [Clients -> {"new", "backlog", "open", "closed"}]
        /\ peer' \in [Clients -> {"up", "fin", "rst"}]
        /\ out' \in [Clients -> Seq(ChatBytes)]
        /\ fdt' \in [Fds -> Clients \cup Listeners \cup {Free}]
    BY <1>2 DEF SocketsTyped
  <2> QED
    BY <1>2, <1>3, <2>1, <2>2 DEF IInv, TypeOK
<1>5. StillReadable'
  <2>1. ASSUME NEW m \in 1 .. (n - 1), SocketInfoArray'[m].sock \in rset', m > i'
        PROVE  ~ RecvWouldBlock(Owner(m))'
    <3>1. PICK o \in 1 .. n : /\ o = (IF m = k THEN n ELSE m)
                              /\ SocketInfoArray'[m] = SocketInfoArray[o]
                              /\ RecvWouldBlock(Owner(m))' = RecvWouldBlock(Owner(o))
      BY <1>2
    <3>2. o > i
      BY <1>1, <2>1, <3>1
    <3> QED
      BY <2>1, <3>1, <3>2 DEF IInv, StillReadable
  <2> QED
    BY <1>2, <2>1 DEF IInv, StillReadable
<1>6. CaughtUp' /\ Broadcasting'
  <2>1. ASSUME NEW m \in 1 .. (n - 1)
        PROVE  joined'[Owner(m)'] + Received(Owner(m))' =
                  IF m >= j THEN Len(log) - 1 ELSE Len(log)
    <3>1. PICK o \in 1 .. n : o = (IF m = k THEN n ELSE m) /\ Owner(m)' = Owner(o)
      BY <1>2
    <3>2. Received(Owner(m))' = Received(Owner(o))
      <4>1. PICK c : c = Owner(o)
        OBVIOUS
      <4>2. Received(Owner(m))' = Received(c)'
        BY <3>1, <4>1 DEF Received
      <4> QED
        BY <1>2, <4>1, <4>2
    <3>3. m >= j <=> o >= j
      BY <1>1, <3>1
    <3>4. joined[Owner(o)] + Received(Owner(o)) = IF o >= j THEN Len(log) - 1 ELSE Len(log)
      BY DEF IInv, CaughtUp
    <3> QED
      BY <3>1, <3>2, <3>3, <3>4
  <2>2. Broadcasting'
    BY <1>3 DEF IInv, Broadcasting
  <2> QED
    BY <1>2, <2>1, <2>2 DEF CaughtUp
<1> QED
  BY <1>2, <1>4, <1>5, <1>6 DEF IInv

LEMMA SendStep ==
    ASSUME IInv, NEW k \in 1 .. nTotalSockets, SendCall(k)
    PROVE  IInv'
<1> PICK c \in Clients : c = Owner(k)
  BY RecordFacts
<1>1. pc = "send" /\ j = k /\ UNCHANGED <<pc, rset, i, log, joined>>
  BY DEF SendCall
<1>2. ASSUME NEW bytes \in Contents, Give(c, bytes), j' = j + 1,
             UNCHANGED <<SocketInfoArray, ptr>>
      PROVE  IInv'
  BY <1>1, <1>2, SendGives
<1>3. ASSUME RemoveSocketInfo(k), j' = j,
             ptr' = [ptr EXCEPT !.freed = @ \/ SocketInfoArray[k].sock = ptr.sock]
      PROVE  IInv'
  BY <1>1, <1>3, SendGone
<1> QED
  BY <1>2, <1>3 DEF SendCall
-----------------------------------------------------------------------------
(* The invariant holds initially and every step preserves it. *)

LEMMA InitIInv == Init => IInv
<1> SUFFICES ASSUME Init PROVE IInv
  OBVIOUS
<1>1. /\ link = [c \in Clients |-> "new"] /\ peer = [c \in Clients |-> "up"]
      /\ sent = [c \in Clients |-> 0] /\ taken = [c \in Clients |-> 0]
      /\ out = [c \in Clients |-> <<>>] /\ got = [c \in Clients |-> 0]
  BY DEF Init, SocketsInit
<1>2. /\ fdt \in [Fds -> Listeners \cup {Free}]
      /\ fdt[listenfd4] = listen_sock4 /\ fdt[listenfd6] = listen_sock6
  <2> DEFINE h == [l \in Listeners |-> IF l = listen_sock4 THEN listenfd4 ELSE listenfd6]
  <2>1. h[listen_sock4] = listenfd4 /\ h[listen_sock6] = listenfd6
    BY PrjAssumption
  <2>2. \A l \in Listeners : /\ h[l] = listenfd4 => l = listen_sock4
                             /\ h[l] = listenfd6 => l = listen_sock6
    BY PrjAssumption, ListenersApart
  <2>3. fdt = [fd \in Fds |-> IF \E l \in Listeners : h[l] = fd
                              THEN CHOOSE l \in Listeners : h[l] = fd
                              ELSE Free]
    BY DEF Init, SocketsInit
  <2> HIDE DEF h
  <2>4. listen_sock4 \in Listeners /\ listen_sock6 \in Listeners
    BY PrjAssumption
  <2>5. \A fd : (\E l \in Listeners : h[l] = fd)
                   => (CHOOSE l \in Listeners : h[l] = fd) \in Listeners
    OBVIOUS
  <2>6. (CHOOSE l \in Listeners : h[l] = listenfd4) = listen_sock4
    <3>1. \E l \in Listeners : h[l] = listenfd4
      BY <2>1, <2>4
    <3> QED
      BY <2>2, <3>1
  <2>7. (CHOOSE l \in Listeners : h[l] = listenfd6) = listen_sock6
    <3>1. \E l \in Listeners : h[l] = listenfd6
      BY <2>1, <2>4
    <3> QED
      BY <2>2, <3>1
  <2>8. fdt[listenfd4] = listen_sock4
    BY <2>1, <2>3, <2>4, <2>6, ListenersApart
  <2>9. fdt[listenfd6] = listen_sock6
    BY <2>1, <2>3, <2>4, <2>7, ListenersApart
  <2>10. fdt \in [Fds -> Listeners \cup {Free}]
    BY <2>3, <2>5
  <2> QED
    BY <2>8, <2>9, <2>10
<1>3. /\ pc = "select" /\ SocketInfoArray = <<>> /\ rset = {} /\ i = 1 /\ j = 1
      /\ ptr = NoSender /\ log = <<>> /\ joined = [c \in Clients |-> 0]
  BY DEF Init
<1>4. /\ nTotalSockets = 0 /\ 1 .. nTotalSockets = {} /\ Len(log) = 0 /\ 1 .. Len(log) = {}
      /\ BUFSIZE \in Nat /\ BUFSIZE > 0
      /\ \A f \in Fds : fdt[f] \notin Clients
  <2>1. Listeners \cap Clients = {} /\ Free \notin Clients
    BY SocketsAssumption
  <2> QED
    BY <1>2, <1>3, <2>1, ListenersApart DEF nTotalSockets
<1>5. SocketsTyped(ChatBytes)
  <2>1. <<>> \in Seq(ChatBytes)
    OBVIOUS
  <2> QED
    BY <1>1, <1>2, <2>1 DEF SocketsTyped
<1>6. TypeOK
  <2>1. ptr \in [sock: Fds \cup {0}, buf: Seq(Bytes), freed: BOOLEAN]
    BY <1>3 DEF NoSender
  <2>2. /\ link \in [Clients -> {"new", "backlog", "open", "closed"}]
        /\ peer \in [Clients -> {"up", "fin", "rst"}]
        /\ out \in [Clients -> Seq(ChatBytes)]
        /\ fdt \in [Fds -> Clients \cup Listeners \cup {Free}]
    BY <1>5 DEF SocketsTyped
  <2>3. /\ SocketInfoArray \in Seq(SOCKETINFO) /\ log \in Seq(Seq(Bytes))
        /\ joined \in [Clients -> Nat]
    BY <1>3
  <2> QED
    BY <1>3, <1>4, <2>1, <2>2, <2>3 DEF TypeOK
<1>7. DescriptorTable /\ Records /\ CaughtUp /\ Broadcasting
  BY <1>2, <1>3, <1>4 DEF DescriptorTable, Records, CaughtUp, Broadcasting
<1>8. StillReadable
  BY <1>1, <1>3, <1>4 DEF StillReadable
<1>9. Collected
  <2>1. \A c : Count(log, c, Len(log)) = 0
    <3>1. \A c : {x \in 1 .. Len(log) : log[x][1][1] = c} = {}
      BY <1>4
    <3> QED
      BY <3>1, FS_EmptySet DEF Count
  <2> QED
    BY <1>1, <1>4, <2>1 DEF Collected
<1>10. WholeMessages
  BY <1>4 DEF WholeMessages
<1>11. \A c \in Clients : Received(c) = 0 /\ Len(out[c]) = 0 /\ joined[c] = 0
  <2>1. 0 \div BUFSIZE = 0 /\ Len(<<>>) = 0
    BY <1>4
  <2> QED
    BY <1>1, <1>3, <2>1 DEF Received
<1>12. Deliveries /\ SameMessages
  <2>1. BUFSIZE * 0 = 0 /\ 1 .. 0 = {}
    BY <1>4
  <2> QED
    BY <1>4, <1>11, <2>1 DEF Deliveries, SameMessages
<1> QED
  BY <1>5, <1>6, <1>7, <1>8, <1>9, <1>10, <1>12 DEF IInv

LEMMA StutterStep ==
    ASSUME IInv, UNCHANGED vars
    PROVE  IInv'
<1>1. /\ UNCHANGED <<link, peer, sent, taken, out, got, fdt>>
      /\ UNCHANGED <<pc, SocketInfoArray, rset, i, j, ptr, log, joined>>
  BY DEF vars, sockets, server
<1>2. CASE pc # "exit"
  <2>1. UNCHANGED <<sockets, SocketInfoArray, log, joined>>
    BY <1>1 DEF sockets
  <2>2. pc' # "exit"
    BY <1>1, <1>2
  <2>3. /\ SocketsTyped(ChatBytes)' /\ DescriptorTable' /\ Records' /\ Collected'
        /\ WholeMessages' /\ Deliveries' /\ SameMessages'
        /\ nTotalSockets' = nTotalSockets /\ nTotalSockets \in Nat
        /\ \A k : Owner(k)' = Owner(k) /\ RecvWouldBlock(Owner(k))' = RecvWouldBlock(Owner(k))
        /\ \A c : Received(c)' = Received(c)
        /\ fdt' = fdt /\ taken' = taken /\ sent' = sent
    BY <1>2, <2>1, <2>2, ControlKeeps
  <2>4. TypeOK'
    BY <1>1, <2>3 DEF IInv, TypeOK
  <2>5. CaughtUp' /\ Broadcasting'
    <3>1. \A k \in 1 .. nTotalSockets : Owner(k) \in Clients
      BY RecordFacts
    <3> QED
      BY <1>1, <2>3, <3>1 DEF IInv, CaughtUp, Broadcasting
  <2>6. StillReadable'
    BY <1>1, <2>3 DEF IInv, StillReadable
  <2> QED
    BY <2>3, <2>4, <2>5, <2>6 DEF IInv
<1>3. CASE pc = "exit"
  <2>1. \A c : Received(c)' = Received(c) /\ \A q : Message(c, q)' = Message(c, q)
    BY <1>1, GivenSame
  <2>2. nTotalSockets' = nTotalSockets /\ 1 .. nTotalSockets = {}
    BY <1>1, <1>3 DEF IInv, DescriptorTable, nTotalSockets
  <2>3. TypeOK' /\ SocketsTyped(ChatBytes)'
    BY <1>1, <2>2 DEF IInv, TypeOK, SocketsTyped
  <2>4. DescriptorTable' /\ Records' /\ CaughtUp' /\ Broadcasting'
    BY <1>1, <1>3, <2>2 DEF IInv, DescriptorTable, Records, CaughtUp, Broadcasting
  <2>5. StillReadable' /\ Collected'
    BY <1>1, <2>2 DEF IInv, StillReadable, Collected
  <2>6. WholeMessages'
    BY <1>1, WholeIs DEF IInv
  <2>7. Deliveries' /\ SameMessages'
    BY <1>1, <2>1 DEF IInv, Deliveries, SameMessages
  <2> QED
    BY <2>3, <2>4, <2>5, <2>6, <2>7 DEF IInv
<1> QED
  BY <1>2, <1>3

LEMMA StepIInv == IInv /\ [Next]_vars => IInv'
<1> SUFFICES ASSUME IInv, [Next]_vars PROVE IInv'
  OBVIOUS
<1>1. CASE SelectCall
  BY <1>1, SelectStep
<1>2. CASE AcceptCall
  BY <1>2, AcceptStep
<1>3. CASE AcceptFull
  BY <1>3, AcceptFullStep
<1>4. CASE AcceptBreaks
  BY <1>4, ExitStep DEF AcceptBreaks
<1>5. CASE ScanEnds \/ SendEnds
  BY <1>5, LoopStep
<1>6. ASSUME NEW k \in 1 .. nTotalSockets, RecvCall(k) PROVE IInv'
  BY <1>6, RecvStep
<1>7. ASSUME NEW k \in 1 .. nTotalSockets, Skip(k) PROVE IInv'
  <2>1. Skip(i) /\ i <= nTotalSockets
    BY <1>7 DEF Skip, Scanning
  <2> QED
    BY <2>1, LoopStep
<1>8. ASSUME NEW k \in 1 .. nTotalSockets, SendCall(k) PROVE IInv'
  BY <1>8, SendStep
<1>9. ASSUME NEW k \in 1 .. nTotalSockets, SendKills(k) PROVE IInv'
  BY <1>9, ExitStep DEF SendKills
<1>10. CASE Environment
  BY <1>10, EnvironmentStep
<1>11. CASE UNCHANGED vars
  BY <1>11, StutterStep
<1> QED
  BY <1>1, <1>2, <1>3, <1>4, <1>5, <1>6, <1>7, <1>8, <1>9, <1>10, <1>11 DEF Next, Server

-----------------------------------------------------------------------------
(* The theorems. *)

(* The inductive invariant holds in every reachable state. *)
THEOREM Invariance == Spec => []IInv
  BY InitIInv, StepIInv, PTL DEF Spec

(* The variables stay in their sets and no record is ever full between two *)
(* calls: recv() is never asked for 0 bytes.                               *)
THEOREM TypeCorrect == Spec => []TypeOK
<1>1. IInv => TypeOK
  BY DEF IInv
<1> QED
  BY <1>1, Invariance, PTL

(* recv() in the data loop of main() never waits for a client that has     *)
(* nothing to say, although RemoveSocketInfo() moves the records about     *)
(* while the data loop and the broadcast loop run.                         *)
THEOREM NeverStuck == Spec => []NeverStuckInRecv
<1>1. IInv => NeverStuckInRecv
  <2> SUFFICES ASSUME IInv PROVE NeverStuckInRecv
    OBVIOUS
  <2> QED
    BY DEF IInv, Records, StillReadable, NeverStuckInRecv
<1> QED
  BY <1>1, Invariance, PTL

(* What is broadcast is a whole message of one client, the next one of it, *)
(* however recv() cuts the streams and in whatever order they arrive.      *)
THEOREM MessagesWhole == Spec => []WholeMessages
<1>1. IInv => WholeMessages
  BY DEF IInv
<1> QED
  BY <1>1, Invariance, PTL

(* All clients are sent the same messages in the same order and none is    *)
(* passed over, although connections break in the middle of a broadcast    *)
(* and the last record takes the place of the broken one.                  *)
THEOREM OrderKept == Spec => []CommonOrder
<1>1. IInv => CommonOrder
  BY DEF IInv, SameMessages, CaughtUp, CommonOrder
<1> QED
  BY <1>1, Invariance, PTL

-----------------------------------------------------------------------------
(* The chat room. *)

(* Every open connection has its record, only the two listeners listen,    *)
(* and the sender of the message under way is gone once ptr dangles.       *)
Seated ==
    /\ \A c \in Clients : link[c] = "open" => \E k \in 1 .. nTotalSockets : Owner(k) = c
    /\ \A f \in Fds : fdt[f] \in Listeners => f \in {listenfd4, listenfd6}
Speaking ==
    pc = "send" =>
       \E s \in Clients : /\ s = log[Len(log)][1][1]
                          /\ IF ptr.freed THEN link[s] = "closed"
                             ELSE ptr.sock \in Fds /\ fdt[ptr.sock] = s

RoomInv == IInv /\ Seated /\ Speaking

(* The whole messages in the bytes that were taken from a client. *)
LEMMA WholeMessagesIn ==
    ASSUME NEW B \in Nat, B > 0, NEW q \in Nat, NEW r \in Nat, r < B
    PROVE  (B * q + r) \div B = q
  OBVIOUS

(* Places, speakers and messages, one client at a time. *)
LEMMA RoomValues ==
    ASSUME IInv
    PROVE  /\ Room!Inside = {c \in Clients : link[c] = "open"}
           /\ \A c \in Clients :
                 /\ Received(c) \in Nat
                 /\ Place[c] = "inside" <=> link[c] = "open"
                 /\ Place[c] = "gone" <=> link[c] = "closed"
                 /\ Place[c] = "outside" <=> link[c] \in {"new", "backlog"}
                 /\ Len(Told[c]) = Received(c)
                 /\ Room!Heard(c) = joined[c] + Received(c)
           /\ Len(Spoken) = Len(log)
<1>1. /\ link \in [Clients -> {"new", "backlog", "open", "closed"}]
      /\ \A c \in Clients : Len(out[c]) \in Nat
      /\ BUFSIZE \in Nat /\ BUFSIZE > 0 /\ Len(log) \in Nat
  BY ListenersApart DEF IInv, TypeOK
<1>2. \A c \in Clients : /\ Place[c] = "inside" <=> link[c] = "open"
                         /\ Place[c] = "gone" <=> link[c] = "closed"
                         /\ Place[c] = "outside" <=> link[c] \in {"new", "backlog"}
  BY <1>1 DEF Place
<1>3. Room!Inside = {c \in Clients : link[c] = "open"}
  BY <1>2 DEF Room!Inside
<1>4. ASSUME NEW c \in Clients
      PROVE  Received(c) \in Nat
  <2>1. PICK a \in Nat : a = Len(out[c])
    BY <1>1
  <2>2. a \div BUFSIZE \in Nat
    BY ONLY <1>1, a \in Nat
  <2> QED
    BY <2>1, <2>2 DEF Received
<1>5. \A c \in Clients : Len(Told[c]) = Received(c)
  BY <1>4 DEF Told
<1>6. \A c \in Clients : Room!Heard(c) = joined[c] + Received(c)
  BY <1>5 DEF Room!Heard
<1>7. Len(Spoken) = Len(log)
  BY <1>1 DEF Spoken
<1> QED
  BY <1>2, <1>3, <1>4, <1>5, <1>6, <1>7

(* Outside a broadcast everybody has heard everything. *)
LEMMA RoomSilent ==
    ASSUME IInv, Seated, pc # "send"
    PROVE  Room!Silence
<1> SUFFICES ASSUME NEW c \in Clients, link[c] = "open"
             PROVE  Room!Heard(c) = Len(Spoken)
  BY RoomValues DEF Room!Silence
<1>1. PICK k \in 1 .. nTotalSockets : Owner(k) = c
  BY DEF Seated
<1>2. joined[c] + Received(c) = Len(log)
  BY <1>1 DEF IInv, CaughtUp
<1> QED
  BY <1>2, RoomValues

(* What the room does not see of a step. *)
LEMMA RoomKept ==
    /\ taken' = taken => Said' = Said
    /\ log' = log => Spoken' = Spoken
    /\ out' = out => Told' = Told
    /\ peer' = peer => Away' = Away
    /\ link' = link => Place' = Place
<1>1. taken' = taken => Said' = Said
  BY DEF Said
<1>2. log' = log => Spoken' = Spoken
  BY DEF Spoken
<1>3. out' = out => Told' = Told
  BY DEF Told, Received, Message
<1>4. peer' = peer => Away' = Away
  BY DEF Away
<1>5. link' = link => Place' = Place
  BY DEF Place
<1> QED
  BY <1>1, <1>2, <1>3, <1>4, <1>5

(* A connection that is accepted or closed is a client that comes in or    *)
(* goes; the rest of the room stays where it is.                           *)
LEMMA PlaceChanges ==
    ASSUME IInv, NEW c \in Clients, NEW x \in {"open", "closed"},
           link' = [link EXCEPT ![c] = x]
    PROVE  Place' = [Place EXCEPT ![c] = IF x = "open" THEN "inside" ELSE "gone"]
<1>1. link \in [Clients -> {"new", "backlog", "open", "closed"}]
  BY DEF IInv, TypeOK
<1> QED
  BY <1>1 DEF Place

LEMMA RoomCardinality == \A S : Room!Cardinality(S) = Cardinality(S)
  BY DEF Room!Cardinality, Cardinality

LEMMA InsideFinite == IsFiniteSet(Room!Inside) /\ Cardinality(Room!Inside) \in Nat
<1>1. Room!Inside \subseteq Clients
  BY DEF Room!Inside
<1> QED
  BY <1>1, FS_Subset, FS_CardinalityType, SocketsAssumption

(* There are as many clients inside as records at least. *)
LEMMA SeatsTaken ==
    ASSUME IInv
    PROVE  nTotalSockets <= Cardinality(Room!Inside)
<1>1. PICK n \in Nat : n = nTotalSockets
  BY DEF IInv, TypeOK, nTotalSockets
<1>2. IsFiniteSet(1 .. n) /\ Cardinality(1 .. n) = n
  BY FS_Interval
<1> DEFINE f == [k \in 1 .. n |-> Owner(k)]
<1>3. \A k \in 1 .. n : Owner(k) \in Room!Inside
  BY <1>1, RecordFacts, RoomValues
<1>4. f \in Injection(1 .. n, Room!Inside)
  BY <1>1, <1>3, OwnersDiffer DEF Injection, IsInjective
<1> HIDE DEF f
<1>5. Cardinality(1 .. n) <= Cardinality(Room!Inside)
  BY <1>2, <1>4, InsideFinite, FS_Injection
<1> QED
  BY <1>1, <1>2, <1>5

(* Without a free descriptor every door is taken. *)
LEMMA DoorsTaken ==
    ASSUME IInv, Seated, pc # "exit", NoFreeFd
    PROVE  NOFILE - 5 <= Cardinality(Room!Inside)
<1> DEFINE S == 5 .. (NOFILE - 1)
           f == [fd \in S |-> fdt[fd]]
<1>1. NOFILE \in Nat /\ NOFILE > 4
  BY PrjAssumption, SocketsAssumption
<1>2. IsFiniteSet(S) /\ Cardinality(S) = NOFILE - 5
  <2>1. 5 \in Int /\ NOFILE - 1 \in Int
    BY <1>1
  <2>2. /\ IsFiniteSet(5 .. (NOFILE - 1))
        /\ Cardinality(5 .. (NOFILE - 1)) = IF 5 > NOFILE - 1 THEN 0 ELSE NOFILE - 1 - 5 + 1
    BY <2>1, FS_Interval
  <2> QED
    BY <1>1, <2>2
<1>3. \A fd \in S : fd \in Fds /\ fd \notin {listenfd4, listenfd6}
  BY <1>1 DEF Fds, listenfd4, listenfd6
<1>4. \A fd \in S : fdt[fd] \in Clients /\ fdt[fd] \in Room!Inside
  <2> SUFFICES ASSUME NEW fd \in S PROVE fdt[fd] \in Clients /\ fdt[fd] \in Room!Inside
    OBVIOUS
  <2>1. fd \in Fds /\ fdt[fd] # Free /\ fdt[fd] \notin Listeners
    BY <1>3 DEF NoFreeFd, Seated
  <2>2. fdt[fd] \in Clients
    BY <2>1 DEF IInv, TypeOK
  <2> QED
    BY <2>1, <2>2, RoomValues DEF IInv, DescriptorTable
<1>5. f \in Injection(S, Room!Inside)
  BY <1>3, <1>4 DEF Injection, IsInjective, IInv, DescriptorTable
<1> HIDE DEF f, S
<1>6. Cardinality(S) <= Cardinality(Room!Inside)
  BY <1>2, <1>5, InsideFinite, FS_Injection
<1> QED
  BY <1>2, <1>6

-----------------------------------------------------------------------------
(* The steps of the server as steps of the room. *)

(* The clients: those who end their connection are away. *)
LEMMA RoomEnvironment ==
    ASSUME RoomInv, Environment
    PROVE  [Room!Next]_(Room!vars) /\ Seated' /\ Speaking'
<1> PICK c \in Clients : Remote(c)
  BY DEF Environment
<1>1. UNCHANGED <<pc, SocketInfoArray, rset, i, j, ptr, log, joined>>
  BY DEF Environment, server
<1>2. IInv /\ SocketsTyped(ChatBytes)
  BY DEF RoomInv, IInv
<1>3. /\ taken' = taken /\ out' = out /\ fdt' = fdt
      /\ \A d \in Clients :
            /\ link'[d] = "open" <=> link[d] = "open"
            /\ link'[d] = "closed" <=> link[d] = "closed"
  BY <1>2, RemoteLeaves
<1>4. nTotalSockets' = nTotalSockets /\ \A k : Owner(k)' = Owner(k)
  BY <1>1, <1>3 DEF nTotalSockets, Owner
<1>5. Seated'
  BY <1>3, <1>4 DEF RoomInv, Seated
<1>6. Speaking'
  BY <1>1, <1>3 DEF RoomInv, Speaking
<1>7. Said' = Said /\ Spoken' = Spoken /\ Told' = Told /\ Place' = Place
  <2>1. Place' = Place
    BY <1>3 DEF Place
  <2> QED
    BY <1>1, <1>3, <2>1, RoomKept
<1>8. (pc # "exit")' = (pc # "exit")
  BY <1>1
<1>9. peer' = peer \/ \E x \in {"fin", "rst"} : /\ peer' = [peer EXCEPT ![c] = x]
                                               /\ link[c] # "closed"
  BY DEF Remote, Connect, ClientSend, ClientRead, ClientFin, ClientReset
<1>10. CASE Away' = Away
  BY <1>1, <1>5, <1>6, <1>7, <1>8, <1>10 DEF Room!vars
<1>11. CASE Away' # Away
  <2>1. PICK x \in {"fin", "rst"} : peer' = [peer EXCEPT ![c] = x] /\ link[c] # "closed"
    BY <1>9, <1>11, RoomKept
  <2>2. peer \in [Clients -> {"up", "fin", "rst"}]
    BY <1>2 DEF IInv, TypeOK
  <2>3. Away' = Away \cup {c}
    BY <2>1, <2>2 DEF Away
  <2>4. c \notin Away
    BY <1>11, <2>3
  <2>5. Place[c] # "gone"
    BY <1>2, <2>1, RoomValues
  <2>6. Room!GoAway(c)
    BY <1>1, <1>7, <1>8, <2>3, <2>4, <2>5 DEF Room!GoAway
  <2> QED
    BY <1>5, <1>6, <2>6 DEF Room!Next
<1> QED
  BY <1>5, <1>6, <1>10, <1>11

(* select(), the loops over the records and their ends. *)
LEMMA RoomControl ==
    ASSUME RoomInv, UNCHANGED <<sockets, SocketInfoArray, log, joined>>,
           pc # "exit", pc' # "exit", pc' = "send" => pc = "send" /\ ptr' = ptr
    PROVE  [Room!Next]_(Room!vars) /\ Seated' /\ Speaking'
<1>1. /\ taken' = taken /\ out' = out /\ fdt' = fdt /\ link' = link /\ peer' = peer
  BY DEF sockets
<1>2. nTotalSockets' = nTotalSockets /\ \A k : Owner(k)' = Owner(k)
  BY <1>1 DEF nTotalSockets, Owner
<1>3. Seated'
  BY <1>1, <1>2 DEF RoomInv, Seated
<1>4. Speaking'
  BY <1>1 DEF RoomInv, Speaking
<1>5. (pc # "exit")' = (pc # "exit")
  OBVIOUS
<1>6. UNCHANGED Room!vars
  BY <1>1, <1>5, RoomKept DEF Room!vars
<1> QED
  BY <1>3, <1>4, <1>6

(* The program ends because a client has reset its connection or because   *)
(* there is no descriptor left.                                            *)
LEMMA RoomExit ==
    ASSUME RoomInv, pc # "exit", Exit,
           Away # {} \/ NOFILE - 5 <= Cardinality(Room!Inside)
    PROVE  [Room!Next]_(Room!vars) /\ Seated' /\ Speaking'
<1>1. /\ pc' = "exit" /\ UNCHANGED <<log, joined, peer, taken, out>>
      /\ link' = [c \in Clients |-> IF link[c] \in {"backlog", "open"}
                                    THEN "closed" ELSE link[c]]
      /\ fdt' = [fd \in Fds |-> Free]
  BY DEF Exit, CloseAll
<1>2. link \in [Clients -> {"new", "backlog", "open", "closed"}] /\ Free \notin Listeners
  BY SocketsAssumption DEF RoomInv, IInv, TypeOK
<1>3. Seated' /\ Speaking'
  BY <1>1, <1>2 DEF Seated, Speaking
<1>4. Said' = Said /\ Spoken' = Spoken /\ Told' = Told /\ Away' = Away
  BY <1>1, RoomKept
<1> DEFINE waiting == {c \in Clients : link[c] = "new"}
<1>5. waiting \in SUBSET {c \in Clients : Place[c] = "outside"}
  BY RoomValues DEF RoomInv
<1>6. Place' = [c \in Clients |-> IF c \in waiting THEN "outside" ELSE "gone"]
  BY <1>1, <1>2 DEF Place
<1>7. Away # {} \/ Room!Cardinality(Room!Inside) >= NOFILE - 5
  <2>1. Cardinality(Room!Inside) \in Nat /\ NOFILE - 5 \in Int
    BY InsideFinite, SocketsAssumption
  <2> QED
    BY <2>1, RoomCardinality
<1>8. Room!CloseDown
  BY <1>1, <1>4, <1>5, <1>6, <1>7 DEF Room!CloseDown
<1> QED
  BY <1>3, <1>8 DEF Room!Next

(* A sequence grows by one. *)
LEMMA GrowsByOne ==
    ASSUME NEW n \in Nat, NEW s, NEW t, DOMAIN s = 1 .. n, DOMAIN t = 1 .. (n + 1),
           s = [m \in 1 .. n |-> s[m]], t = [m \in 1 .. (n + 1) |-> t[m]],
           \A m \in 1 .. n : t[m] = s[m]
    PROVE  t = Append(s, t[n + 1])
<1> DEFINE S == {t[m] : m \in 1 .. (n + 1)}
<1>1. s \in Seq(S) /\ Len(s) = n /\ t \in Seq(S) /\ Len(t) = n + 1 /\ t[n + 1] \in S
  <2>1. \A m \in 1 .. (n + 1) : t[m] \in S
    OBVIOUS
  <2>2. t[n + 1] \in S /\ t \in [1 .. (n + 1) -> S] /\ s \in [1 .. n -> S]
    <3>1. n + 1 \in 1 .. (n + 1) /\ \A m \in 1 .. n : m \in 1 .. (n + 1)
      OBVIOUS
    <3>2. t[n + 1] \in S /\ \A m \in 1 .. n : s[m] \in S
      BY <2>1, <3>1
    <3> HIDE DEF S
    <3> QED
      BY <2>1, <3>2
  <2> HIDE DEF S
  <2>3. s \in Seq(S) /\ Len(s) = n
    BY ONLY <2>2, n \in Nat, DOMAIN s = 1 .. n
  <2>4. t \in Seq(S) /\ Len(t) = n + 1
    BY ONLY <2>2, n \in Nat, DOMAIN t = 1 .. (n + 1)
  <2> QED
    BY <2>2, <2>3, <2>4
<1> HIDE DEF S
<1>2. PICK e \in S : e = t[n + 1]
  BY <1>1
<1>3. /\ Append(s, e) \in Seq(S) /\ Len(Append(s, e)) = n + 1
      /\ \A m \in 1 .. n : Append(s, e)[m] = s[m]
      /\ Append(s, e)[n + 1] = e
  BY ONLY <1>1, e \in S, n \in Nat, AppendProperties
<1>4. \A m \in 1 .. (n + 1) : t[m] = Append(s, e)[m]
  <2>1. \A m \in 1 .. n : t[m] = s[m]
    OBVIOUS
  <2>2. \A m \in 1 .. (n + 1) : m \in 1 .. n \/ m = n + 1
    OBVIOUS
  <2> QED
    BY ONLY <1>2, <1>3, <2>1, <2>2, Zenon
<1>5. t = Append(s, e)
  BY <1>1, <1>3, <1>4, SeqEqual
<1> QED
  BY <1>2, <1>5

(* accept(): a client comes in. *)
LEMMA RoomAccept ==
    ASSUME RoomInv, AcceptCall
    PROVE  [Room!Next]_(Room!vars) /\ Seated' /\ Speaking'
<1> USE DEF RoomInv
<1> PICK n \in Nat : n = nTotalSockets
  BY DEF IInv, TypeOK, nTotalSockets
<1>1. /\ pc \in {"accept4", "accept6"} /\ pc' \in {"accept6", "scan"}
      /\ UNCHANGED <<rset, i, j, ptr, log>>
  BY DEF AcceptCall, AfterAccept
<1>2. PICK c \in Clients, fd \in Fds :
         /\ link[c] = "backlog" /\ fdt[fd] = Free
         /\ link' = [link EXCEPT ![c] = "open"] /\ fdt' = [fdt EXCEPT ![fd] = c]
         /\ UNCHANGED <<peer, sent, taken, out, got>>
         /\ SocketInfoArray' =
              Append(SocketInfoArray, [sock |-> fd, buf |-> <<>>, recvbytes |-> 0])
         /\ joined' = [joined EXCEPT ![c] = Len(log)]
  BY DEF AcceptCall, Accept, AddSocketInfo, Backlog, LowestFree
<1> DEFINE e == [sock |-> fd, buf |-> <<>>, recvbytes |-> 0]
<1>3. /\ link \in [Clients -> {"new", "backlog", "open", "closed"}]
      /\ fdt \in [Fds -> Clients \cup Listeners \cup {Free}]
      /\ SocketInfoArray \in Seq(SOCKETINFO)
      /\ Free \notin Clients /\ c \notin Listeners
  BY SocketsAssumption DEF IInv, TypeOK
<1>4. /\ nTotalSockets' = n + 1
      /\ \A k \in 1 .. n : SocketInfoArray'[k] = SocketInfoArray[k]
      /\ SocketInfoArray'[n + 1] = e
  <2>1. e \in SOCKETINFO
    BY DEF SOCKETINFO
  <2> QED
    BY <1>2, <1>3, <2>1, AppendProperties DEF nTotalSockets
<1>5. Seated'
  <2>1. ASSUME NEW d \in Clients, link'[d] = "open"
        PROVE  \E k \in 1 .. (n + 1) : fdt'[SocketInfoArray'[k].sock] = d
    <3>1. CASE d = c
      BY <1>2, <1>3, <1>4, <3>1
    <3>2. CASE d # c
      <4>1. PICK k \in 1 .. n : Owner(k) = d
        BY <1>2, <1>3, <2>1, <3>2 DEF Seated
      <4>2. SocketInfoArray[k].sock \in Fds
        BY RecordFacts
      <4>3. SocketInfoArray[k].sock # fd
        BY <1>2, <1>3, <4>1 DEF Owner
      <4>4. SocketInfoArray'[k].sock = SocketInfoArray[k].sock /\ k \in 1 .. (n + 1)
        BY <1>4
      <4>5. fdt'[SocketInfoArray[k].sock] = d
        BY <1>2, <1>3, <4>1, <4>2, <4>3 DEF Owner
      <4> QED
        BY <4>4, <4>5
    <3> QED
      BY <3>1, <3>2
  <2>2. \A f \in Fds : fdt'[f] \in Listeners => f \in {listenfd4, listenfd6}
    BY <1>2, <1>3 DEF Seated
  <2> QED
    BY <1>4, <2>1, <2>2 DEF Seated, Owner
<1>6. Speaking'
  BY <1>1 DEF Speaking
<1>7. Said' = Said /\ Spoken' = Spoken /\ Told' = Told /\ Away' = Away
  BY <1>1, <1>2, RoomKept
<1>8. (pc # "exit")' = (pc # "exit") /\ pc # "exit"
  BY <1>1
<1>9. Room!Silence
  BY <1>1, RoomSilent
<1>10. Place[c] = "outside" /\ Place' = [Place EXCEPT ![c] = "inside"]
  BY <1>2, RoomValues, PlaceChanges
<1>11. joined' = [joined EXCEPT ![c] = Len(Spoken)]
  BY <1>2, RoomValues
<1>12. Room!Join(c)
  BY <1>7, <1>8, <1>9, <1>10, <1>11 DEF Room!Join
<1> QED
  BY <1>5, <1>6, <1>12 DEF Room!Next

(* AddSocketInfo() fails: there is a client inside for every record. *)
LEMMA RoomRefuse ==
    ASSUME RoomInv, AcceptFull
    PROVE  [Room!Next]_(Room!vars) /\ Seated' /\ Speaking'
<1> USE DEF RoomInv
<1>1. /\ pc \in {"accept4", "accept6"} /\ pc' \in {"accept6", "scan"}
      /\ UNCHANGED <<SocketInfoArray, joined, log>> /\ nTotalSockets >= FD_SETSIZE
  BY DEF AcceptFull, AfterAccept
<1>2. PICK c \in Clients : /\ link[c] = "backlog" /\ link' = [link EXCEPT ![c] = "closed"]
                           /\ UNCHANGED <<peer, sent, taken, out, got, fdt>>
  BY DEF AcceptFull, AcceptAndClose, Backlog
<1>3. link \in [Clients -> {"new", "backlog", "open", "closed"}]
  BY DEF IInv, TypeOK
<1>4. Seated' /\ Speaking'
  <2>1. nTotalSockets' = nTotalSockets /\ \A k : Owner(k)' = Owner(k)
    BY <1>1, <1>2 DEF nTotalSockets, Owner
  <2> QED
    BY <1>1, <1>2, <1>3, <2>1 DEF Seated, Speaking
<1>5. Said' = Said /\ Spoken' = Spoken /\ Told' = Told /\ Away' = Away
  BY <1>1, <1>2, RoomKept
<1>6. (pc # "exit")' = (pc # "exit") /\ pc # "exit"
  BY <1>1
<1>7. Place[c] = "outside" /\ Place' = [Place EXCEPT ![c] = "gone"]
  BY <1>2, RoomValues, PlaceChanges
<1>8. Room!Cardinality(Room!Inside) >= FD_SETSIZE
  <2>1. nTotalSockets \in Nat /\ FD_SETSIZE \in Nat
    BY PrjAssumption DEF IInv, TypeOK, nTotalSockets
  <2> QED
    BY <1>1, <2>1, SeatsTaken, InsideFinite, RoomCardinality
<1>9. Room!TurnAway(c)
  BY <1>1, <1>5, <1>6, <1>7, <1>8 DEF Room!TurnAway
<1> QED
  BY <1>4, <1>9 DEF Room!Next

(* RemoveSocketInfo(): a client that is away leaves. *)
LEMMA RoomLeave ==
    ASSUME RoomInv, NEW k \in 1 .. nTotalSockets, RemoveSocketInfo(k), Owner(k) \in Away,
           UNCHANGED <<pc, log, joined>>,
           pc = "send" => ptr' = [ptr EXCEPT !.freed = @ \/ SocketInfoArray[k].sock = ptr.sock]
    PROVE  [Room!Next]_(Room!vars) /\ Seated' /\ Speaking'
<1> USE DEF RoomInv
<1>0. IInv
  OBVIOUS
<1> PICK n \in Nat : n = nTotalSockets
  BY ONLY <1>0 DEF IInv, TypeOK, nTotalSockets
<1> PICK fd \in Fds : fd = SocketInfoArray[k].sock
  BY RecordFacts
<1> PICK c \in Clients : c = fdt[fd] /\ c \in Away /\ link[c] = "open"
  BY RecordFacts DEF Owner
<1>1. /\ link' = [link EXCEPT ![c] = "closed"] /\ fdt' = [fdt EXCEPT ![fd] = Free]
      /\ UNCHANGED <<peer, sent, taken, out, got>>
  BY DEF RemoveSocketInfo, Close
<1>2. /\ link \in [Clients -> {"new", "backlog", "open", "closed"}]
      /\ fdt \in [Fds -> Clients \cup Listeners \cup {Free}] /\ Free \notin Listeners
      /\ ptr \in [sock: Fds \cup {0}, buf: Seq(Bytes), freed: BOOLEAN]
  BY SocketsAssumption DEF IInv, TypeOK
<1>3. pc # "exit" /\ (pc # "exit")' = (pc # "exit")
  BY RecordFacts
<1>4. /\ nTotalSockets' = n - 1
      /\ \A m \in 1 .. (n - 1) : \E o \in 1 .. n :
            /\ o = (IF m = k THEN n ELSE m)
            /\ Owner(m)' = Owner(o)
  <2>1. k \in 1 .. n /\ n = nTotalSockets /\ log' = log /\ joined' = joined /\ pc' # "exit"
    BY <1>3
  <2> QED
    BY <2>1, Removal
<1>5. Seated'
  <2>1. ASSUME NEW d \in Clients, link'[d] = "open"
        PROVE  \E m \in 1 .. (n - 1) : Owner(m)' = d
    <3>1. d # c /\ link[d] = "open"
      BY <1>1, <1>2, <2>1
    <3>2. PICK o \in 1 .. n : Owner(o) = d
      BY <3>1 DEF Seated
    <3>3. o # k
      BY <3>1, <3>2 DEF Owner
    <3>4. PICK m \in 1 .. (n - 1) : o = (IF m = k THEN n ELSE m)
      <4>1. CASE o = n
        BY <3>3, <4>1
      <4>2. CASE o # n
        BY <3>3, <4>2
      <4> QED
        BY <4>1, <4>2
    <3> QED
      BY <1>4, <3>2, <3>4
  <2>2. \A f \in Fds : fdt'[f] \in Listeners => f \in {listenfd4, listenfd6}
    BY <1>1, <1>2 DEF Seated
  <2> QED
    BY <1>4, <2>1, <2>2 DEF Seated
<1>6. Speaking'
  <2> SUFFICES ASSUME pc = "send"
               PROVE  \E s \in Clients :
                         /\ s = log[Len(log)][1][1]
                         /\ IF ptr'.freed THEN link'[s] = "closed"
                            ELSE ptr'.sock \in Fds /\ fdt'[ptr'.sock] = s
    BY DEF Speaking
  <2>1. PICK s \in Clients : /\ s = log[Len(log)][1][1]
                             /\ IF ptr.freed THEN link[s] = "closed"
                                ELSE ptr.sock \in Fds /\ fdt[ptr.sock] = s
    BY DEF Speaking
  <2>2. ptr'.freed = (ptr.freed \/ fd = ptr.sock) /\ ptr'.sock = ptr.sock
    BY <1>2
  <2>3. CASE ptr.freed
    <3>1. link'[s] = "closed"
      BY <1>1, <1>2, <2>1, <2>3
    <3> QED
      BY <2>1, <2>2, <2>3, <3>1
  <2>4. CASE ~ ptr.freed /\ fd = ptr.sock
    <3>1. link'[s] = "closed"
      BY <1>1, <1>2, <2>1, <2>4
    <3> QED
      BY <2>1, <2>2, <2>4, <3>1
  <2>5. CASE ~ ptr.freed /\ fd # ptr.sock
    <3>1. ptr.sock \in Fds /\ fdt'[ptr.sock] = s
      BY <1>1, <1>2, <2>1, <2>5
    <3> QED
      BY <2>1, <2>2, <2>5, <3>1
  <2> QED
    BY <2>3, <2>4, <2>5
<1>7. Said' = Said /\ Spoken' = Spoken /\ Told' = Told /\ Away' = Away
  BY <1>1, RoomKept
<1>8. Place[c] = "inside" /\ Place' = [Place EXCEPT ![c] = "gone"]
  BY <1>1, RoomValues, PlaceChanges
<1>9. Room!Leave(c)
  BY <1>3, <1>7, <1>8 DEF Room!Leave
<1> QED
  BY <1>5, <1>6, <1>9 DEF Room!Next

(* The message that recv() completes is the next one of its sender. *)
LEMMA Complete ==
    ASSUME IInv, NEW k \in 1 .. nTotalSockets, NEW c \in Clients, c = Owner(k),
           NEW b \in Nat, SocketInfoArray[k].recvbytes + b = BUFSIZE,
           NEW buf, buf = Assembled(SocketInfoArray[k], c, b),
           NEW q \in Nat, q = Count(log, c, Len(log))
    PROVE  /\ taken[c] = BUFSIZE * q + SocketInfoArray[k].recvbytes
           /\ buf = Chunk(c, BUFSIZE * q, BUFSIZE)
           /\ buf \in Seq(Bytes)
           /\ buf[1][1] = c
<1> PICK info \in SOCKETINFO : info = SocketInfoArray[k]
  BY RecordFacts
<1>0. Len(log) \in Nat /\ BUFSIZE \in Nat /\ BUFSIZE > 0
  BY ListenersApart DEF IInv, TypeOK
<1> PICK before \in Nat : before = BUFSIZE * q
  BY <1>0
<1>1. /\ info.buf \in Seq(Bytes) /\ info.recvbytes \in Nat
      /\ info.recvbytes <= Len(info.buf) /\ info.recvbytes + b = BUFSIZE
  BY RecordFacts DEF SOCKETINFO
<1>2. /\ taken[c] = before + info.recvbytes
      /\ \A m \in 1 .. info.recvbytes : info.buf[m] = <<c, before + m>>
  BY DEF IInv, Collected
<1>3. buf = Chunk(c, before, BUFSIZE)
  <2>1. SubSeq(info.buf, 1, info.recvbytes) \o Chunk(c, before + info.recvbytes, b)
          = Chunk(c, before, info.recvbytes + b)
    BY ONLY <1>1, <1>2, Gathered, c \in Clients, before \in Nat, b \in Nat, ZenonT(60)
  <2>2. buf = SubSeq(info.buf, 1, info.recvbytes) \o Chunk(c, taken[c], b)
    BY DEF Assembled
  <2> QED
    BY ONLY <1>1, <1>2, <2>1, <2>2
<1>4. /\ buf \in Seq(Bytes)
      /\ \A m \in 1 .. BUFSIZE : buf[m] = <<c, before + m>>
  BY ONLY <1>0, <1>3, ChunkType, c \in Clients, before \in Nat, ZenonT(60)
<1>5. taken[c] = BUFSIZE * q + SocketInfoArray[k].recvbytes
  BY <1>2
<1>6. buf = Chunk(c, BUFSIZE * q, BUFSIZE)
  BY <1>3
<1>7. buf[1][1] = c
  BY <1>0, <1>4, SMTT(60)
<1> QED
  BY <1>4, <1>5, <1>6, <1>7

(* What recv() does to the records leaves the sockets in place. *)
LEMMA SocketsInPlace ==
    ASSUME IInv, IInv', NEW k \in 1 .. nTotalSockets, NEW x, NEW y,
           SocketInfoArray' = [SocketInfoArray EXCEPT ![k].buf = x, ![k].recvbytes = y],
           fdt' = fdt
    PROVE  /\ nTotalSockets' = nTotalSockets
           /\ \A m \in 1 .. nTotalSockets : Owner(m)' = Owner(m)
<1> PICK s \in Seq(SOCKETINFO) : s = SocketInfoArray
  BY DEF IInv, TypeOK
<1> PICK t \in Seq(SOCKETINFO) : t = SocketInfoArray'
  BY DEF IInv, TypeOK
<1>1. k \in 1 .. Len(s) /\ t = [s EXCEPT ![k].buf = x, ![k].recvbytes = y]
  BY DEF nTotalSockets
<1>2. DOMAIN t = DOMAIN s
  BY ONLY <1>1
<1>3. Len(t) = Len(s)
  BY ONLY <1>2, s \in Seq(SOCKETINFO), t \in Seq(SOCKETINFO)
<1>4. \A m \in 1 .. Len(s) : t[m].sock = s[m].sock
  BY ONLY <1>1, s \in Seq(SOCKETINFO), SMTT(60) DEF SOCKETINFO
<1> QED
  BY <1>3, <1>4 DEF nTotalSockets, Owner

(* recv() of a part of a message: the room does not notice. *)
LEMMA RoomPart ==
    ASSUME RoomInv, IInv', NEW k \in 1 .. nTotalSockets, NEW c \in Clients, c = Owner(k),
           pc = "scan", NEW b \in Nat, SocketInfoArray[k].recvbytes + b < BUFSIZE, Take(c, b),
           NEW x, NEW y,
           SocketInfoArray' = [SocketInfoArray EXCEPT ![k].buf = x, ![k].recvbytes = y],
           UNCHANGED <<pc, log, joined>>
    PROVE  [Room!Next]_(Room!vars) /\ Seated' /\ Speaking'
<1> USE DEF RoomInv
<1>0. IInv
  OBVIOUS
<1>1. taken' = [taken EXCEPT ![c] = @ + b] /\ UNCHANGED <<link, peer, sent, out, got, fdt>>
  BY DEF Take
<1>2. /\ nTotalSockets' = nTotalSockets
      /\ \A m \in 1 .. nTotalSockets : Owner(m)' = Owner(m)
  BY <1>1, SocketsInPlace
<1>3. Seated' /\ Speaking'
  BY <1>1, <1>2 DEF Seated, Speaking
<1>4. Said' = Said
  <2>1. taken \in [Clients -> Nat] /\ BUFSIZE \in Nat /\ BUFSIZE > 0 /\ Len(log) \in Nat
    <3>1. TypeOK /\ SocketsTyped(ChatBytes)
      BY <1>0, Zenon DEF IInv
    <3>2. taken \in [Clients -> Nat]
      BY ONLY <3>1, Zenon DEF SocketsTyped
    <3>3. log \in Seq(Seq(Bytes))
      BY ONLY <3>1, Zenon DEF TypeOK
    <3> QED
      BY ONLY <3>2, <3>3, ListenersApart
  <2>2. PICK q \in Nat : q = Count(log, c, Len(log))
    BY <2>1, CountFinite
  <2>3. PICK r \in Nat : r = SocketInfoArray[k].recvbytes /\ taken[c] = BUFSIZE * q + r
    BY <2>2, RecordFacts DEF IInv, Collected
  <2>4. r < BUFSIZE /\ r + b < BUFSIZE /\ r + b \in Nat /\ BUFSIZE * q \in Nat
    BY <2>1, <2>3, SMTT(60)
  <2>5. taken'[c] = BUFSIZE * q + (r + b)
    <3>1. taken'[c] = taken[c] + b
      BY <1>1, <2>1
    <3> QED
      BY ONLY <2>3, <2>4, <3>1, b \in Nat, r \in Nat
  <2>6. taken'[c] \div BUFSIZE = q /\ taken[c] \div BUFSIZE = q
    BY ONLY <2>1, <2>3, <2>4, <2>5, WholeMessagesIn, q \in Nat, r \in Nat
  <2>7. \A d \in Clients : taken'[d] \div BUFSIZE = taken[d] \div BUFSIZE
    BY <1>1, <2>1, <2>6
  <2> QED
    BY <2>7 DEF Said
<1>5. (pc # "exit")' = (pc # "exit")
  OBVIOUS
<1>6. UNCHANGED Room!vars
  BY <1>1, <1>4, <1>5, RoomKept DEF Room!vars
<1> QED
  BY <1>3, <1>6

(* recv() of the rest of a message: its sender speaks. *)
LEMMA RoomSpeaks ==
    ASSUME RoomInv, IInv', NEW k \in 1 .. nTotalSockets, NEW c \in Clients, c = Owner(k),
           pc = "scan", NEW b \in Nat, SocketInfoArray[k].recvbytes + b = BUFSIZE, Take(c, b),
           NEW buf, buf = Assembled(SocketInfoArray[k], c, b), NEW y,
           SocketInfoArray' = [SocketInfoArray EXCEPT ![k].buf = buf, ![k].recvbytes = y],
           pc' = "send", log' = Append(log, buf), joined' = joined,
           ptr' = [sock |-> SocketInfoArray[k].sock, buf |-> buf, freed |-> FALSE]
    PROVE  [Room!Next]_(Room!vars) /\ Seated' /\ Speaking'
<1> USE DEF RoomInv
<1>0. IInv
  OBVIOUS
<1>1. taken' = [taken EXCEPT ![c] = @ + b] /\ UNCHANGED <<link, peer, sent, out, got, fdt>>
  BY DEF Take
<1>2. /\ nTotalSockets' = nTotalSockets
      /\ \A m \in 1 .. nTotalSockets : Owner(m)' = Owner(m)
  BY <1>1, SocketsInPlace
<1> PICK n \in Nat : n = Len(log)
  BY ONLY <1>0 DEF IInv, TypeOK
<1> PICK q \in Nat : q = Count(log, c, Len(log))
  BY CountFinite
<1>3. /\ taken[c] = BUFSIZE * q + SocketInfoArray[k].recvbytes
      /\ buf = Chunk(c, BUFSIZE * q, BUFSIZE)
      /\ buf \in Seq(Bytes)
      /\ buf[1][1] = c
  BY Complete
<1>4. /\ Len(log') = n + 1 /\ log'[n + 1] = buf
      /\ \A m \in 1 .. n : log'[m] = log[m]
  <2>1. log \in Seq(Seq(Bytes))
    BY DEF IInv, TypeOK
  <2> QED
    BY <1>3, <2>1, AppendProperties
<1>5. buf[1][1] = c
  BY <1>3
<1>6. Seated'
  BY <1>1, <1>2 DEF Seated
<1>7. Speaking'
  <2>1. SocketInfoArray[k].sock \in Fds /\ fdt[SocketInfoArray[k].sock] = c
    BY RecordFacts DEF Owner
  <2> QED
    BY <1>1, <1>4, <1>5, <2>1 DEF Speaking
<1>8. Told' = Told /\ Away' = Away /\ Place' = Place
  BY <1>1, RoomKept
<1>9. Said[c] = q /\ Said' = [Said EXCEPT ![c] = @ + 1]
  <2>1. taken \in [Clients -> Nat] /\ BUFSIZE \in Nat /\ BUFSIZE > 0
    BY ListenersApart DEF IInv, TypeOK, SocketsTyped
  <2>2. PICK r \in Nat : r = SocketInfoArray[k].recvbytes /\ r < BUFSIZE
    BY RecordFacts
  <2>3. taken[c] = BUFSIZE * q + r /\ taken'[c] = BUFSIZE * (q + 1) + 0
    <3>1. taken'[c] = taken[c] + b /\ taken[c] = BUFSIZE * q + r /\ r + b = BUFSIZE
      BY <1>1, <1>3, <2>1, <2>2
    <3>2. BUFSIZE * q \in Nat /\ BUFSIZE * (q + 1) = BUFSIZE * q + BUFSIZE
      BY ONLY <2>1, WholeNumber, q \in Nat
    <3> QED
      BY ONLY <2>1, <3>1, <3>2, b \in Nat, r \in Nat
  <2>4. taken[c] \div BUFSIZE = q
    BY ONLY <2>1, <2>2, <2>3, WholeMessagesIn, q \in Nat, r \in Nat
  <2>5. taken'[c] \div BUFSIZE = q + 1
    <3>1. q + 1 \in Nat /\ 0 \in Nat /\ 0 < BUFSIZE
      BY <2>1
    <3> QED
      BY ONLY <2>1, <2>3, <3>1, WholeMessagesIn
  <2>6. \A d \in Clients : d # c => taken'[d] = taken[d]
    BY <1>1, <2>1
  <2> QED
    BY <2>4, <2>5, <2>6 DEF Said
<1>10. Spoken' = Append(Spoken, [from |-> c, text |-> Text[c][Said[c] + 1]])
  <2>1. /\ DOMAIN Spoken = 1 .. n /\ Spoken = [m \in 1 .. n |-> Spoken[m]]
        /\ DOMAIN Spoken' = 1 .. (n + 1) /\ Spoken' = [m \in 1 .. (n + 1) |-> Spoken'[m]]
    BY <1>4 DEF Spoken
  <2>2. \A m \in 1 .. n : Spoken'[m] = Spoken[m]
    BY <1>4 DEF Spoken
  <2>3. Spoken' = Append(Spoken, Spoken'[n + 1])
    BY ONLY <2>1, <2>2, GrowsByOne, n \in Nat
  <2>4. Spoken'[n + 1] = [from |-> c, text |-> buf]
    BY <1>4, <1>5 DEF Spoken
  <2>5. Text[c][q + 1] = buf
    <3>1. q + 1 \in Nat /\ q + 1 - 1 = q
      OBVIOUS
    <3> QED
      BY <1>3, <3>1 DEF Text
  <2> QED
    BY <1>9, <2>3, <2>4, <2>5
<1>11. Room!Silence
  BY RoomSilent
<1>12. Place[c] = "inside"
  BY RecordFacts, RoomValues
<1>13. (pc # "exit")' = (pc # "exit") /\ pc # "exit"
  OBVIOUS
<1>14. Room!Speak(c)
  BY <1>8, <1>9, <1>10, <1>11, <1>12, <1>13 DEF Room!Speak
<1> QED
  BY <1>6, <1>7, <1>14 DEF Room!Next

(* recv() in the data loop: a client speaks, leaves or does neither. *)
LEMMA RoomRecv ==
    ASSUME RoomInv, IInv', NEW k \in 1 .. nTotalSockets, RecvCall(k)
    PROVE  [Room!Next]_(Room!vars) /\ Seated' /\ Speaking'
<1>0. IInv
  BY DEF RoomInv
<1> PICK info \in SOCKETINFO : info = SocketInfoArray[k]
  BY <1>0, RecordFacts
<1> PICK c \in Clients : c = Owner(k)
  BY <1>0, RecordFacts
<1>1. /\ info.recvbytes \in Nat /\ BUFSIZE \in Nat /\ pc = "scan"
      /\ UNCHANGED <<rset, joined>>
  BY <1>0, RecordFacts, ListenersApart DEF RecvCall, Scanning
<1>2. CASE /\ RecvEof(c) \/ RecvError(c)
           /\ RemoveSocketInfo(k)
           /\ UNCHANGED <<pc, log>>
  <2>1. Owner(k) \in Away
    BY <1>2 DEF RecvEof, RecvError, Away
  <2>2. RoomInv /\ RemoveSocketInfo(k) /\ UNCHANGED <<pc, log, joined>> /\ pc # "send"
    BY <1>1, <1>2
  <2> QED
    BY ONLY <2>1, <2>2, RoomLeave, k \in 1 .. nTotalSockets
<1>3. ASSUME NEW b \in 1 .. (BUFSIZE - info.recvbytes),
             RecvReturns(c, b), Take(c, b),
             SocketInfoArray' =
                [SocketInfoArray EXCEPT
                   ![k].buf = Assembled(info, c, b),
                   ![k].recvbytes = IF info.recvbytes + b = BUFSIZE THEN 0 ELSE @ + b],
             IF info.recvbytes + b = BUFSIZE
             THEN /\ pc' = "send"
                  /\ j' = 1
                  /\ ptr' = [sock |-> info.sock, buf |-> Assembled(info, c, b), freed |-> FALSE]
                  /\ log' = Append(log, Assembled(info, c, b))
                  /\ i' = i
             ELSE i' = i + 1 /\ UNCHANGED <<pc, j, ptr, log>>
      PROVE  [Room!Next]_(Room!vars) /\ Seated' /\ Speaking'
  <2>1. b \in Nat
    BY <1>1, <1>3
  <2>2. PICK buf : buf = Assembled(SocketInfoArray[k], c, b)
    OBVIOUS
  <2>3. PICK y : SocketInfoArray' =
                   [SocketInfoArray EXCEPT ![k].buf = buf, ![k].recvbytes = y]
    <3>1. CASE info.recvbytes + b = BUFSIZE
      BY <1>3, <2>2, <3>1
    <3>2. CASE info.recvbytes + b # BUFSIZE
      BY <1>3, <2>2, <3>2
    <3> QED
      BY <3>1, <3>2
  <2>4. CASE info.recvbytes + b = BUFSIZE
    <3>1. /\ RoomInv /\ IInv' /\ c = Owner(k) /\ pc = "scan" /\ Take(c, b)
          /\ SocketInfoArray[k].recvbytes + b = BUFSIZE
          /\ pc' = "send" /\ log' = Append(log, buf) /\ joined' = joined
          /\ ptr' = [sock |-> SocketInfoArray[k].sock, buf |-> buf, freed |-> FALSE]
      BY <1>1, <1>3, <2>2, <2>4
    <3> QED
      BY ONLY <2>1, <2>2, <2>3, <3>1, RoomSpeaks, k \in 1 .. nTotalSockets, c \in Clients
  <2>5. CASE info.recvbytes + b # BUFSIZE
    <3>1. SocketInfoArray[k].recvbytes + b < BUFSIZE
      BY <1>1, <2>1, <2>5
    <3>2. UNCHANGED <<pc, log, joined>>
      BY <1>1, <1>3, <2>5
    <3>3. RoomInv /\ IInv' /\ c = Owner(k) /\ pc = "scan" /\ Take(c, b)
      BY <1>1, <1>3
    <3> QED
      BY ONLY <2>1, <2>3, <3>1, <3>2, <3>3, RoomPart, k \in 1 .. nTotalSockets, c \in Clients
  <2> QED
    BY <2>4, <2>5
<1> QED
  BY <1>2, <1>3 DEF RecvCall

(* send(): a client hears the last message, or garbage in its place when   *)
(* the sender has gone.                                                    *)
LEMMA RoomHears ==
    ASSUME RoomInv, pc = "send", NEW k \in 1 .. nTotalSockets, j = k,
           NEW c \in Clients, c = Owner(k),
           NEW bytes \in Contents, Give(c, bytes),
           UNCHANGED <<SocketInfoArray, ptr, pc, log, joined>>
    PROVE  [Room!Next]_(Room!vars) /\ Seated' /\ Speaking'
<1>0. IInv /\ Seated /\ Speaking
  BY DEF RoomInv
<1>1. out' = [out EXCEPT ![c] = @ \o bytes] /\ UNCHANGED <<link, peer, sent, taken, got, fdt>>
  BY DEF Give
<1>2. nTotalSockets' = nTotalSockets /\ \A m : Owner(m)' = Owner(m)
  BY <1>1 DEF nTotalSockets, Owner
<1>3. Seated' /\ Speaking'
  BY <1>0, <1>1, <1>2 DEF Seated, Speaking
<1>4. Said' = Said /\ Spoken' = Spoken /\ Away' = Away /\ Place' = Place
  BY <1>1, RoomKept
<1>5. /\ bytes \in Seq(ChatBytes) /\ Len(bytes) = BUFSIZE
      /\ bytes \in {log[Len(log)], [m \in 1 .. BUFSIZE |-> Garbage]}
  BY <1>0, ContentsAre
<1>6. /\ out \in [Clients -> Seq(ChatBytes)]
      /\ \A d \in Clients : d # c => out'[d] = out[d]
      /\ out'[c] = out[c] \o bytes
  BY <1>0, <1>1 DEF IInv, TypeOK
<1>7. PICK r \in Nat : r = Received(c) /\ Len(out[c]) = BUFSIZE * r
  BY <1>0, RoomValues DEF IInv, Deliveries
<1>8. /\ Received(c)' = r + 1
      /\ Message(c, r + 1)' = bytes
      /\ \A q \in 1 .. r : Message(c, q)' = Message(c, q)
  <2>1. /\ out[c] \in Seq(ChatBytes) /\ r = Received(c)
        /\ bytes \in Seq(ChatBytes) /\ Len(bytes) = BUFSIZE
    BY <1>5, <1>6, <1>7
  <2> QED
    BY ONLY <1>6, <1>7, <2>1, GivenNext
<1>9. \A d \in Clients : d # c =>
         Received(d)' = Received(d) /\ \A q : Message(d, q)' = Message(d, q)
  BY <1>6, GivenSame
<1>10. Told' = [Told EXCEPT ![c] = Append(@, bytes)]
  <2>1. Told[c] = [q \in 1 .. r |-> Message(c, q)]
    BY <1>7 DEF Told
  <2>2. Told'[c] = [q \in 1 .. (r + 1) |-> Message(c, q)']
    BY <1>8 DEF Told
  <2>3. /\ DOMAIN Told[c] = 1 .. r /\ Told[c] = [q \in 1 .. r |-> Told[c][q]]
        /\ DOMAIN Told'[c] = 1 .. (r + 1)
        /\ Told'[c] = [q \in 1 .. (r + 1) |-> Told'[c][q]]
    BY <2>1, <2>2
  <2>4. \A q \in 1 .. r : Told'[c][q] = Told[c][q]
    BY <1>8, <2>1, <2>2
  <2>5. Told'[c][r + 1] = bytes
    BY <1>8, <2>2
  <2>6. PICK s : s = Told[c]
    OBVIOUS
  <2>7. PICK t : t = Told'[c]
    OBVIOUS
  <2>8. t = Append(s, t[r + 1])
    <3>1. /\ DOMAIN s = 1 .. r /\ s = [q \in 1 .. r |-> s[q]]
          /\ DOMAIN t = 1 .. (r + 1) /\ t = [q \in 1 .. (r + 1) |-> t[q]]
          /\ \A q \in 1 .. r : t[q] = s[q]
      BY ONLY <2>3, <2>4, <2>6, <2>7, Zenon
    <3> QED
      BY ONLY <3>1, GrowsByOne, r \in Nat, ZenonT(60)
  <2>9. Told'[c] = Append(Told[c], bytes)
    BY ONLY <2>5, <2>6, <2>7, <2>8
  <2>10. \A d \in Clients : d # c => Told'[d] = Told[d]
    BY <1>9 DEF Told
  <2>11. /\ Told = [d \in Clients |-> Told[d]] /\ Told' = [d \in Clients |-> Told'[d]]
    BY DEF Told
  <2> QED
    BY ONLY <2>9, <2>10, <2>11
<1>11. Len(log) \in Nat /\ Len(log) > 0 /\ ptr.buf = log[Len(log)]
  BY <1>0 DEF IInv, TypeOK, Broadcasting
<1>12. Room!Heard(c) = Len(log) - 1
  <2>1. joined[c] + Received(c) = Len(log) - 1
    <3>1. k >= j /\ pc = "send"
      OBVIOUS
    <3> QED
      BY <1>0, <3>1 DEF IInv, CaughtUp
  <2> QED
    BY <1>0, <2>1, RoomValues
<1>13. Room!Heard(c) < Len(Spoken) /\ Room!Heard(c) + 1 = Len(log)
  BY <1>0, <1>11, <1>12, RoomValues
<1>14. Spoken[Len(log)] = [from |-> log[Len(log)][1][1], text |-> log[Len(log)]]
  BY <1>11 DEF Spoken
<1>15. /\ bytes \in {Spoken[Len(log)].text, [m \in 1 .. BUFSIZE |-> Garbage]}
       /\ bytes # Spoken[Len(log)].text => Place[Spoken[Len(log)].from] = "gone"
  <2>1. bytes # log[Len(log)] => Place[log[Len(log)][1][1]] = "gone"
    <3> SUFFICES ASSUME bytes # log[Len(log)] PROVE Place[log[Len(log)][1][1]] = "gone"
      OBVIOUS
    <3>1. ptr.freed = TRUE
      BY <1>11 DEF Contents
    <3>2. PICK s \in Clients : s = log[Len(log)][1][1] /\ link[s] = "closed"
      BY <1>0, <3>1 DEF Speaking
    <3> QED
      BY <1>0, <3>2, RoomValues
  <2> QED
    BY <1>5, <1>14, <2>1
<1>16. Place[c] = "inside"
  BY <1>0, RecordFacts, RoomValues
<1>17. (pc # "exit")' = (pc # "exit") /\ pc # "exit"
  OBVIOUS
<1>18. Room!Hear(c)
  BY <1>4, <1>10, <1>13, <1>15, <1>16, <1>17 DEF Room!Hear
<1> QED
  BY <1>3, <1>18 DEF Room!Next

(* send() in the broadcast loop. *)
LEMMA RoomSend ==
    ASSUME RoomInv, NEW k \in 1 .. nTotalSockets, SendCall(k)
    PROVE  [Room!Next]_(Room!vars) /\ Seated' /\ Speaking'
<1> PICK c \in Clients : c = Owner(k)
  BY RecordFacts DEF RoomInv
<1>1. pc = "send" /\ j = k /\ UNCHANGED <<pc, rset, i, log, joined>>
  BY DEF SendCall
<1>2. ASSUME NEW bytes \in Contents, Give(c, bytes), UNCHANGED <<SocketInfoArray, ptr>>
      PROVE  [Room!Next]_(Room!vars) /\ Seated' /\ Speaking'
  BY <1>1, <1>2, RoomHears
<1>3. ASSUME SendError(c), RemoveSocketInfo(k),
             ptr' = [ptr EXCEPT !.freed = @ \/ SocketInfoArray[k].sock = ptr.sock]
      PROVE  [Room!Next]_(Room!vars) /\ Seated' /\ Speaking'
  <2>1. Owner(k) \in Away
    BY <1>3 DEF SendError, Away
  <2> QED
    BY <1>1, <1>3, <2>1, RoomLeave
<1> QED
  BY <1>2, <1>3 DEF SendCall

LEMMA RoomInit == Init => Room!Init /\ Seated /\ Speaking
<1> SUFFICES ASSUME Init PROVE Room!Init /\ Seated /\ Speaking
  OBVIOUS
<1>1. IInv
  BY InitIInv
<1>2. /\ link = [c \in Clients |-> "new"] /\ peer = [c \in Clients |-> "up"]
      /\ taken = [c \in Clients |-> 0] /\ out = [c \in Clients |-> <<>>]
      /\ pc = "select" /\ log = <<>> /\ joined = [c \in Clients |-> 0]
  BY DEF Init, SocketsInit
<1>3. Seated
  <2>1. \A f \in Fds : fdt[f] \in Listeners => f \in {listenfd4, listenfd6}
    <3> DEFINE h == [l \in Listeners |-> IF l = listen_sock4 THEN listenfd4 ELSE listenfd6]
    <3>1. fdt = [fd \in Fds |-> IF \E l \in Listeners : h[l] = fd
                                THEN CHOOSE l \in Listeners : h[l] = fd ELSE Free]
      BY DEF Init, SocketsInit
    <3>2. \A l \in Listeners : h[l] \in {listenfd4, listenfd6}
      OBVIOUS
    <3>3. Free \notin Listeners
      BY SocketsAssumption
    <3> HIDE DEF h
    <3> QED
      BY <3>1, <3>2, <3>3
  <2> QED
    BY <1>2, <2>1 DEF Seated
<1>4. Speaking
  BY <1>2 DEF Speaking
<1>5. Place = [c \in Clients |-> "outside"] /\ Away = {}
  BY <1>2 DEF Place, Away
<1>6. Said = [c \in Clients |-> 0]
  <2>1. 0 \div BUFSIZE = 0
    BY ListenersApart
  <2> QED
    BY <1>2, <2>1 DEF Said
<1>7. Spoken = <<>>
  BY <1>2 DEF Spoken
<1>8. Told = [c \in Clients |-> <<>>]
  <2>1. 0 \div BUFSIZE = 0
    BY ListenersApart
  <2>2. \A c \in Clients : Received(c) = 0
    BY <1>2, <2>1 DEF Received
  <2>3. \A c \in Clients : Told[c] = <<>>
    BY <2>2 DEF Told
  <2> QED
    BY <2>3 DEF Told
<1>9. (pc # "exit") = TRUE
  BY <1>2
<1>10. Room!Init
  BY <1>2, <1>5, <1>6, <1>7, <1>8, <1>9 DEF Room!Init
<1> QED
  BY <1>3, <1>4, <1>10

LEMMA RoomStep ==
    ASSUME RoomInv, [Next]_vars
    PROVE  [Room!Next]_(Room!vars) /\ RoomInv'
<1>0. IInv /\ IInv'
  BY StepIInv DEF RoomInv
<1> SUFFICES [Room!Next]_(Room!vars) /\ Seated' /\ Speaking'
  BY <1>0 DEF RoomInv
<1>1. CASE SelectCall
  <2>1. /\ UNCHANGED <<sockets, SocketInfoArray, log, joined>>
        /\ pc # "exit" /\ pc' # "exit" /\ pc' # "send"
    BY <1>1 DEF SelectCall
  <2> QED
    BY <2>1, RoomControl
<1>2. CASE AcceptCall
  BY <1>2, RoomAccept
<1>3. CASE AcceptFull
  BY <1>3, RoomRefuse
<1>4. CASE AcceptBreaks
  <2>1. pc # "exit" /\ Exit
    BY <1>4 DEF AcceptBreaks
  <2>2. Away # {} \/ NOFILE - 5 <= Cardinality(Room!Inside)
    <3>1. CASE NoFreeFd
      BY <2>1, <3>1, DoorsTaken DEF RoomInv
    <3>2. CASE ~ NoFreeFd
      BY <1>4, <3>2 DEF AcceptBreaks, AcceptFails, Away, Backlog
    <3> QED
      BY <3>1, <3>2
  <2> QED
    BY <2>1, <2>2, RoomExit
<1>5. CASE ScanEnds \/ SendEnds
  <2>1. /\ UNCHANGED <<sockets, SocketInfoArray, log, joined>>
        /\ pc # "exit" /\ pc' # "exit" /\ pc' # "send"
    BY <1>5 DEF ScanEnds, SendEnds
  <2> QED
    BY <2>1, RoomControl
<1>6. ASSUME NEW k \in 1 .. nTotalSockets, RecvCall(k)
      PROVE  [Room!Next]_(Room!vars) /\ Seated' /\ Speaking'
  BY <1>0, <1>6, RoomRecv
<1>7. ASSUME NEW k \in 1 .. nTotalSockets, Skip(k)
      PROVE  [Room!Next]_(Room!vars) /\ Seated' /\ Speaking'
  <2>1. /\ UNCHANGED <<sockets, SocketInfoArray, log, joined>>
        /\ pc # "exit" /\ pc' # "exit" /\ pc' # "send"
    BY <1>7 DEF Skip, Scanning
  <2> QED
    BY <2>1, RoomControl
<1>8. ASSUME NEW k \in 1 .. nTotalSockets, SendCall(k)
      PROVE  [Room!Next]_(Room!vars) /\ Seated' /\ Speaking'
  BY <1>8, RoomSend
<1>9. ASSUME NEW k \in 1 .. nTotalSockets, SendKills(k)
      PROVE  [Room!Next]_(Room!vars) /\ Seated' /\ Speaking'
  <2>1. pc # "exit" /\ Exit /\ SendError(Owner(k))
    BY <1>9 DEF SendKills
  <2>2. Owner(k) \in Away
    BY <1>0, <2>1, RecordFacts DEF SendError, Away
  <2> QED
    BY <2>1, <2>2, RoomExit
<1>10. CASE Environment
  BY <1>10, RoomEnvironment
<1>11. CASE UNCHANGED vars
  <2>1. UNCHANGED <<pc, SocketInfoArray, ptr, log, joined, link, peer, taken, out, fdt>>
    BY <1>11 DEF vars, server, sockets
  <2>2. nTotalSockets' = nTotalSockets /\ \A m : Owner(m)' = Owner(m)
    BY <2>1 DEF nTotalSockets, Owner
  <2>3. Seated' /\ Speaking'
    BY <2>1, <2>2 DEF RoomInv, Seated, Speaking
  <2>4. (pc # "exit")' = (pc # "exit")
    BY <2>1
  <2>5. UNCHANGED Room!vars
    BY <2>1, <2>4, RoomKept DEF Room!vars
  <2> QED
    BY <2>3, <2>5
<1> QED
  BY <1>1, <1>2, <1>3, <1>4, <1>5, <1>6, <1>7, <1>8, <1>9, <1>10, <1>11 DEF Next, Server

(* No open connection is ever without its record, so that none is left out *)
(* of a broadcast, and the descriptors that are not free are the two       *)
(* listeners' and the clients'.                                            *)
THEOREM NobodyForgotten == Spec => []RoomInv
<1>1. Init => RoomInv
  BY InitIInv, RoomInit DEF RoomInv
<1>2. RoomInv /\ [Next]_vars => RoomInv'
  BY RoomStep
<1> QED
  BY <1>1, <1>2, PTL DEF Spec

(* The server is the chat room of ChatRoom, for any number of clients and  *)
(* any size of the messages, the record array and the descriptor table.    *)
THEOREM RefinesChat == Spec => ImplementsChat
<1>1. Init => Room!Init
  BY RoomInit
<1>2. RoomInv /\ [Next]_vars => [Room!Next]_(Room!vars)
  BY RoomStep
<1> QED
  BY <1>1, <1>2, NobodyForgotten, PTL DEF Spec, ImplementsChat, Room!Spec
=============================================================================
