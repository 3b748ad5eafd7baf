-------------------------- MODULE Clients_proofs ----------------------------
(***************************************************************************)
(* Proofs about the clients: the chat client, the echo clients, UDP echo   *)
(* and message framing, for any number of texts, lines, messages and       *)
(* pieces and any size of the messages and of the buffers in between; and  *)
(* about the run of MCClients, which is one run of each.                   *)
(*                                                                         *)
(* Chat client.  The right to touch g_chatmsg goes round from the dialog   *)
(* by g_hWriteEvent to WriteThread and by g_hReadEvent back.  That the     *)
(* threads are started once, so that no second WriteThread can come, rests *)
(* on the dialog, which spins until the connect button is disabled.        *)
(***************************************************************************)
EXTENDS MCClients, FiniteSetTheorems, TLAPS

(* Before ClientMain has started WriteThread there is none, and while the  *)
(* connect button is enabled and the dialog does not handle that very      *)
(* click, ClientMain has not been started.                                 *)
StartedOnce ==
    /\ main \in {"none", "connect", "box"} => writer = "none" /\ reader = "none"
    /\ connectable => ~ buttons /\ dialog \in {"idle", "spin", "enable", "exit"}
    /\ connectable /\ dialog = "idle" => main = "none"
    /\ main \in {"connect", "box", "start"} => dialog \in {"spin", "exit"}
    /\ main \in {"none", "connect", "box", "start"} => ~ g_bCommStarted

(* What is in g_chatmsg, by who has the right to it. *)
TextInHand ==
    /\ dialog \in {"wait", "type"} => typed < N
    /\ dialog = "type" \/ g_hReadEvent => typed = Len(handled)
    /\ g_hWriteEvent \/ writer \in {"test", "send", "set"} =>
          typed = Len(handled) + 1 /\ g_chatmsg.n = typed

(* The colour of the line ReadThread shows is in g_drawcolor. *)
ColourAtHand ==
    reader = "show" /\ comm_msg.type = "drawline" => g_drawcolor = comm_msg.n

(* OneRight, written out. *)
RightHeld ==
    /\ ~ (dialog = "type" /\ writer \in {"test", "send", "set"})
    /\ ~ (dialog = "type" /\ g_hReadEvent)
    /\ ~ (dialog = "type" /\ g_hWriteEvent)
    /\ ~ (writer \in {"test", "send", "set"} /\ g_hReadEvent)
    /\ ~ (writer \in {"test", "send", "set"} /\ g_hWriteEvent)
    /\ ~ (g_hReadEvent /\ g_hWriteEvent)
    /\ writer # "end" =>
          \/ dialog = "type" \/ writer \in {"test", "send", "set"}
          \/ g_hReadEvent \/ g_hWriteEvent

(* The pieces the server has got or will get. *)
Pieces == read \o up

(* Who is in send(), and who has left its loop. *)
Control ==
    /\ Len(read) < PIECES
    /\ ~ mixed => \A s, t \in Senders : sending[s].left > 0 /\ sending[t].left > 0 => s = t
    /\ sending["dialog"].left > 0 => dialog = "send"
    /\ sending["writer"].left > 0 => writer = "send"
    /\ reader = "end" \/ writer = "end" => net # "up"

(* The pieces of a message follow each other; what a thread in send() has  *)
(* left completes the last message.                                        *)
Grouped ==
    net = "up" /\ ~ mixed =>
       /\ \A q \in 1 .. Len(Pieces) : q % PIECES # 0 =>
             IF q < Len(Pieces)
             THEN Pieces[q + 1] = Pieces[q]
             ELSE \E t \in Senders : sending[t].left > 0 /\ sending[t].msg = Pieces[q]
       /\ \A t \in Senders :
             sending[t].left > 0 => (Len(Pieces) + sending[t].left) % PIECES = 0

Rights == RightHeld /\ StartedOnce /\ TextInHand
Colours == ColourAtHand /\ RightColour
IInv == TypeOK /\ Rights /\ Colours

-----------------------------------------------------------------------------
LEMMA RightIs == OneRight <=> RightHeld
<1>1. \A h : h \in Holders <=>
         \/ h = "dialog" /\ dialog = "type"
         \/ h = "writer" /\ writer \in {"test", "send", "set"}
         \/ h = "read" /\ g_hReadEvent
         \/ h = "write" /\ g_hWriteEvent
    BY DEF Holders
<1>2. /\ "dialog" # "writer" /\ "dialog" # "read" /\ "dialog" # "write"
      /\ "writer" # "read" /\ "writer" # "write" /\ "read" # "write"
    OBVIOUS
<1>3. QED BY <1>1, <1>2 DEF OneRight, RightHeld

LEMMA InitHolds == Init => IInv
<1> SUFFICES ASSUME Init PROVE IInv
    OBVIOUS
<1>1. TypeOK
  <2>1. NoMessage \in Messages /\ Nothing \in [msg: Messages, left: 0 .. PIECES]
      BY PrjClientAssumption DEF Nothing, NoMessage, Message, Messages, Types
  <2>2. <<>> \in Seq(Messages) /\ <<>> \in Seq(Seq(Nat))
      OBVIOUS
  <2>3. /\ g_chatmsg \in [n: Nat, empty: BOOLEAN]
        /\ handled \in Seq(Seq(Nat))
        /\ sending \in [Senders -> [msg: Messages, left: 0 .. PIECES]]
        /\ up \in Seq(Messages) /\ read \in Seq(Messages) /\ down \in Seq(Messages)
        /\ comm_msg \in Messages
      BY <2>1, <2>2 DEF Init
  <2>4. /\ typed \in 0 .. N /\ draws \in 0 .. MaxDraws /\ news \in 0 .. MaxNews
        /\ g_drawcolor \in Nat
        /\ picture \subseteq Nat \X Nat
      BY PrjClientAssumption DEF Init
  <2>5. QED BY <2>3, <2>4 DEF Init, TypeOK
<1>2. Rights
    BY DEF Init, Rights, RightHeld, StartedOnce, TextInHand
<1>3. Colours
    BY DEF Init, Colours, ColourAtHand, RightColour
<1>4. QED BY <1>1, <1>2, <1>3 DEF IInv

-----------------------------------------------------------------------------
(* Types. *)

LEMMA StartSendTypes ==
    ASSUME TypeOK, NEW t \in Senders, NEW type \in Types, NEW n \in Nat,
           StartSend(t, Message(type, n))
    PROVE  /\ sending' \in [Senders -> [msg: Messages, left: 0 .. PIECES]]
           /\ mixed' \in BOOLEAN
           /\ up' = up
<1>1. [msg |-> Message(type, n), left |-> PIECES] \in [msg: Messages, left: 0 .. PIECES]
    BY PrjClientAssumption DEF Message, Messages
<1>2. QED BY <1>1 DEF TypeOK, StartSend

LEMMA SendTypes ==
    ASSUME TypeOK, NEW t \in Senders, SendPiece(t) \/ SendError(t)
    PROVE  /\ sending' \in [Senders -> [msg: Messages, left: 0 .. PIECES]]
           /\ up' \in Seq(Messages)
           /\ UNCHANGED <<mixed, draws>>
<1>1. Nothing \in [msg: Messages, left: 0 .. PIECES]
    BY PrjClientAssumption DEF Nothing, NoMessage, Message, Messages, Types
<1>2. sending[t].msg \in Messages /\ sending[t].left \in 0 .. PIECES
    BY DEF TypeOK
<1>3. CASE SendPiece(t)
  <2>1. up' \in Seq(Messages)
      BY <1>2, <1>3 DEF SendPiece, TypeOK
  <2>2. [msg |-> sending[t].msg, left |-> sending[t].left - 1] \in [msg: Messages, left: 0 .. PIECES]
      BY <1>2, <1>3, PrjClientAssumption DEF SendPiece
  <2>3. sending' \in [Senders -> [msg: Messages, left: 0 .. PIECES]]
      BY <1>1, <1>3, <2>2 DEF SendPiece, TypeOK
  <2>4. QED BY <1>3, <2>1, <2>3 DEF SendPiece
<1>4. CASE SendError(t)
    BY <1>1, <1>4 DEF SendError, TypeOK
<1>5. QED BY <1>3, <1>4

LEMMA HeadTail ==
    ASSUME NEW S, NEW s \in Seq(S), s # <<>>
    PROVE  Head(s) \in S /\ Tail(s) \in Seq(S)
OBVIOUS

LEMMA DialogType ==
    ASSUME TypeOK, TextInHand, Dialog PROVE TypeOK'
<1> USE PrjClientAssumption DEF TypeOK, events, sends, world, incoming
<1>1. CASE ClickConnect
    BY <1>1 DEF ClickConnect
<1>2. CASE SpinEnds
    BY <1>2 DEF SpinEnds
<1>3. CASE EnableControls
    BY <1>3, ZenonT(60) DEF EnableControls
<1>4. CASE ClickSend
    BY <1>4 DEF ClickSend
<1>5. CASE WaitReturns
    BY <1>5, ZenonT(60) DEF WaitReturns
<1>6. CASE TypeText
  <2>1. typed + 1 \in 0 .. N
      BY <1>6 DEF TypeText, TextInHand
  <2>2. QED BY <1>6, <2>1 DEF TypeText
<1>7. CASE Draw
  <2>1. draws' \in Nat /\ draws' \in 0 .. MaxDraws
      BY <1>7 DEF Draw
  <2>2. "dialog" \in Senders /\ "drawline" \in Types /\ "erasepic" \in Types
      BY DEF Senders, Types
  <2>3. \/ StartSend("dialog", Message("drawline", draws'))
        \/ StartSend("dialog", Message("erasepic", draws'))
      BY <1>7 DEF Draw
  <2>4. /\ sending' \in [Senders -> [msg: Messages, left: 0 .. PIECES]]
        /\ mixed' \in BOOLEAN
        /\ up' = up
      BY <2>1, <2>2, <2>3, StartSendTypes
  <2>5. QED BY <1>7, <2>1, <2>4 DEF Draw
<1>8. CASE DialogSends
  <2>1. SendPiece("dialog") \/ SendError("dialog")
      BY <1>8 DEF DialogSends
  <2>2. "dialog" \in Senders
      BY DEF Senders
  <2>3. QED BY <1>8, <2>1, <2>2, SendTypes, SMTT(60) DEF DialogSends
<1>9. CASE Show
    BY <1>9 DEF Show, NoMessage, Message, Messages, Types
<1>10. CASE Cancel
    BY <1>10 DEF Cancel
<1>11. QED BY <1>1, <1>2, <1>3, <1>4, <1>5, <1>6, <1>7, <1>8, <1>9, <1>10 DEF Dialog

LEMMA ClientMainType ==
    ASSUME TypeOK, ClientMain PROVE TypeOK'
<1> USE PrjClientAssumption DEF TypeOK, events, sends, world, incoming
<1>1. CASE ConnectCall
    BY <1>1 DEF ConnectCall
<1>2. CASE StartThreads
    BY <1>2 DEF StartThreads
<1>3. CASE Started
    BY <1>3 DEF Started
<1>4. CASE Joined
    BY <1>4 DEF Joined, Nothing, NoMessage, Message, Messages, Types, Senders
<1>5. CASE Disconnected
    BY <1>5 DEF Disconnected
<1>6. QED BY <1>1, <1>2, <1>3, <1>4, <1>5 DEF ClientMain

LEMMA ReadThreadType ==
    ASSUME TypeOK, ReadThread PROVE TypeOK'
<1> USE PrjClientAssumption DEF TypeOK, events, sends, world, incoming
<1>1. CASE RecvCall
  <2>1. Head(down) \in Messages /\ Tail(down) \in Seq(Messages)
      BY <1>1, HeadTail DEF RecvCall
  <2>2. Head(down).n \in Nat
      BY <2>1 DEF Messages
  <2>3. QED BY <1>1, <2>1, <2>2 DEF RecvCall
<1>2. CASE RecvEnds
    BY <1>2 DEF RecvEnds
<1>3. QED BY <1>1, <1>2 DEF ReadThread

LEMMA WriteThreadType ==
    ASSUME TypeOK, WriteThread PROVE TypeOK'
<1> USE PrjClientAssumption DEF TypeOK, events, sends, world, incoming
<1>1. CASE WriterWaits
    BY <1>1, ZenonT(60) DEF WriterWaits
<1>2. CASE WriterTests
  <2>1. "writer" \in Senders /\ "chat" \in Types /\ g_chatmsg.n \in Nat
      BY DEF Senders, Types
  <2>2. CASE g_chatmsg.empty
      BY <1>2, <2>2 DEF WriterTests, sends
  <2>3. CASE ~ g_chatmsg.empty
    <3>1. StartSend("writer", Message("chat", g_chatmsg.n))
        BY <1>2, <2>3 DEF WriterTests
    <3>2. /\ sending' \in [Senders -> [msg: Messages, left: 0 .. PIECES]]
          /\ mixed' \in BOOLEAN
          /\ up' = up
        BY <2>1, <3>1, StartSendTypes
    <3>3. QED BY <1>2, <2>3, <3>2 DEF WriterTests
  <2>4. QED BY <2>2, <2>3
<1>3. CASE WriterSends
  <2>1. SendPiece("writer") \/ SendError("writer")
      BY <1>3 DEF WriterSends
  <2>2. "writer" \in Senders
      BY DEF Senders
  <2>3. QED BY <1>3, <2>1, <2>2, SendTypes, SMTT(60) DEF WriterSends
<1>4. CASE WriterSets
    BY <1>4 DEF WriterSets
<1>5. QED BY <1>1, <1>2, <1>3, <1>4 DEF WriteThread

LEMMA EnvironmentType ==
    ASSUME TypeOK, Environment PROVE TypeOK'
<1> USE PrjClientAssumption DEF TypeOK, events, sends, world, incoming
<1>1. CASE ServerReads
  <2>1. Head(up) \in Messages /\ Tail(up) \in Seq(Messages)
      BY <1>1, HeadTail DEF ServerReads
  <2>2. Append(down, Head(up)) \in Seq(Messages) /\ Append(read, Head(up)) \in Seq(Messages)
      BY <2>1
  <2>3. read' \in Seq(Messages) /\ down' \in Seq(Messages)
    <3>1. CASE Len(read) = PIECES - 1
      <4>1. read' = <<>> /\ down' = Append(down, Head(up))
          BY <1>1, <3>1 DEF ServerReads
      <4>2. <<>> \in Seq(Messages)
          OBVIOUS
      <4>3. QED BY <2>2, <4>1, <4>2
    <3>2. CASE Len(read) # PIECES - 1
        BY <1>1, <2>2, <3>2 DEF ServerReads
    <3>3. QED BY <3>1, <3>2
  <2>4. QED BY <1>1, <2>1, <2>3, SMTT(30) DEF ServerReads
<1>2. CASE ServerSends
    BY <1>2 DEF ServerSends, Message, Messages, Types
<1>3. CASE ServerLeaves
    BY <1>3 DEF ServerLeaves
<1>4. QED BY <1>1, <1>2, <1>3 DEF Environment

-----------------------------------------------------------------------------
(* The right to g_chatmsg, and the colour. *)

LEMMA DialogRights ==
    ASSUME TypeOK, Rights, Colours, Dialog PROVE Rights' /\ Colours'
<1> USE DEF TypeOK, Rights, RightHeld, StartedOnce, TextInHand, Colours, ColourAtHand, RightColour,
            events, sends, world, incoming
<1>1. CASE ClickConnect
    BY <1>1 DEF ClickConnect
<1>2. CASE SpinEnds
    BY <1>2 DEF SpinEnds
<1>3. CASE EnableControls
    BY <1>3 DEF EnableControls
<1>4. CASE ClickSend
    BY <1>4 DEF ClickSend
<1>5. CASE WaitReturns
    BY <1>5 DEF WaitReturns
<1>6. CASE TypeText
    BY <1>6 DEF TypeText
<1>7. CASE Draw
    BY <1>7 DEF Draw, StartSend
<1>8. CASE DialogSends
    BY <1>8 DEF DialogSends, SendPiece, SendError
<1>9. CASE Show
    BY <1>9 DEF Show
<1>10. CASE Cancel
    BY <1>10 DEF Cancel
<1>11. QED BY <1>1, <1>2, <1>3, <1>4, <1>5, <1>6, <1>7, <1>8, <1>9, <1>10 DEF Dialog

LEMMA ClientMainRights ==
    ASSUME TypeOK, Rights, Colours, ClientMain PROVE Rights' /\ Colours'
<1> USE DEF TypeOK, Rights, RightHeld, StartedOnce, TextInHand, Colours, ColourAtHand, RightColour,
            events, sends, world, incoming
<1>1. CASE ConnectCall
    BY <1>1 DEF ConnectCall
<1>2. CASE StartThreads
    BY <1>2 DEF StartThreads
<1>3. CASE Started
    BY <1>3 DEF Started
<1>4. CASE Joined
    BY <1>4 DEF Joined
<1>5. CASE Disconnected
    BY <1>5 DEF Disconnected
<1>6. QED BY <1>1, <1>2, <1>3, <1>4, <1>5 DEF ClientMain

LEMMA ReadThreadRights ==
    ASSUME TypeOK, Rights, Colours, ReadThread PROVE Rights' /\ Colours'
<1> USE DEF TypeOK, Rights, RightHeld, StartedOnce, TextInHand, Colours, ColourAtHand, RightColour,
            events, sends, world, incoming
<1>1. CASE RecvCall
    BY <1>1 DEF RecvCall
<1>2. CASE RecvEnds
    BY <1>2 DEF RecvEnds
<1>3. QED BY <1>1, <1>2 DEF ReadThread

LEMMA WriteThreadRights ==
    ASSUME TypeOK, Rights, Colours, WriteThread PROVE Rights' /\ Colours'
<1> USE DEF TypeOK, Rights, RightHeld, StartedOnce, TextInHand, Colours, ColourAtHand, RightColour,
            events, sends, world, incoming
<1>1. CASE WriterWaits
    BY <1>1 DEF WriterWaits
<1>2. CASE WriterTests
    BY <1>2 DEF WriterTests, StartSend
<1>3. CASE WriterSends
    BY <1>3 DEF WriterSends, SendPiece, SendError
<1>4. CASE WriterSets
    BY <1>4 DEF WriterSets
<1>5. QED BY <1>1, <1>2, <1>3, <1>4 DEF WriteThread

LEMMA EnvironmentRights ==
    ASSUME TypeOK, Rights, Colours, Environment PROVE Rights' /\ Colours'
<1> USE DEF TypeOK, Rights, RightHeld, StartedOnce, TextInHand, Colours, ColourAtHand, RightColour,
            events, sends, world, incoming
<1>1. CASE ServerReads
    BY <1>1 DEF ServerReads
<1>2. CASE ServerSends
    BY <1>2 DEF ServerSends
<1>3. CASE ServerLeaves
    BY <1>3 DEF ServerLeaves
<1>4. QED BY <1>1, <1>2, <1>3 DEF Environment

-----------------------------------------------------------------------------
LEMMA NextKeeps == IInv /\ [Next]_vars => IInv'
<1> SUFFICES ASSUME IInv, [Next]_vars PROVE IInv'
    OBVIOUS
<1> USE DEF IInv
<1>1. CASE Dialog
  <2>1. TextInHand
      BY DEF Rights
  <2>2. QED BY <1>1, <2>1, DialogType, DialogRights
<1>2. CASE ClientMain
    BY <1>2, ClientMainType, ClientMainRights
<1>3. CASE ReadThread
    BY <1>3, ReadThreadType, ReadThreadRights
<1>4. CASE WriteThread
    BY <1>4, WriteThreadType, WriteThreadRights
<1>5. CASE Environment
    BY <1>5, EnvironmentType, EnvironmentRights
<1>6. CASE UNCHANGED vars
    BY <1>6 DEF vars, events, sends, world, incoming, TypeOK, Rights, RightHeld, StartedOnce,
                TextInHand, Colours, ColourAtHand, RightColour
<1>7. QED BY <1>1, <1>2, <1>3, <1>4, <1>5, <1>6 DEF Next, Client

(* The inductive invariant. *)
THEOREM Invariance == Spec => []IInv
<1>1. QED BY InitHolds, NextKeeps, PTL DEF Spec

(* The state of the chat client is always of its type. *)
THEOREM TypeCorrect == Spec => []TypeOK
<1>1. IInv => TypeOK
    BY DEF IInv
<1>2. QED BY <1>1, Invariance, PTL

(* However the four threads are scheduled and whenever the server or the   *)
(* user leaves, the dialog and WriteThread never use g_chatmsg at once, and *)
(* the right to it is lost only with WriteThread.                          *)
THEOREM RightKept == Spec => []OneRight
<1>1. IInv => OneRight
    BY RightIs DEF IInv, Rights
<1>2. QED BY <1>1, Invariance, PTL

(* For any number of lines, of messages and of pieces they come in, every  *)
(* line in the picture has the colour of the message that brought it.      *)
THEOREM ColoursKept == Spec => []RightColour
<1>1. IInv => RightColour
    BY DEF IInv, Colours
<1>2. QED BY <1>1, Invariance, PTL

-----------------------------------------------------------------------------
(* The dialog and WriteThread implement a buffer of one place. *)

LEMMA LineIs == ASSUME NEW n \in Nat PROVE Texts!LineOf(n) = <<n>>
BY DEF Texts!LineOf

LEMMA TypeTextRefines ==
    ASSUME IInv, TypeText PROVE Texts!Write
<1>1. dialog = "type" /\ typed' = typed + 1 /\ handled' = handled
    BY DEF TypeText
<1>2. typed < N /\ typed = Len(handled)
    BY <1>1 DEF IInv, Rights, TextInHand
<1>3. QED BY <1>1, <1>2 DEF Texts!Write

LEMMA WriterSetsRefines ==
    ASSUME IInv, WriterSets PROVE Texts!Read
<1>1. writer = "set" /\ handled' = Append(handled, <<g_chatmsg.n>>) /\ typed' = typed
    BY DEF WriterSets
<1>2. typed = Len(handled) + 1 /\ g_chatmsg.n = typed
    BY <1>1 DEF IInv, Rights, TextInHand
<1>3. typed \in Nat /\ Len(handled) \in Nat
    BY PrjClientAssumption DEF IInv, TypeOK
<1>4. handled' = Append(handled, Texts!LineOf(typed))
    BY <1>1, <1>2, <1>3, LineIs
<1>5. QED BY <1>1, <1>2, <1>3, <1>4 DEF Texts!Read

LEMMA OthersStutter ==
    ASSUME [Next]_vars, ~ TypeText, ~ WriterSets PROVE UNCHANGED <<typed, handled>>
<1> USE DEF events
<1>1. CASE Dialog
    BY <1>1 DEF Dialog, ClickConnect, SpinEnds, EnableControls, ClickSend, WaitReturns,
                Draw, DialogSends, Show, Cancel
<1>2. CASE ClientMain
    BY <1>2 DEF ClientMain, ConnectCall, StartThreads, Started, Joined, Disconnected
<1>3. CASE ReadThread
    BY <1>3 DEF ReadThread, RecvCall, RecvEnds
<1>4. CASE WriteThread
    BY <1>4 DEF WriteThread, WriterWaits, WriterTests, WriterSends
<1>5. CASE Environment
    BY <1>5 DEF Environment, ServerReads, ServerSends, ServerLeaves
<1>6. CASE UNCHANGED vars
    BY <1>6 DEF vars
<1>7. QED BY <1>1, <1>2, <1>3, <1>4, <1>5, <1>6 DEF Next, Client

(* The refinement for all sizes: every text is sent or skipped, once and in *)
(* its order, before the next one is entered.                               *)
THEOREM HandsOver == Spec => ImplementsHandOff
<1>1. Init => Texts!Init
    BY DEF Init, Texts!Init
<1>2. IInv /\ [Next]_vars => [Texts!Next]_(Texts!vars)
  <2> SUFFICES ASSUME IInv, [Next]_vars PROVE [Texts!Next]_(Texts!vars)
      OBVIOUS
  <2>1. CASE TypeText
      BY <2>1, TypeTextRefines DEF Texts!Next
  <2>2. CASE WriterSets
      BY <2>2, WriterSetsRefines DEF Texts!Next
  <2>3. CASE ~ TypeText /\ ~ WriterSets
      BY <2>3, OthersStutter DEF Texts!vars
  <2>4. QED BY <2>1, <2>2, <2>3
<1>3. QED BY <1>1, <1>2, Invariance, PTL DEF Spec, ImplementsHandOff, Texts!Spec
-----------------------------------------------------------------------------
(* Messages stay whole. *)

LEMMA DivMod ==
    ASSUME NEW P \in Nat \ {0}, NEW x \in Nat
    PROVE  x = P * (x \div P) + (x % P) /\ x \div P \in Nat /\ x % P \in 0 .. (P - 1)
OBVIOUS

LEMMA DivModUnique ==
    ASSUME NEW P \in Nat \ {0}, NEW a \in Nat, NEW b \in Nat,
           NEW r \in 0 .. (P - 1), NEW s \in 0 .. (P - 1), P * a + r = P * b + s
    PROVE  r = s
<1>1. P * (a - b) = s - r
    OBVIOUS
<1>2. ~ (a - b >= 1)
  <2>1. ASSUME a - b >= 1 PROVE P * (a - b) >= P
      BY <2>1
  <2>2. QED BY <2>1, <1>1
<1>3. ~ (a - b <= -1)
  <2>1. ASSUME a - b <= -1 PROVE P * (a - b) <= -P
      BY <2>1
  <2>2. QED BY <2>1, <1>1
<1>4. QED BY <1>1, <1>2, <1>3

LEMMA ModPlus ==
    ASSUME NEW P \in Nat \ {0}, NEW x \in Nat PROVE (x + P) % P = x % P
<1> DEFINE a == x \div P
           r == x % P
           b == (x + P) \div P
           s == (x + P) % P
<1>1. x = P * a + r /\ a \in Nat /\ r \in 0 .. (P - 1)
    BY DivMod
<1>2. x + P = P * b + s /\ b \in Nat /\ s \in 0 .. (P - 1)
    BY DivMod, x + P \in Nat
<1> HIDE DEF a, b, r, s
<1>3. P * (a + 1) + r = P * b + s /\ a + 1 \in Nat
    BY <1>1, <1>2
<1>4. r = s
    BY <1>1, <1>2, <1>3, DivModUnique
<1>5. QED BY <1>4 DEF r, s

LEMMA ModZero == ASSUME NEW P \in Nat \ {0} PROVE 0 % P = 0
OBVIOUS

LEMMA SequenceFacts ==
    ASSUME NEW S, NEW a \in Seq(S), NEW b \in Seq(S)
    PROVE  /\ a \o b \in Seq(S)
           /\ Len(a \o b) = Len(a) + Len(b)
           /\ \A q \in 1 .. Len(a) : (a \o b)[q] = a[q]
           /\ \A q \in 1 .. Len(b) : (a \o b)[Len(a) + q] = b[q]
OBVIOUS

LEMMA AppendFacts ==
    ASSUME NEW S, NEW s \in Seq(S), NEW e \in S
    PROVE  /\ Len(Append(s, e)) = Len(s) + 1
           /\ Append(s, e)[Len(s) + 1] = e
           /\ \A q \in 1 .. Len(s) : Append(s, e)[q] = s[q]
OBVIOUS

LEMMA PiecesType ==
    ASSUME TypeOK PROVE Pieces \in Seq(Messages) /\ Len(Pieces) \in Nat
BY DEF TypeOK, Pieces

(* send() of a whole message: nobody else is in send(), so the last message *)
(* is complete.                                                             *)
LEMMA StartSendGroups ==
    ASSUME TypeOK, Control, Grouped, NEW t \in Senders, NEW msg, StartSend(t, msg),
           sending[t].left = 0, UNCHANGED <<read, net>>
    PROVE  Grouped'
<1> SUFFICES ASSUME net = "up", ~ mixed' PROVE Grouped'
    BY DEF Grouped
<1>1. Pieces' = Pieces /\ Pieces \in Seq(Messages) /\ Len(Pieces) \in Nat
    BY PiecesType DEF Pieces, StartSend
<1>2. ~ mixed /\ \A s \in Senders : ~ (sending[s].left > 0)
  <2>1. mixed' = (mixed \/ \E s \in Senders \ {t} : sending[s].left > 0)
      BY DEF StartSend
  <2>2. ~ (sending[t].left > 0)
      OBVIOUS
  <2>3. QED BY <2>1, <2>2
<1>3. \A q \in 1 .. Len(Pieces) : q % PIECES # 0 => q < Len(Pieces) /\ Pieces[q + 1] = Pieces[q]
    BY <1>1, <1>2 DEF Grouped
<1>4. Len(Pieces) % PIECES = 0
  <2>1. CASE Len(Pieces) = 0
      BY <2>1, ModZero, PrjClientAssumption
  <2>2. CASE Len(Pieces) # 0
    <3>1. Len(Pieces) \in 1 .. Len(Pieces)
        BY <1>1, <2>2
    <3>2. QED BY <1>3, <3>1
  <2>3. QED BY <2>1, <2>2
<1>5. (Len(Pieces) + PIECES) % PIECES = 0
    BY <1>1, <1>4, ModPlus, PrjClientAssumption
<1>6. \A s \in Senders : sending'[s].left > 0 => sending'[s].left = PIECES
    BY <1>2 DEF StartSend, TypeOK
<1>7. QED BY <1>1, <1>3, <1>5, <1>6 DEF Grouped

LEMMA SendPieceGroups ==
    ASSUME TypeOK, Control, Grouped, NEW t \in Senders, SendPiece(t), UNCHANGED <<read, net>>
    PROVE  Grouped'
<1> SUFFICES ASSUME net = "up", ~ mixed PROVE Grouped'
    BY DEF Grouped, SendPiece
<1> DEFINE msg == sending[t].msg
           L == Len(Pieces)
<1>1. msg \in Messages /\ sending[t].left \in 1 .. PIECES /\ PIECES \in Nat
    BY PrjClientAssumption DEF TypeOK, SendPiece
<1>2. Pieces' = Append(Pieces, msg)
    BY <1>1, SMTT(30) DEF TypeOK, SendPiece, Pieces
<1>3. Pieces \in Seq(Messages) /\ L \in Nat
    BY PiecesType
<1>4. Len(Pieces') = L + 1 /\ Pieces'[L + 1] = msg /\ \A q \in 1 .. L : Pieces'[q] = Pieces[q]
    BY <1>1, <1>2, <1>3, AppendFacts
<1>5. \A s \in Senders \ {t} : ~ (sending[s].left > 0) /\ sending'[s] = sending[s]
    BY <1>1 DEF Control, SendPiece, TypeOK
<1>6. /\ sending[t].left > 1 => sending'[t].left = sending[t].left - 1 /\ sending'[t].msg = msg
      /\ sending[t].left = 1 => sending'[t].left = 0
    BY <1>1 DEF SendPiece, TypeOK, Nothing
<1>7. (L + sending[t].left) % PIECES = 0
    BY <1>1 DEF Grouped
<1>8. \A s \in Senders : sending'[s].left > 0 => (Len(Pieces') + sending'[s].left) % PIECES = 0
  <2> SUFFICES ASSUME NEW s \in Senders, sending'[s].left > 0
               PROVE  (Len(Pieces') + sending'[s].left) % PIECES = 0
      OBVIOUS
  <2>1. s = t
      BY <1>5
  <2>2. sending'[t].left = sending[t].left - 1
      BY <1>1, <1>6, <2>1
  <2>3. Len(Pieces') + sending'[t].left = L + sending[t].left
    <3> DEFINE k == sending[t].left
               M == Len(Pieces')
    <3>1. L \in Nat /\ k \in Nat /\ M = L + 1 /\ sending'[t].left = k - 1
        BY <1>1, <1>3, <1>4, <2>2
    <3> HIDE DEF L, k, M
    <3>2. M + (k - 1) = L + k
        BY <3>1
    <3>3. QED BY <3>1, <3>2 DEF k, M
  <2>4. QED BY <1>7, <2>1, <2>3
<1>9. ASSUME NEW q \in 1 .. Len(Pieces'), q % PIECES # 0
      PROVE  IF q < Len(Pieces')
             THEN Pieces'[q + 1] = Pieces'[q]
             ELSE \E s \in Senders : sending'[s].left > 0 /\ sending'[s].msg = Pieces'[q]
  <2>1. CASE q < L
    <3>1. Pieces[q + 1] = Pieces[q]
        BY <1>3, <1>9, <2>1 DEF Grouped
    <3>2. q \in 1 .. L /\ q + 1 \in 1 .. L /\ q < Len(Pieces')
        BY <1>3, <1>4, <2>1
    <3>3. QED BY <1>4, <3>1, <3>2
  <2>2. CASE q = L
    <3>1. q \in 1 .. L /\ ~ (q < L) /\ q < Len(Pieces')
        BY <1>3, <1>4, <2>2
    <3>2. PICK s \in Senders : sending[s].left > 0 /\ sending[s].msg = Pieces[q]
        BY <1>9, <3>1 DEF Grouped
    <3>3. s = t
        BY <1>5, <3>2
    <3>4. QED BY <1>4, <2>2, <3>1, <3>2, <3>3
  <2>3. CASE q = L + 1
    <3>1. sending[t].left # 1
        BY <1>7, <1>9, <2>3
    <3>2. sending'[t].left > 0 /\ sending'[t].msg = msg
        BY <1>1, <1>6, <3>1
    <3>3. ~ (q < Len(Pieces')) /\ Pieces'[q] = msg
        BY <1>3, <1>4, <2>3
    <3>4. QED BY <3>2, <3>3
  <2>4. QED BY <1>3, <1>4, <2>1, <2>2, <2>3
<1>10. QED BY <1>8, <1>9 DEF Grouped

LEMMA ServerReadsGroups ==
    ASSUME TypeOK, Control, Grouped, ServerReads PROVE Grouped'
<1> SUFFICES ASSUME net = "up", ~ mixed PROVE Grouped'
    BY DEF Grouped, ServerReads
<1>1. /\ up \in Seq(Messages) /\ up # <<>> /\ read \in Seq(Messages)
      /\ PIECES \in Nat \ {0} /\ Len(read) < PIECES
    BY PrjClientAssumption DEF TypeOK, Control, ServerReads
<1>2. Pieces \in Seq(Messages) /\ Len(Pieces) \in Nat
    BY PiecesType
<1>3. UNCHANGED <<sending, mixed, net>>
    BY DEF ServerReads
<1>4. CASE Len(read) # PIECES - 1
  <2>1. Pieces' = Append(read, Head(up)) \o Tail(up)
      BY <1>4 DEF ServerReads, Pieces
  <2>2. Append(read, Head(up)) \o Tail(up) = read \o up
      BY <1>1
  <2>3. QED BY <1>3, <2>1, <2>2 DEF Grouped, Pieces
<1>5. CASE Len(read) = PIECES - 1
  <2>1. Pieces' = Tail(up)
      BY <1>1, <1>5 DEF ServerReads, Pieces
  <2>2. Len(Pieces') \in Nat /\ Len(Pieces) = Len(Pieces') + PIECES
      BY <1>1, <1>5, <2>1 DEF Pieces
  <2>3. \A q \in 1 .. Len(Pieces') : Pieces'[q] = Pieces[q + PIECES]
      BY <1>1, <1>5, <2>1 DEF Pieces
  <2>4. \A t \in Senders :
           sending'[t].left > 0 => (Len(Pieces') + sending'[t].left) % PIECES = 0
    <3> SUFFICES ASSUME NEW t \in Senders, sending[t].left > 0
                 PROVE  (Len(Pieces') + sending[t].left) % PIECES = 0
        BY <1>3
    <3> DEFINE x == Len(Pieces') + sending[t].left
    <3>1. x \in Nat /\ x + PIECES = Len(Pieces) + sending[t].left
        BY <1>1, <2>2 DEF TypeOK
    <3>2. (Len(Pieces) + sending[t].left) % PIECES = 0
        BY DEF Grouped
    <3> HIDE DEF x
    <3>3. x % PIECES = 0
        BY <1>1, <3>1, <3>2, ModPlus
    <3>4. QED BY <3>3 DEF x
  <2>5. ASSUME NEW q \in 1 .. Len(Pieces'), q % PIECES # 0
        PROVE  IF q < Len(Pieces')
               THEN Pieces'[q + 1] = Pieces'[q]
               ELSE \E t \in Senders : sending'[t].left > 0 /\ sending'[t].msg = Pieces'[q]
    <3>1. (q + PIECES) % PIECES # 0
        BY <1>1, <2>5, ModPlus
    <3>2. q + PIECES \in 1 .. Len(Pieces)
        BY <1>1, <2>2
    <3>3. q < Len(Pieces') <=> q + PIECES < Len(Pieces)
        BY <1>1, <2>2
    <3>4. CASE q < Len(Pieces')
      <4>1. Pieces[q + PIECES + 1] = Pieces[q + PIECES]
          BY <3>1, <3>2, <3>3, <3>4 DEF Grouped
      <4>2. q + 1 \in 1 .. Len(Pieces') /\ (q + 1) + PIECES = q + PIECES + 1
          BY <1>1, <2>2, <3>4
      <4>3. QED BY <2>3, <3>4, <4>1, <4>2
    <3>5. CASE ~ (q < Len(Pieces'))
        BY <1>3, <2>3, <3>1, <3>2, <3>3, <3>5 DEF Grouped
    <3>6. QED BY <3>4, <3>5
  <2>6. QED BY <2>4, <2>5 DEF Grouped
<1>6. QED BY <1>4, <1>5

LEMMA SendLeft ==
    ASSUME TypeOK, NEW t \in Senders, SendPiece(t) \/ SendError(t)
    PROVE  /\ \A s \in Senders \ {t} : sending'[s] = sending[s]
           /\ SendPiece(t) => sending'[t].left = sending[t].left - 1
           /\ SendError(t) => sending'[t].left = 0 /\ net # "up"
           /\ sending[t].left \in 1 .. PIECES
           /\ mixed' = mixed
BY PrjClientAssumption DEF TypeOK, SendPiece, SendError, Nothing

LEMMA DialogControl ==
    ASSUME TypeOK, StartedOnce, Control, Dialog PROVE Control'
<1> USE PrjClientAssumption DEF TypeOK, Control, StartedOnce, Senders, events, sends, world, incoming
<1>1. CASE ClickConnect
    BY <1>1 DEF ClickConnect
<1>2. CASE SpinEnds
    BY <1>2 DEF SpinEnds
<1>3. CASE EnableControls
    BY <1>3 DEF EnableControls
<1>4. CASE ClickSend
    BY <1>4 DEF ClickSend
<1>5. CASE WaitReturns
    BY <1>5 DEF WaitReturns
<1>6. CASE TypeText
    BY <1>6 DEF TypeText
<1>7. CASE Draw
    BY <1>7 DEF Draw, StartSend
<1>8. CASE DialogSends
  <2>1. "dialog" \in Senders /\ "writer" \in Senders /\ Senders = {"dialog", "writer"}
      BY DEF Senders
  <2>2. SendPiece("dialog") \/ SendError("dialog")
      BY <1>8 DEF DialogSends
  <2>3. /\ sending'["writer"] = sending["writer"]
        /\ sending'["dialog"].left \in 0 .. sending["dialog"].left
        /\ sending'["dialog"].left > 0 => dialog' = "send"
        /\ dialog' = "end" => net # "up"
        /\ sending["dialog"].left > 0
        /\ mixed' = mixed
      BY <1>8, <2>1, <2>2, SendLeft DEF DialogSends
  <2>4. UNCHANGED <<read, net, reader, writer>>
      BY <1>8 DEF DialogSends
  <2>5. QED BY <2>1, <2>3, <2>4
<1>9. CASE Show
    BY <1>9 DEF Show
<1>10. CASE Cancel
    BY <1>10 DEF Cancel
<1>11. QED BY <1>1, <1>2, <1>3, <1>4, <1>5, <1>6, <1>7, <1>8, <1>9, <1>10 DEF Dialog

LEMMA ClientMainControl ==
    ASSUME TypeOK, StartedOnce, Control, ClientMain PROVE Control'
<1> USE PrjClientAssumption DEF TypeOK, Control, StartedOnce, Senders, events, sends, world, incoming
<1>1. CASE ConnectCall
    BY <1>1 DEF ConnectCall
<1>2. CASE StartThreads
    BY <1>2 DEF StartThreads
<1>3. CASE Started
    BY <1>3 DEF Started
<1>4. CASE Joined
    BY <1>4 DEF Joined, Nothing
<1>5. CASE Disconnected
    BY <1>5 DEF Disconnected
<1>6. QED BY <1>1, <1>2, <1>3, <1>4, <1>5 DEF ClientMain

LEMMA ReadThreadControl ==
    ASSUME TypeOK, StartedOnce, Control, ReadThread PROVE Control'
<1> USE PrjClientAssumption DEF TypeOK, Control, StartedOnce, Senders, events, sends, world, incoming
<1>1. CASE RecvCall
    BY <1>1 DEF RecvCall
<1>2. CASE RecvEnds
    BY <1>2 DEF RecvEnds
<1>3. QED BY <1>1, <1>2 DEF ReadThread

LEMMA WriteThreadControl ==
    ASSUME TypeOK, StartedOnce, Control, WriteThread PROVE Control'
<1> USE PrjClientAssumption DEF TypeOK, Control, StartedOnce, Senders, events, sends, world, incoming
<1>1. CASE WriterWaits
    BY <1>1 DEF WriterWaits
<1>2. CASE WriterTests
    BY <1>2 DEF WriterTests, StartSend
<1>3. CASE WriterSends
  <2>1. "writer" \in Senders /\ "dialog" \in Senders /\ Senders = {"dialog", "writer"}
      BY DEF Senders
  <2>2. SendPiece("writer") \/ SendError("writer")
      BY <1>3 DEF WriterSends
  <2>3. /\ sending'["dialog"] = sending["dialog"]
        /\ sending'["writer"].left \in 0 .. sending["writer"].left
        /\ sending'["writer"].left > 0 => writer' = "send"
        /\ writer' = "end" => net # "up"
        /\ sending["writer"].left > 0
        /\ mixed' = mixed
    <3>1. CASE SendPiece("writer") /\ writer' = IF sending["writer"].left = 1 THEN "set" ELSE "send"
      <4>1. writer' # "end" /\ (sending["writer"].left # 1 => writer' = "send")
          BY <3>1
      <4>2. QED BY <2>1, <3>1, <4>1, SendLeft
    <3>2. CASE SendError("writer") /\ writer' = "end"
        BY <2>1, <3>2, SendLeft
    <3>3. QED BY <1>3, <3>1, <3>2 DEF WriterSends
  <2>4. UNCHANGED <<read, net, reader, dialog>>
      BY <1>3 DEF WriterSends
  <2>5. QED BY <2>1, <2>3, <2>4
<1>4. CASE WriterSets
    BY <1>4 DEF WriterSets
<1>5. QED BY <1>1, <1>2, <1>3, <1>4 DEF WriteThread

LEMMA EnvironmentControl ==
    ASSUME TypeOK, StartedOnce, Control, Environment PROVE Control'
<1> USE PrjClientAssumption DEF TypeOK, Control, StartedOnce, Senders, events, sends, world, incoming
<1>1. CASE ServerReads
    BY <1>1, SMTT(120) DEF ServerReads
<1>2. CASE ServerSends
    BY <1>2 DEF ServerSends
<1>3. CASE ServerLeaves
    BY <1>3 DEF ServerLeaves
<1>4. QED BY <1>1, <1>2, <1>3 DEF Environment

LEMMA ControlKept ==
    ASSUME IInv, Control, [Next]_vars PROVE Control'
<1>1. TypeOK /\ StartedOnce
    BY DEF IInv, Rights
<1>2. CASE UNCHANGED vars
    BY <1>2 DEF vars, sends, world, Control
<1>3. QED
    BY <1>1, <1>2, DialogControl, ClientMainControl, ReadThreadControl, WriteThreadControl,
       EnvironmentControl DEF Next, Client

(* The steps that neither send nor read: ServerLeaves and Disconnected only *)
(* end the connection, Joined ends WriteThread when it has ended already.   *)
LEMMA OthersGroup ==
    ASSUME Grouped, UNCHANGED <<sending, mixed, read, up>>, net' = "up" => net = "up"
    PROVE  Grouped'
BY DEF Grouped, Pieces

LEMMA DialogGroups ==
    ASSUME IInv, Control, Grouped, Dialog PROVE Grouped'
<1> USE DEF sends, world
<1>1. TypeOK /\ "dialog" \in Senders
    BY DEF IInv, Senders
<1>2. CASE Draw
  <2>1. sending["dialog"].left = 0
      BY <1>1, <1>2 DEF Draw, Control, TypeOK
  <2>2. PICK msg : StartSend("dialog", msg)
      BY <1>2 DEF Draw
  <2>3. UNCHANGED <<read, net>>
      BY <1>2 DEF Draw
  <2>4. QED BY <1>1, <2>1, <2>2, <2>3, StartSendGroups
<1>3. CASE DialogSends
  <2>1. UNCHANGED <<read, net>>
      BY <1>3 DEF DialogSends
  <2>2. CASE SendPiece("dialog")
      BY <1>1, <2>1, <2>2, SendPieceGroups
  <2>3. CASE SendError("dialog")
      BY <2>1, <2>3 DEF SendError, Grouped
  <2>4. QED BY <1>3, <2>2, <2>3 DEF DialogSends
<1>4. CASE ~ Draw /\ ~ DialogSends
  <2>1. UNCHANGED <<sending, mixed, read, up, net>>
      BY <1>4 DEF Dialog, ClickConnect, SpinEnds, EnableControls, ClickSend, WaitReturns,
                  TypeText, Show, Cancel
  <2>2. QED BY <2>1, OthersGroup
<1>5. QED BY <1>2, <1>3, <1>4

LEMMA WriteThreadGroups ==
    ASSUME IInv, Control, Grouped, WriteThread PROVE Grouped'
<1> USE DEF sends, world
<1>1. TypeOK /\ "writer" \in Senders
    BY DEF IInv, Senders
<1>2. CASE WriterTests /\ ~ g_chatmsg.empty
  <2>1. sending["writer"].left = 0
      BY <1>1, <1>2 DEF WriterTests, Control, TypeOK
  <2>2. PICK msg : StartSend("writer", msg)
      BY <1>2 DEF WriterTests
  <2>3. UNCHANGED <<read, net>>
      BY <1>2 DEF WriterTests
  <2>4. QED BY <1>1, <2>1, <2>2, <2>3, StartSendGroups
<1>3. CASE WriterSends
  <2>1. UNCHANGED <<read, net>>
      BY <1>3 DEF WriterSends
  <2>2. CASE SendPiece("writer")
      BY <1>1, <2>1, <2>2, SendPieceGroups
  <2>3. CASE SendError("writer")
      BY <2>1, <2>3 DEF SendError, Grouped
  <2>4. QED BY <1>3, <2>2, <2>3 DEF WriterSends
<1>4. CASE WriterWaits \/ WriterSets \/ (WriterTests /\ g_chatmsg.empty)
  <2>1. UNCHANGED <<sending, mixed, read, up, net>>
      BY <1>4 DEF WriterWaits, WriterSets, WriterTests
  <2>2. QED BY <2>1, OthersGroup
<1>5. QED BY <1>2, <1>3, <1>4 DEF WriteThread

LEMMA ClientMainGroups ==
    ASSUME IInv, Control, Grouped, ClientMain PROVE Grouped'
<1> USE DEF sends, world
<1>1. CASE Joined
  <2>1. net # "up" /\ net' = net
      BY <1>1 DEF Joined, Control
  <2>2. QED BY <2>1 DEF Grouped
<1>2. CASE ConnectCall \/ StartThreads \/ Started \/ Disconnected
  <2>1. UNCHANGED <<sending, mixed, read, up>> /\ (net' = "up" => net = "up")
      BY <1>2 DEF ConnectCall, StartThreads, Started, Disconnected
  <2>2. QED BY <2>1, OthersGroup
<1>3. QED BY <1>1, <1>2 DEF ClientMain

LEMMA GroupedKept ==
    ASSUME IInv, Control, Grouped, [Next]_vars PROVE Grouped'
<1> USE DEF sends, world
<1>1. TypeOK
    BY DEF IInv
<1>2. CASE ReadThread \/ ServerSends \/ ServerLeaves \/ UNCHANGED vars
  <2>1. UNCHANGED <<sending, mixed, read, up>> /\ (net' = "up" => net = "up")
      BY <1>2 DEF ReadThread, RecvCall, RecvEnds, ServerSends, ServerLeaves, vars
  <2>2. QED BY <2>1, OthersGroup
<1>3. QED
    BY <1>1, <1>2, DialogGroups, ClientMainGroups, WriteThreadGroups, ServerReadsGroups
       DEF Next, Client, Environment

LEMMA WholeInit == Init => Control /\ Grouped
<1> SUFFICES ASSUME Init PROVE Control /\ Grouped
    OBVIOUS
<1>1. \A t \in Senders : sending[t].left = 0
    BY DEF Init, Nothing
<1>2. Control
    BY <1>1, PrjClientAssumption DEF Init, Control, Senders
<1>3. Len(Pieces) = 0
    BY DEF Init, Pieces
<1>4. Grouped
    BY <1>1, <1>3 DEF Grouped
<1>5. QED BY <1>2, <1>4

(* For any number of pieces: as long as the dialog and WriteThread were     *)
(* never in send() at once, the server gets whole messages.                 *)
THEOREM MessagesWhole == Spec => []WholeUnlessBoth
<1>1. IInv /\ Control /\ Grouped /\ [Next]_vars => Control' /\ Grouped'
    BY ControlKept, GroupedKept
<1>2. Spec => [](Control /\ Grouped)
    BY <1>1, WholeInit, Invariance, PTL DEF Spec
<1>3. Grouped => WholeUnlessBoth
    BY DEF Grouped, WholeUnlessBoth, Pieces
<1>4. QED BY <1>2, <1>3, PTL

-----------------------------------------------------------------------------
(* The echo clients. *)

(* The button is enabled, or the dialog waits, only while hReadEvent is    *)
(* set, or ClientMain is on its way from EnableWindow() to setting it;     *)
(* while the dialog waits or types, the button is disabled.                *)
AnswerComes ==
    /\ hSendButton \/ e_dialog = "wait" => hReadEvent \/ e_main \in {"notify", "set"}
    /\ e_dialog \in {"wait", "type"} => ~ hSendButton

(* Where the right to buf is, and what is in buf there.  TCPClient has one *)
(* thread and no events.                                                   *)
EchoInHand ==
    /\ program = "GUITCPClient" =>
          /\ e_main # "input"
          /\ e_dialog \in {"wait", "type"} => e_typed < EchoN
          /\ ~ (hReadEvent /\ e_dialog = "type")
          /\ ~ (hWriteEvent /\ e_main \in {"send", "recv", "enable", "notify", "set"})
          /\ hReadEvent \/ e_dialog = "type" => e_typed = Len(e_shown)
          /\ hWriteEvent \/ e_main \in {"send", "recv", "enable", "notify", "set"} =>
                e_typed = Len(e_shown) + 1 /\ buf.n = e_typed
    /\ program = "TCPClient" =>
          /\ e_dialog \in {"idle", "exit"}
          /\ ~ hWriteEvent
          /\ e_main \notin {"wait", "enable", "notify", "set"}
          /\ e_main \in {"connect", "input"} => e_typed = Len(e_shown)
          /\ e_main \in {"send", "recv"} => e_typed = Len(e_shown) + 1 /\ buf.n = e_typed

(* One echo is under way, and none before send() or after recv(), unless   *)
(* the server has left.                                                    *)
OneEcho ==
    /\ owed + inbox <= 2
    /\ e_up /\ e_main # "recv" => owed = 0 /\ inbox = 0

EchoIInv == Echo!TypeOK /\ AnswerComes /\ EchoInHand /\ OneEcho

LEMMA EchoInit == Echo!Init => EchoIInv
<1> SUFFICES ASSUME Echo!Init PROVE EchoIInv
    OBVIOUS
<1>1. Echo!TypeOK
  <2>1. <<>> \in Seq(Seq(Nat))
      OBVIOUS
  <2>2. {hReadEvent, hWriteEvent, hSendButton, e_up} \subseteq BOOLEAN
      BY DEF Echo!Init
  <2>3. buf \in [n: 0 .. EchoN, empty: BOOLEAN] /\ e_typed \in 0 .. EchoN
      BY ClientsAssumption DEF Echo!Init
  <2>4. QED BY <2>1, <2>2, <2>3 DEF Echo!Init, Echo!TypeOK
<1>2. AnswerComes /\ EchoInHand /\ OneEcho
    BY DEF Echo!Init, Echo!Programs, AnswerComes, EchoInHand, OneEcho
<1>3. QED BY <1>1, <1>2 DEF EchoIInv

LEMMA EchoDialogStep == ASSUME EchoIInv, Echo!Dialog PROVE EchoIInv'
<1> USE ClientsAssumption DEF EchoIInv
<1>1. CASE Echo!ClickSend
    BY <1>1 DEF Echo!ClickSend, Echo!GUI, Echo!TypeOK, Echo!Programs, AnswerComes, EchoInHand, OneEcho
<1>2. CASE Echo!WaitReturns
    BY <1>2 DEF Echo!WaitReturns, Echo!TypeOK, Echo!Programs, AnswerComes, EchoInHand, OneEcho
<1>3. CASE Echo!TypeText
  <2>1. program = "GUITCPClient" /\ e_typed = Len(e_shown)
      BY <1>3 DEF Echo!TypeText, Echo!TypeOK, Echo!Programs, EchoInHand
  <2>2. PICK e \in BOOLEAN : buf' = [n |-> e_typed + 1, empty |-> e]
      BY <1>3 DEF Echo!TypeText
  <2>a. e_typed + 1 \in 0 .. EchoN /\ e_typed' = e_typed + 1
      BY <1>3, <2>1 DEF Echo!TypeText, Echo!TypeOK, EchoInHand
  <2>b. buf' \in [n: 0 .. EchoN, empty: BOOLEAN] /\ buf'.n = e_typed'
      BY <2>2, <2>a
  <2>3. Echo!TypeOK'
      BY <1>3, <2>a, <2>b DEF Echo!TypeText, Echo!TypeOK
  <2>4. QED BY <1>3, <2>1, <2>a, <2>b, <2>3 DEF Echo!TypeText, Echo!TypeOK, AnswerComes, EchoInHand, OneEcho
<1>4. CASE Echo!Cancel
    BY <1>4 DEF Echo!Cancel, Echo!GUI, Echo!TypeOK, Echo!Programs, AnswerComes, EchoInHand, OneEcho
<1>5. QED BY <1>1, <1>2, <1>3, <1>4 DEF Echo!Dialog

LEMMA EchoMainStep == ASSUME EchoIInv, Echo!Main PROVE EchoIInv'
<1> USE ClientsAssumption DEF EchoIInv
<1>1. e_typed \in 0 .. EchoN /\ Len(e_shown) \in Nat /\ owed \in 0 .. 2 /\ inbox \in 0 .. 2
    BY DEF Echo!TypeOK
<1>2. CASE Echo!ConnectCall
    BY <1>2 DEF Echo!ConnectCall, Echo!GUI, Echo!TypeOK, Echo!Programs, AnswerComes, EchoInHand, OneEcho
<1>3. CASE Echo!Input
  <2>1. /\ e_typed' \in 0 .. EchoN /\ buf' \in [n: 0 .. EchoN, empty: BOOLEAN]
        /\ e_typed' # e_typed => e_typed' = e_typed + 1 /\ buf'.n = e_typed' /\ e_main' = "send"
        /\ e_typed' = e_typed => e_main' = "end"
    <3>1. buf \in [n: 0 .. EchoN, empty: BOOLEAN]
        BY DEF Echo!TypeOK
    <3>2. CASE e_typed' = e_typed + 1 /\ buf' = [n |-> e_typed + 1, empty |-> FALSE] /\ e_main' = "send"
      <4>1. e_typed + 1 \in 0 .. EchoN
          BY <1>1, <1>3 DEF Echo!Input
      <4>2. QED BY <1>1, <3>2, <4>1
    <3>3. CASE e_main' = "end" /\ UNCHANGED <<buf, e_typed>>
        BY <1>1, <3>1, <3>3
    <3>4. QED BY <1>3, <3>2, <3>3 DEF Echo!Input
  <2>2. Echo!TypeOK'
      BY <1>3, <2>1 DEF Echo!Input, Echo!TypeOK
  <2>3. QED BY <1>1, <1>3, <2>1, <2>2 DEF Echo!Input, Echo!TypeOK, Echo!Programs, AnswerComes,
                                          EchoInHand, OneEcho
<1>4. CASE Echo!MainWaits
    BY <1>4 DEF Echo!MainWaits, Echo!TypeOK, Echo!Programs, AnswerComes, EchoInHand, OneEcho
<1>5. CASE Echo!SendCall
    BY <1>5 DEF Echo!SendCall, Echo!TypeOK, Echo!Programs, AnswerComes, EchoInHand, OneEcho
<1>6. CASE Echo!RecvCall
  <2>1. Append(e_shown, <<buf.n>>) \in Seq(Seq(Nat)) /\ Len(Append(e_shown, <<buf.n>>)) = Len(e_shown) + 1
      BY DEF Echo!TypeOK
  <2>2. Echo!TypeOK'
    <3>1. e_shown' \in Seq(Seq(Nat)) /\ inbox' \in 0 .. 2
      <4>1. /\ e_shown' = e_shown \/ e_shown' = Append(e_shown, <<buf.n>>)
            /\ inbox' = 0 \/ inbox' = inbox
          BY <1>6 DEF Echo!RecvCall
      <4>2. e_shown \in Seq(Seq(Nat))
          BY DEF Echo!TypeOK
      <4>3. e_shown' \in Seq(Seq(Nat))
          BY ONLY <2>1, <4>1, <4>2
      <4>4. inbox' \in 0 .. 2
          BY ONLY <1>1, <4>1
      <4>5. QED BY <4>3, <4>4
    <3>2. e_main' \in {"enable", "input", "end"}
        BY <1>6 DEF Echo!RecvCall
    <3>3. QED BY <1>6, <3>1, <3>2 DEF Echo!RecvCall, Echo!TypeOK
  <2>3. AnswerComes' /\ OneEcho'
      BY <1>1, <1>6 DEF Echo!RecvCall, Echo!GUI, AnswerComes, OneEcho
  <2>4. EchoInHand'
      BY <1>1, <1>6, <2>1 DEF Echo!RecvCall, Echo!GUI, Echo!TypeOK, Echo!Programs, EchoInHand
  <2>5. QED BY <2>2, <2>3, <2>4
<1>7. CASE Echo!EnableSend
    BY <1>7 DEF Echo!EnableSend, Echo!TypeOK, Echo!Programs, AnswerComes, EchoInHand, OneEcho
<1>8. CASE Echo!Notified
    BY <1>8 DEF Echo!Notified, Echo!TypeOK, Echo!Programs, AnswerComes, EchoInHand, OneEcho
<1>9. CASE Echo!SetRead
  <2>1. Append(e_shown, <<buf.n>>) \in Seq(Seq(Nat)) /\ Len(Append(e_shown, <<buf.n>>)) = Len(e_shown) + 1
      BY DEF Echo!TypeOK
  <2>2. QED
      BY <1>1, <1>9, <2>1 DEF Echo!SetRead, Echo!TypeOK, Echo!Programs, AnswerComes, EchoInHand, OneEcho
<1>10. QED BY <1>2, <1>3, <1>4, <1>5, <1>6, <1>7, <1>8, <1>9 DEF Echo!Main

LEMMA EchoNext == EchoIInv /\ [Echo!Next]_(Echo!vars) => EchoIInv'
<1> SUFFICES ASSUME EchoIInv, [Echo!Next]_(Echo!vars) PROVE EchoIInv'
    OBVIOUS
<1>1. CASE Echo!Client
    BY <1>1, EchoDialogStep, EchoMainStep DEF Echo!Client
<1>2. CASE Echo!ServerEchoes
    BY <1>2 DEF Echo!ServerEchoes, EchoIInv, Echo!TypeOK, AnswerComes, EchoInHand, OneEcho
<1>3. CASE Echo!ServerLeaves
    BY <1>3, ZenonT(60) DEF Echo!ServerLeaves, EchoIInv, Echo!TypeOK, AnswerComes, EchoInHand, OneEcho
<1>4. CASE UNCHANGED Echo!vars
    BY <1>4 DEF Echo!vars, EchoIInv, Echo!TypeOK, AnswerComes, EchoInHand, OneEcho
<1>5. QED BY <1>1, <1>2, <1>3, <1>4 DEF Echo!Next

(* The state of the echo clients is always of its type; not more than one  *)
(* echo is ever on its way.                                                *)
THEOREM EchoTypeCorrect == Echo!Spec => []Echo!TypeOK
<1>1. EchoIInv => Echo!TypeOK
    BY DEF EchoIInv
<1>2. QED BY <1>1, EchoInit, EchoNext, PTL DEF Echo!Spec

(* For any number of texts, empty or not, the dialog of GUITCPClient waits *)
(* only for an event that is set or that ClientMain sets next, unless the  *)
(* Enter key came in the middle of EnableWindow() and each waits for the   *)
(* other: that is the only way in which it can wait in vain.               *)
THEOREM WaitsEnd == Echo!Spec => []NeverWaitsInVain
<1>1. EchoIInv => NeverWaitsInVain
    BY DEF EchoIInv, AnswerComes, NeverWaitsInVain, Echo!NeverWaitsInVain, Echo!Crossed
<1>2. QED BY <1>1, EchoInit, EchoNext, PTL DEF Echo!Spec

(* What HandOff prints of a text. *)
LEMMA EchoLine == ASSUME NEW n \in Nat PROVE Echo!Texts!LineOf(n) = <<n>>
BY DEF Echo!Texts!LineOf

LEMMA EchoRefines ==
    EchoIInv /\ [Echo!Next]_(Echo!vars) => [Echo!Texts!Next]_(Echo!Texts!vars)
<1> SUFFICES ASSUME EchoIInv, [Echo!Next]_(Echo!vars)
             PROVE  Echo!Texts!Next \/ UNCHANGED <<e_typed, e_shown>>
    BY DEF Echo!Texts!vars
<1>1. /\ e_typed \in Nat /\ Len(e_shown) \in Nat /\ buf.n \in Nat
      /\ program \in {"TCPClient", "GUITCPClient"}
    BY ClientsAssumption DEF EchoIInv, Echo!TypeOK, Echo!Programs
<1>2. CASE Echo!TypeText
    BY <1>1, <1>2 DEF Echo!TypeText, EchoIInv, EchoInHand, Echo!TypeOK, Echo!Programs,
                      Echo!Texts!Next, Echo!Texts!Write
<1>3. CASE Echo!Input
    BY <1>1, <1>3 DEF Echo!Input, EchoIInv, EchoInHand, Echo!Texts!Next, Echo!Texts!Write
<1>4. CASE Echo!RecvCall \/ Echo!SetRead
  <2>1. \/ UNCHANGED <<e_typed, e_shown>>
        \/ /\ e_shown' = Append(e_shown, <<buf.n>>) /\ e_typed' = e_typed
           /\ e_typed = Len(e_shown) + 1 /\ buf.n = e_typed
      BY <1>1, <1>4 DEF Echo!RecvCall, Echo!SetRead, Echo!GUI, EchoIInv, EchoInHand
  <2>2. Echo!Texts!LineOf(e_typed) = <<e_typed>>
      BY <1>1, EchoLine
  <2>3. CASE /\ e_shown' = Append(e_shown, <<buf.n>>) /\ e_typed' = e_typed
             /\ e_typed = Len(e_shown) + 1 /\ buf.n = e_typed
    <3>1. e_shown' = Append(e_shown, Echo!Texts!LineOf(e_typed))
        BY <2>2, <2>3
    <3>2. QED BY <1>1, <2>3, <3>1 DEF Echo!Texts!Next, Echo!Texts!Read
  <2>4. QED BY <2>1, <2>3
<1>5. CASE UNCHANGED Echo!vars
    BY <1>5 DEF Echo!vars
<1>6. CASE ~ (Echo!TypeText \/ Echo!Input \/ Echo!RecvCall \/ Echo!SetRead) /\ Echo!Next
    BY <1>6 DEF Echo!Next, Echo!Client, Echo!Dialog, Echo!Main, Echo!ClickSend, Echo!WaitReturns,
                Echo!Cancel, Echo!ConnectCall, Echo!MainWaits, Echo!SendCall, Echo!EnableSend,
                Echo!Notified,
                Echo!ServerEchoes, Echo!ServerLeaves
<1>7. QED BY <1>2, <1>3, <1>4, <1>5, <1>6

(* For any number of texts, TCPClient and GUITCPClient are done with each  *)
(* text before the next one is entered: they implement HandOff.            *)
THEOREM EchoHandsOver == Echo!Spec => Echo!ImplementsHandOff
<1>1. Echo!Init => Echo!Texts!Init
    BY DEF Echo!Init, Echo!Texts!Init
<1>2. QED BY <1>1, EchoInit, EchoNext, EchoRefines, PTL
             DEF Echo!Spec, Echo!ImplementsHandOff, Echo!Texts!Spec

-----------------------------------------------------------------------------
(* The UDP client and server. *)

(* The datagrams with text n that are under way, the one in the server's   *)
(* buffer included.                                                        *)
InServer(n) == spc = "send" /\ sbuf = n
UnderWay(n) == requests[n] + answers[n] + (IF InServer(n) THEN 1 ELSE 0)

(* The client asks for the next text when it has shown the last answer. *)
OneAtATime ==
    /\ u_pc = "input" => u_typed = Len(u_shown)
    /\ u_pc = "recv" => u_typed = Len(u_shown) + 1

(* Nothing is under way that was not asked for, and as long as no datagram *)
(* was doubled nothing that has been shown, and the rest only once.        *)
Asked ==
    /\ spc = "send" => sbuf \in UDP!Texts
    /\ \A n \in UDP!Texts : n > u_typed => UnderWay(n) = 0
    /\ doubled = 0 =>
          \A n \in UDP!Texts : UnderWay(n) <= (IF n > Len(u_shown) THEN 1 ELSE 0)

UDPIInv == UDP!TypeOK /\ OneAtATime /\ Asked /\ OwnAnswer

LEMMA UDPInit == UDP!Init => UDPIInv
<1> SUFFICES ASSUME UDP!Init PROVE UDPIInv
    OBVIOUS
<1>1. /\ u_pc = "input" /\ u_typed = 0 /\ u_shown = <<>> /\ spc = "recv" /\ sbuf = 0
      /\ lost = 0 /\ doubled = 0
      /\ requests = [n \in UDP!Texts |-> 0] /\ answers = [n \in UDP!Texts |-> 0]
    BY DEF UDP!Init, UDP!None
<1>2. UDP!TypeOK
    BY <1>1, ClientsAssumption DEF UDP!TypeOK
<1>3. \A n \in UDP!Texts : UnderWay(n) = 0
    BY <1>1 DEF UnderWay, InServer
<1>4. OneAtATime /\ Asked /\ OwnAnswer
    BY <1>1, <1>3 DEF OneAtATime, Asked, OwnAnswer, UDP!OwnAnswer
<1>5. QED BY <1>2, <1>4 DEF UDPIInv

(* What is known of a text. *)
LEMMA TextFacts ==
    ASSUME UDPIInv
    PROVE  /\ \A n \in UDP!Texts : n \in Nat /\ n > 0 /\ n <= UDPN
           /\ requests \in [UDP!Texts -> Nat] /\ answers \in [UDP!Texts -> Nat]
           /\ u_typed \in Nat /\ Len(u_shown) \in Nat /\ doubled \in Nat /\ lost \in Nat
           /\ UDPN \in Nat
BY ClientsAssumption DEF UDPIInv, UDP!TypeOK, UDP!Texts

(* Steps that put nothing new under way and show nothing. *)
LEMMA LessUnderWay ==
    ASSUME UDPIInv, UNCHANGED <<u_typed, u_shown>>,
           u_pc' \in {u_pc, "end"},
           spc' \in {"recv", "send", "end"}, sbuf' \in 0 .. UDPN,
           requests' \in [UDP!Texts -> Nat], answers' \in [UDP!Texts -> Nat],
           lost' \in Nat, doubled' \in Nat, doubled <= doubled',
           spc' = "send" => sbuf' \in UDP!Texts,
           \A n \in UDP!Texts : UnderWay(n)' <= UnderWay(n)
    PROVE  UDPIInv'
<1>1. UDP!TypeOK'
    BY DEF UDPIInv, UDP!TypeOK
<1>2. OneAtATime' /\ OwnAnswer'
    BY TextFacts DEF UDPIInv, OneAtATime, OwnAnswer, UDP!OwnAnswer
<1>3. \A n \in UDP!Texts : UnderWay(n) \in Nat /\ UnderWay(n)' \in Nat
    BY TextFacts DEF UnderWay
<1>4. Asked'
  <2>1. ASSUME NEW n \in UDP!Texts, n > u_typed' PROVE UnderWay(n)' = 0
      BY <1>3, <2>1 DEF UDPIInv, Asked
  <2>2. ASSUME NEW n \in UDP!Texts, doubled' = 0
        PROVE  UnderWay(n)' <= (IF n > Len(u_shown') THEN 1 ELSE 0)
    <3>1. doubled = 0
        BY <2>2, TextFacts
    <3>2. UnderWay(n) <= (IF n > Len(u_shown) THEN 1 ELSE 0) /\ UnderWay(n)' <= UnderWay(n)
        BY <3>1 DEF UDPIInv, Asked
    <3>3. QED BY <1>3, <3>2
  <2>3. QED BY <2>1, <2>2 DEF Asked
<1>5. QED BY <1>1, <1>2, <1>4 DEF UDPIInv

(* A text is asked for: it is the first time that anything with its number *)
(* is under way.                                                           *)
LEMMA SendToStep == ASSUME UDPIInv, UDP!SendTo PROVE UDPIInv'
<1>1. CASE u_pc' = "end" /\ UNCHANGED <<u_typed, requests>>
  <2>1. /\ u_shown' = u_shown /\ spc' = spc /\ sbuf' = sbuf /\ answers' = answers
        /\ lost' = lost /\ doubled' = doubled
      BY DEF UDP!SendTo
  <2>2. \A n \in UDP!Texts : UnderWay(n)' = UnderWay(n) /\ UnderWay(n) \in Nat
      BY <1>1, <2>1, TextFacts DEF UnderWay, InServer
  <2>3. /\ spc \in {"recv", "send", "end"} /\ sbuf \in 0 .. UDPN
        /\ spc = "send" => sbuf \in UDP!Texts
      BY DEF UDPIInv, UDP!TypeOK, Asked
  <2>4. QED BY <1>1, <2>1, <2>2, <2>3, TextFacts, LessUnderWay
<1>2. CASE /\ u_typed' = u_typed + 1 /\ requests' = [requests EXCEPT ![u_typed'] = @ + 1]
           /\ u_pc' = "recv"
  <2>1. /\ u_pc = "input" /\ u_typed < UDPN
        /\ u_shown' = u_shown /\ spc' = spc /\ sbuf' = sbuf /\ answers' = answers
        /\ lost' = lost /\ doubled' = doubled
      BY DEF UDP!SendTo
  <2>a. u_typed = Len(u_shown) /\ u_typed + 1 \in UDP!Texts
      BY <2>1, TextFacts DEF UDPIInv, OneAtATime, UDP!Texts
  <2>b. PICK m \in UDP!Texts : m = u_typed + 1
      BY <2>a
  <2>2. u_typed = Len(u_shown) /\ m \in UDP!Texts /\ m = u_typed + 1
      BY <2>a, <2>b
  <2>3. /\ requests' \in [UDP!Texts -> Nat] /\ requests'[m] = requests[m] + 1
        /\ \A n \in UDP!Texts \ {m} : requests'[n] = requests[n]
      BY <1>2, <2>2, TextFacts
  <2>4. UDP!TypeOK'
      BY <1>2, <2>1, <2>2, <2>3, TextFacts DEF UDPIInv, UDP!TypeOK
  <2>5. OneAtATime'
      BY <1>2, <2>1, <2>2 DEF OneAtATime
  <2>6. /\ \A n \in UDP!Texts \ {m} : UnderWay(n)' = UnderWay(n)
        /\ UnderWay(m)' = UnderWay(m) + 1
        /\ \A n \in UDP!Texts : UnderWay(n) \in Nat
      BY <2>1, <2>2, <2>3, TextFacts, SMTT(60) DEF UnderWay, InServer
  <2>7. UnderWay(m) = 0
      BY <2>2, TextFacts DEF UDPIInv, Asked
  <2>8. Asked'
    <3>1. ASSUME NEW n \in UDP!Texts, n > u_typed' PROVE UnderWay(n)' = 0
      <4>1. n # m /\ n > u_typed
          BY <1>2, <2>2, <3>1, TextFacts
      <4>2. QED BY <2>6, <4>1 DEF UDPIInv, Asked
    <3>2. ASSUME NEW n \in UDP!Texts, doubled' = 0
          PROVE  UnderWay(n)' <= (IF n > Len(u_shown') THEN 1 ELSE 0)
      <4>1. CASE n = m
          BY <2>1, <2>2, <2>6, <2>7, <4>1, TextFacts
      <4>2. CASE n # m
          BY <2>1, <2>6, <3>2, <4>2 DEF UDPIInv, Asked
      <4>3. QED BY <4>1, <4>2
    <3>3. spc' = "send" => sbuf' \in UDP!Texts
        BY <2>1 DEF UDPIInv, Asked
    <3>4. QED BY <3>1, <3>2, <3>3 DEF Asked
  <2>9. OwnAnswer'
      BY <2>1 DEF UDPIInv, OwnAnswer, UDP!OwnAnswer
  <2>10. QED BY <2>4, <2>5, <2>8, <2>9 DEF UDPIInv
<1>3. QED BY <1>1, <1>2 DEF UDP!SendTo

(* An answer is shown.  Without doubled datagrams nothing that was shown   *)
(* before is under way, so that it is the answer to the last request.      *)
LEMMA RecvFromStep == ASSUME UDPIInv, UDP!RecvFrom PROVE UDPIInv'
<1>1. PICK m \in UDP!Texts : /\ answers[m] > 0
                             /\ answers' = [answers EXCEPT ![m] = @ - 1]
                             /\ u_shown' = Append(u_shown, m)
    BY DEF UDP!RecvFrom
<1>2. /\ u_pc = "recv" /\ u_pc' = "input" /\ u_typed' = u_typed /\ spc' = spc /\ sbuf' = sbuf
      /\ requests' = requests /\ lost' = lost /\ doubled' = doubled
    BY DEF UDP!RecvFrom
<1>3. /\ u_typed = Len(u_shown) + 1 /\ Len(u_shown') = Len(u_shown) + 1
      /\ u_shown' \in Seq(UDP!Texts) /\ u_shown'[Len(u_shown) + 1] = m
      /\ \A k \in 1 .. Len(u_shown) : u_shown'[k] = u_shown[k]
    BY <1>1, <1>2 DEF UDPIInv, UDP!TypeOK, OneAtATime
<1>4. /\ answers' \in [UDP!Texts -> Nat] /\ answers'[m] = answers[m] - 1
      /\ \A n \in UDP!Texts \ {m} : answers'[n] = answers[n]
    BY <1>1, TextFacts
<1>5. /\ \A n \in UDP!Texts \ {m} : UnderWay(n)' = UnderWay(n)
      /\ UnderWay(m)' = UnderWay(m) - 1 /\ UnderWay(m) > 0
      /\ \A n \in UDP!Texts : UnderWay(n) \in Nat
    BY <1>1, <1>2, <1>4, TextFacts, SMTT(60) DEF UnderWay, InServer
<1>6. /\ m <= u_typed
      /\ doubled = 0 => m = u_typed /\ UnderWay(m) = 1
  <2>1. m <= u_typed
      BY <1>5, TextFacts DEF UDPIInv, Asked
  <2>2. doubled = 0 => m > Len(u_shown) /\ UnderWay(m) <= 1
      BY <1>5, TextFacts DEF UDPIInv, Asked
  <2>3. QED BY <1>3, <1>5, <2>1, <2>2, TextFacts
<1>7. UDP!TypeOK'
    BY <1>2, <1>3, <1>4 DEF UDPIInv, UDP!TypeOK
<1>8. OneAtATime'
    BY <1>2, <1>3, TextFacts DEF OneAtATime
<1>9. Asked'
  <2>1. ASSUME NEW n \in UDP!Texts, n > u_typed' PROVE UnderWay(n)' = 0
      BY <1>2, <1>5, <1>6, <2>1, TextFacts DEF UDPIInv, Asked
  <2>2. ASSUME NEW n \in UDP!Texts, doubled' = 0
        PROVE  UnderWay(n)' <= (IF n > Len(u_shown') THEN 1 ELSE 0)
    <3>1. CASE n = m
        BY <1>2, <1>3, <1>5, <1>6, <2>2, <3>1, TextFacts
    <3>2. CASE n # m
      <4>1. UnderWay(n) <= (IF n > Len(u_shown) THEN 1 ELSE 0)
          BY <1>2, <2>2 DEF UDPIInv, Asked
      <4>2. n > Len(u_shown) => n > Len(u_shown')
          BY <1>2, <1>3, <1>6, <2>2, <3>2, TextFacts
      <4>3. UnderWay(n)' = UnderWay(n) /\ UnderWay(n) \in Nat
          BY <1>5, <3>2
      <4>4. QED BY <4>1, <4>2, <4>3
    <3>3. QED BY <3>1, <3>2
  <2>3. spc' = "send" => sbuf' \in UDP!Texts
      BY <1>2 DEF UDPIInv, Asked
  <2>4. QED BY <2>1, <2>2, <2>3 DEF Asked
<1>10. OwnAnswer'
  <2>1. ASSUME NEW k \in 1 .. Len(u_shown')
        PROVE  u_shown'[k] <= k /\ (doubled' = 0 => u_shown'[k] = k)
    <3>1. CASE k = Len(u_shown) + 1
        BY <1>2, <1>3, <1>6, <3>1, TextFacts
    <3>2. CASE k # Len(u_shown) + 1
      <4>1. k \in 1 .. Len(u_shown)
          BY <1>3, <3>2, TextFacts
      <4>2. QED BY <1>2, <1>3, <4>1 DEF UDPIInv, OwnAnswer, UDP!OwnAnswer
    <3>3. QED BY <3>1, <3>2
  <2>2. QED BY <2>1 DEF OwnAnswer, UDP!OwnAnswer
<1>11. QED BY <1>7, <1>8, <1>9, <1>10 DEF UDPIInv

(* The server takes a request and sends an answer. *)
LEMMA UDPServerStep == ASSUME UDPIInv, UDP!Server PROVE UDPIInv'
<1>1. /\ u_pc' = u_pc /\ u_typed' = u_typed /\ u_shown' = u_shown
      /\ lost' = lost /\ doubled' = doubled
    BY DEF UDP!Server, UDP!ServerRecvFrom, UDP!ServerSendTo
<1>2. CASE UDP!ServerRecvFrom
  <2>1. PICK m \in UDP!Texts : /\ requests[m] > 0
                               /\ requests' = [requests EXCEPT ![m] = @ - 1]
                               /\ sbuf' = m
      BY <1>2 DEF UDP!ServerRecvFrom
  <2>2. spc = "recv" /\ spc' \in {"recv", "send"} /\ answers' = answers
      BY <1>2 DEF UDP!ServerRecvFrom
  <2>3. /\ requests' \in [UDP!Texts -> Nat] /\ requests'[m] = requests[m] - 1
        /\ \A n \in UDP!Texts \ {m} : requests'[n] = requests[n]
      BY <2>1, TextFacts
  <2>4. \A n \in UDP!Texts : UnderWay(n)' <= UnderWay(n)
      BY <2>1, <2>2, <2>3, TextFacts DEF UnderWay, InServer
  <2>5. sbuf' \in 0 .. UDPN
      BY <2>1, TextFacts
  <2>6. QED BY <1>1, <2>1, <2>2, <2>3, <2>4, <2>5, TextFacts, LessUnderWay
<1>3. CASE UDP!ServerSendTo
  <2>1. /\ spc = "send" /\ spc' = "recv" /\ requests' = requests /\ sbuf' = sbuf
        /\ answers' = [answers EXCEPT ![sbuf] = @ + 1]
      BY <1>3 DEF UDP!ServerSendTo
  <2>2. sbuf \in UDP!Texts /\ sbuf \in 0 .. UDPN
      BY <2>1 DEF UDPIInv, UDP!TypeOK, Asked
  <2>3. /\ answers' \in [UDP!Texts -> Nat] /\ answers'[sbuf] = answers[sbuf] + 1
        /\ \A n \in UDP!Texts \ {sbuf} : answers'[n] = answers[n]
      BY <2>1, <2>2, TextFacts
  <2>4. \A n \in UDP!Texts : UnderWay(n)' <= UnderWay(n)
      BY <2>1, <2>2, <2>3, TextFacts DEF UnderWay, InServer
  <2>5. QED BY <1>1, <2>1, <2>2, <2>3, <2>4, TextFacts, LessUnderWay
<1>4. QED BY <1>2, <1>3 DEF UDP!Server

(* A datagram is lost or doubled. *)
LEMMA NetworkStep == ASSUME UDPIInv, UDP!Lose \/ UDP!Double PROVE UDPIInv'
<1>1. /\ u_pc' = u_pc /\ u_typed' = u_typed /\ u_shown' = u_shown /\ spc' = spc /\ sbuf' = sbuf
    BY DEF UDP!Lose, UDP!Double
<1>2. /\ spc \in {"recv", "send", "end"} /\ sbuf \in 0 .. UDPN
      /\ spc = "send" => sbuf \in UDP!Texts
    BY DEF UDPIInv, UDP!TypeOK, Asked
<1>3. CASE UDP!Lose
  <2>1. PICK m \in UDP!Texts :
           \/ /\ requests[m] > 0
              /\ requests' = [requests EXCEPT ![m] = @ - 1] /\ answers' = answers
           \/ /\ answers[m] > 0
              /\ answers' = [answers EXCEPT ![m] = @ - 1] /\ requests' = requests
      BY <1>3 DEF UDP!Lose
  <2>2. lost' = lost + 1 /\ doubled' = doubled
      BY <1>3 DEF UDP!Lose
  <2>3. /\ requests' \in [UDP!Texts -> Nat] /\ answers' \in [UDP!Texts -> Nat]
        /\ \A n \in UDP!Texts : requests'[n] <= requests[n] /\ answers'[n] <= answers[n]
    <3>1. CASE /\ requests[m] > 0
               /\ requests' = [requests EXCEPT ![m] = @ - 1] /\ answers' = answers
        BY <3>1, TextFacts
    <3>2. CASE /\ answers[m] > 0
               /\ answers' = [answers EXCEPT ![m] = @ - 1] /\ requests' = requests
        BY <3>2, TextFacts
    <3>3. QED BY <2>1, <3>1, <3>2
  <2>4. \A n \in UDP!Texts : UnderWay(n)' <= UnderWay(n)
      BY <1>1, <2>3, TextFacts, SMTT(60) DEF UnderWay, InServer
  <2>5. QED BY <1>1, <1>2, <2>2, <2>3, <2>4, TextFacts, LessUnderWay
<1>4. CASE UDP!Double
  <2>1. PICK m \in UDP!Texts :
           \/ /\ requests[m] > 0
              /\ requests' = [requests EXCEPT ![m] = @ + 1] /\ answers' = answers
           \/ /\ answers[m] > 0
              /\ answers' = [answers EXCEPT ![m] = @ + 1] /\ requests' = requests
      BY <1>4 DEF UDP!Double
  <2>2. lost' = lost /\ doubled' = doubled + 1
      BY <1>4 DEF UDP!Double
  <2>3. /\ requests' \in [UDP!Texts -> Nat] /\ answers' \in [UDP!Texts -> Nat]
        /\ \A n \in UDP!Texts \ {m} : requests'[n] = requests[n] /\ answers'[n] = answers[n]
    <3>1. CASE /\ requests[m] > 0
               /\ requests' = [requests EXCEPT ![m] = @ + 1] /\ answers' = answers
        BY <3>1, TextFacts
    <3>2. CASE /\ answers[m] > 0
               /\ answers' = [answers EXCEPT ![m] = @ + 1] /\ requests' = requests
        BY <3>2, TextFacts
    <3>3. QED BY <2>1, <3>1, <3>2
  <2>4. \A n \in UDP!Texts \ {m} : UnderWay(n)' = UnderWay(n)
      BY <1>1, <2>3 DEF UnderWay, InServer
  <2>5. m <= u_typed
    <3>1. UnderWay(m) > 0
        BY <2>1, TextFacts DEF UnderWay
    <3>2. QED BY <3>1, TextFacts DEF UDPIInv, Asked
  <2>6. UDP!TypeOK'
      BY <1>1, <2>2, <2>3, TextFacts DEF UDPIInv, UDP!TypeOK
  <2>7. OneAtATime' /\ OwnAnswer'
      BY <1>1, <2>2, TextFacts DEF UDPIInv, OneAtATime, OwnAnswer, UDP!OwnAnswer
  <2>8. Asked'
    <3>1. ASSUME NEW n \in UDP!Texts, n > u_typed' PROVE UnderWay(n)' = 0
      <4>1. n # m /\ n > u_typed
          BY <1>1, <2>5, <3>1, TextFacts
      <4>2. QED BY <2>4, <4>1 DEF UDPIInv, Asked
    <3>2. doubled' # 0
        BY <2>2, TextFacts
    <3>3. QED BY <1>1, <1>2, <3>1, <3>2 DEF Asked
  <2>9. QED BY <2>6, <2>7, <2>8 DEF UDPIInv
<1>5. QED BY <1>3, <1>4

LEMMA UDPNext == UDPIInv /\ [UDP!Next]_(UDP!vars) => UDPIInv'
<1> SUFFICES ASSUME UDPIInv, [UDP!Next]_(UDP!vars) PROVE UDPIInv'
    OBVIOUS
<1>1. CASE UDP!SendTo
    BY <1>1, SendToStep
<1>2. CASE UDP!RecvFrom
    BY <1>2, RecvFromStep
<1>3. CASE UDP!Server
    BY <1>3, UDPServerStep
<1>4. CASE UDP!Lose \/ UDP!Double
    BY <1>4, NetworkStep
<1>5. CASE UDP!Timeout \/ UDP!RecvFromAnother \/ UDP!ServerBreaks \/ UNCHANGED UDP!vars
  <2>1. /\ u_typed' = u_typed /\ u_shown' = u_shown /\ sbuf' = sbuf /\ requests' = requests
        /\ answers' = answers /\ lost' = lost /\ doubled' = doubled
        /\ u_pc' \in {u_pc, "end"} /\ spc' \in {spc, "end"}
      BY <1>5 DEF UDP!Timeout, UDP!RecvFromAnother, UDP!ServerBreaks, UDP!vars, UDP!network
  <2>2. /\ spc \in {"recv", "send", "end"} /\ sbuf \in 0 .. UDPN
        /\ spc = "send" => sbuf \in UDP!Texts
      BY DEF UDPIInv, UDP!TypeOK, Asked
  <2>3. \A n \in UDP!Texts : UnderWay(n)' <= UnderWay(n)
      BY <2>1, TextFacts DEF UnderWay, InServer
  <2>4. QED BY <2>1, <2>2, <2>3, TextFacts, LessUnderWay
<1>6. QED BY <1>1, <1>2, <1>3, <1>4, <1>5 DEF UDP!Next, UDP!Client, UDP!Environment

(* The state of the UDP programs is always of its type. *)
THEOREM UDPTypeCorrect == UDP!Spec => []UDP!TypeOK
<1>1. UDPIInv => UDP!TypeOK
    BY DEF UDPIInv
<1>2. QED BY <1>1, UDPInit, UDPNext, PTL DEF UDP!Spec

(* For any number of texts and of lost, doubled and overtaken datagrams,   *)
(* with a time limit or without: no answer is shown before it was asked    *)
(* for, and each is the answer to its own text unless one was doubled.     *)
THEOREM AnswersBelong == UDP!Spec => []OwnAnswer
<1>1. UDPIInv => OwnAnswer
    BY DEF UDPIInv
<1>2. QED BY <1>1, UDPInit, UDPNext, PTL DEF UDP!Spec

-----------------------------------------------------------------------------
(* Framing: the frames and where they start. *)

Size(m) == Len(Frames!Frame(m))
Pairs == Nat \X Int

LEMMA Joining ==
    ASSUME NEW S, NEW s \in Seq(S), NEW t \in Seq(S)
    PROVE  /\ s \o t \in Seq(S) /\ Len(s \o t) = Len(s) + Len(t)
           /\ \A k \in 1 .. Len(s) : (s \o t)[k] = s[k]
           /\ \A k \in 1 .. Len(t) : (s \o t)[Len(s) + k] = t[k]
    OBVIOUS

LEMMA FrameParts ==
    ASSUME protocol \in Frames!Protocols, NEW m \in 1 .. Frames!Count
    PROVE  /\ m \in 1 .. Len(Lengths) /\ Lengths[m] \in 1 .. BUFSIZE
           /\ Frames!Frame(m) \in Seq(Pairs) /\ Size(m) \in Nat \ {0}
           /\ protocol = "Fixed" => Size(m) = BUFSIZE
           /\ protocol = "Variable" =>
                 /\ Size(m) = Lengths[m] + 1 /\ Frames!Frame(m)[Size(m)] = <<m, 0>>
                 /\ \A k \in 1 .. Lengths[m] : Frames!Frame(m)[k] = <<m, k>>
           /\ protocol = "FixedVariable" =>
                 /\ Size(m) = INTSIZE + Lengths[m] /\ Frames!Frame(m)[1] = <<m, -2>>
                 /\ \A k \in 1 .. Lengths[m] : Frames!Frame(m)[INTSIZE + k] = <<m, k>>
           /\ protocol = "CloseOnTransfer" => Size(m) = Lengths[m]
<1> USE ClientsAssumption
<1>1. m \in 1 .. Len(Lengths) /\ Lengths[m] \in 1 .. BUFSIZE
    BY DEF Frames!Count
<1> HIDE ClientsAssumption
<1>2. /\ Frames!Text(m) \in Seq(Pairs) /\ Len(Frames!Text(m)) = Lengths[m]
      /\ \A k \in 1 .. Lengths[m] : Frames!Text(m)[k] = <<m, k>>
    BY <1>1 DEF Frames!Text, Pairs
<1>3. ASSUME NEW what \in Int, NEW n \in Nat
      PROVE  /\ Frames!Mark(m, what, n) \in Seq(Pairs) /\ Len(Frames!Mark(m, what, n)) = n
             /\ \A k \in 1 .. n : Frames!Mark(m, what, n)[k] = <<m, what>>
    BY <1>1 DEF Frames!Mark, Pairs
<1>4. CASE protocol = "Fixed"
  <2>0. PICK r \in Nat : r = BUFSIZE - Lengths[m] /\ BUFSIZE = Lengths[m] + r
      BY <1>1, ClientsAssumption, SMTT(60)
  <2>1. Frames!Frame(m) = Frames!Text(m) \o Frames!Mark(m, -1, r)
      BY <1>4, <2>0 DEF Frames!Frame, Frames!Filler
  <2> DEFINE mark == Frames!Mark(m, -1, r)
             text == Frames!Text(m)
  <2>2. mark \in Seq(Pairs) /\ Len(mark) = r
      BY <1>3
  <2>3. Frames!Frame(m) = text \o mark /\ text \in Seq(Pairs) /\ Len(text) = Lengths[m]
      BY <1>2, <2>1
  <2> HIDE DEF mark, text
  <2>b. text \o mark \in Seq(Pairs) /\ Len(text \o mark) = Len(text) + Len(mark)
      BY <2>2, <2>3, Joining
  <2>4. Frames!Frame(m) \in Seq(Pairs) /\ Len(Frames!Frame(m)) = BUFSIZE
      BY <1>1, <2>0, <2>b, <2>2, <2>3
  <2>5. QED BY <1>1, <1>4, <2>0, <2>4 DEF Size
<1>5. CASE protocol = "Variable"
  <2>1. Frames!Frame(m) = Append(Frames!Text(m), <<m, 0>>)
      BY <1>5 DEF Frames!Frame, Frames!Newline
  <2>2. <<m, 0>> \in Pairs
      BY <1>1 DEF Pairs
  <2>3. QED BY <1>1, <1>2, <1>5, <2>1, <2>2 DEF Size
<1>6. CASE protocol = "FixedVariable"
  <2>1. Frames!Frame(m) = Frames!Mark(m, -2, INTSIZE) \o Frames!Text(m)
      BY <1>6 DEF Frames!Frame, Frames!LengthByte
  <2> DEFINE mark == Frames!Mark(m, -2, INTSIZE)
  <2>2. mark \in Seq(Pairs) /\ Len(mark) = INTSIZE /\ mark[1] = <<m, -2>> /\ INTSIZE \in Nat \ {0}
      BY <1>3, ClientsAssumption
  <2> HIDE DEF mark
  <2> DEFINE text == Frames!Text(m)
  <2>3. /\ Frames!Frame(m) = mark \o text /\ text \in Seq(Pairs) /\ Len(text) = Lengths[m]
        /\ \A k \in 1 .. Lengths[m] : text[k] = <<m, k>>
      BY <1>2, <2>1 DEF mark
  <2> HIDE DEF text
  <2>a. /\ mark \o text \in Seq(Pairs) /\ Len(mark \o text) = Len(mark) + Len(text)
        /\ \A k \in 1 .. Len(mark) : (mark \o text)[k] = mark[k]
        /\ \A k \in 1 .. Len(text) : (mark \o text)[Len(mark) + k] = text[k]
    <3>1. mark \in Seq(Pairs) /\ text \in Seq(Pairs)
        BY <2>2, <2>3
    <3>2. QED BY ONLY <3>1, Joining
  <2>4. /\ Frames!Frame(m) \in Seq(Pairs) /\ Len(Frames!Frame(m)) = INTSIZE + Lengths[m]
        /\ Frames!Frame(m)[1] = mark[1]
        /\ \A k \in 1 .. Lengths[m] : Frames!Frame(m)[INTSIZE + k] = <<m, k>>
      BY <2>2, <2>3, <2>a, SMTT(60)
  <2>5. QED BY <1>1, <1>6, <2>2, <2>4 DEF Size
<1>7. CASE protocol = "CloseOnTransfer"
    BY <1>1, <1>2, <1>7 DEF Size, Frames!Frame
<1>8. QED BY <1>4, <1>5, <1>6, <1>7 DEF Frames!Protocols

(* The bytes ahead of a frame: a finite set, and one frame more ahead of   *)
(* the next one.                                                           *)
Before(m) == UNION {{j} \X DOMAIN Frames!Frame(j) : j \in 1 .. (m - 1)}

LEMMA SameCount == \A S : Frames!Cardinality(S) = Cardinality(S)
    BY DEF Frames!Cardinality, Cardinality

LEMMA StartBefore == ASSUME NEW m PROVE Frames!Start(m) = Cardinality(Before(m))
    BY SameCount DEF Frames!Start, Before

LEMMA StartNext ==
    ASSUME protocol \in Frames!Protocols
    PROVE  /\ Frames!Start(1) = 0
           /\ \A m \in 1 .. (Frames!Count + 1) : IsFiniteSet(Before(m)) /\ Frames!Start(m) \in Nat
           /\ \A m \in 1 .. Frames!Count : Frames!Start(m + 1) = Frames!Start(m) + Size(m)
<1>0. Frames!Count \in Nat
    BY ClientsAssumption DEF Frames!Count
<1>1. Frames!Start(1) = 0
  <2>1. Before(1) = {}
      BY DEF Before
  <2>2. QED BY <2>1, StartBefore, FS_EmptySet
<1>2. ASSUME NEW j \in 1 .. Frames!Count
      PROVE  /\ IsFiniteSet({j} \X DOMAIN Frames!Frame(j))
             /\ Cardinality({j} \X DOMAIN Frames!Frame(j)) = Size(j)
  <2>1. DOMAIN Frames!Frame(j) = 1 .. Size(j) /\ Size(j) \in Nat
      BY FrameParts DEF Size
  <2>2. IsFiniteSet(1 .. Size(j)) /\ Cardinality(1 .. Size(j)) = Size(j)
      BY <2>1, FS_Interval
  <2>3. IsFiniteSet({j}) /\ Cardinality({j}) = 1
      BY FS_Singleton
  <2>4. IsFiniteSet({j} \X (1 .. Size(j))) /\ Cardinality({j} \X (1 .. Size(j))) = 1 * Size(j)
      BY <2>2, <2>3, FS_Product, ZenonT(60)
  <2>5. QED BY <2>1, <2>4
<1>3. ASSUME NEW m \in 1 .. (Frames!Count + 1) PROVE IsFiniteSet(Before(m)) /\ Frames!Start(m) \in Nat
  <2> DEFINE Part(j) == {j} \X DOMAIN Frames!Frame(j)
             parts == {Part(j) : j \in 1 .. (m - 1)}
             f == [j \in 1 .. (m - 1) |-> Part(j)]
  <2>1. IsFiniteSet(1 .. (m - 1))
      BY <1>0, FS_Interval
  <2>2. f \in Surjection(1 .. (m - 1), parts)
      BY DEF Surjection
  <2>3. IsFiniteSet(parts)
      BY <2>1, <2>2, FS_Surjection
  <2>4. ASSUME NEW p \in parts PROVE IsFiniteSet(p)
    <3>1. PICK j \in 1 .. (m - 1) : p = Part(j)
        OBVIOUS
    <3>2. j \in 1 .. Frames!Count
        BY <1>0
    <3>3. QED BY <1>2, <3>1, <3>2
  <2>5. IsFiniteSet(UNION parts)
      BY <2>3, <2>4, FS_UNION
  <2>6. Before(m) = UNION parts
      BY DEF Before
  <2>7. QED BY <2>5, <2>6, StartBefore, FS_CardinalityType
<1>4. ASSUME NEW m \in 1 .. Frames!Count PROVE Frames!Start(m + 1) = Frames!Start(m) + Size(m)
  <2> DEFINE part == {m} \X DOMAIN Frames!Frame(m)
  <2>1. Before(m + 1) = Before(m) \cup part
      BY <1>0 DEF Before
  <2>2. Before(m) \cap part = {}
      BY <1>0 DEF Before
  <2>3. IsFiniteSet(Before(m)) /\ IsFiniteSet(part) /\ Cardinality(part) = Size(m)
      BY <1>0, <1>2, <1>3
  <2>4. Cardinality(Before(m) \cup part)
           = Cardinality(Before(m)) + Cardinality(part) - Cardinality(Before(m) \cap part)
      BY <2>3, FS_Union
  <2>5. Cardinality(Before(m)) \in Nat /\ Size(m) \in Nat /\ Cardinality({}) = 0
      BY <2>3, FS_CardinalityType, FS_EmptySet, FrameParts
  <2>a. Cardinality(Before(m) \cap part) = 0 /\ Cardinality(part) = Size(m)
      BY <2>2, <2>3, FS_EmptySet, Zenon
  <2>b. Cardinality(Before(m + 1)) = Cardinality(Before(m) \cup part)
      BY <2>1, Zenon
  <2>6. Frames!Start(m) = Cardinality(Before(m)) /\ Frames!Start(m + 1) = Cardinality(Before(m + 1))
      BY StartBefore
  <2> HIDE DEF part
  <2>7. QED BY <2>a, <2>b, <2>4, <2>5, <2>6
<1>5. QED BY <1>1, <1>3, <1>4

LEMMA StartOrder ==
    ASSUME protocol \in Frames!Protocols,
           NEW a \in 1 .. (Frames!Count + 1), NEW b \in 1 .. (Frames!Count + 1), a <= b
    PROVE  Frames!Start(a) <= Frames!Start(b)
<1>1. Frames!Count \in Nat
    BY ClientsAssumption DEF Frames!Count
<1>2. Before(a) \subseteq Before(b)
    BY <1>1 DEF Before
<1>3. IsFiniteSet(Before(b))
    BY StartNext
<1>4. QED BY <1>2, <1>3, FS_Subset, StartBefore

(* The k-th byte of frame m is where it should be in the stream. *)
LEMMA CellAt ==
    ASSUME protocol \in Frames!Protocols, NEW m \in 1 .. Frames!Count, NEW k \in 1 .. Size(m)
    PROVE  Frames!Cell(Frames!Start(m) + k) = Frames!Frame(m)[k]
<1> DEFINE at == Frames!Start(m) + k
           In(q) == Frames!Start(q) < at /\ at <= Frames!Start(q + 1)
<1>1. Frames!Count \in Nat /\ Size(m) \in Nat
    BY ClientsAssumption, FrameParts DEF Frames!Count
<1>2. \A q \in 1 .. (Frames!Count + 1) : Frames!Start(q) \in Nat
    BY StartNext
<1>3. In(m)
    BY <1>1, <1>2, StartNext
<1>4. ASSUME NEW q \in 1 .. Frames!Count, In(q) PROVE q = m
  <2>1. CASE q < m
    <3>1. Frames!Start(q + 1) <= Frames!Start(m)
        BY <1>1, <2>1, StartOrder
    <3>2. QED BY <1>1, <1>2, <1>3, <1>4, <3>1
  <2>2. CASE m < q
    <3>1. Frames!Start(m + 1) <= Frames!Start(q)
        BY <1>1, <2>2, StartOrder
    <3>2. QED BY <1>1, <1>2, <1>3, <1>4, <3>1
  <2>3. QED BY <1>1, <2>1, <2>2
<1>5. Frames!FrameAt(at) = m
  <2>1. Frames!FrameAt(at) = CHOOSE q \in 1 .. Frames!Count : In(q)
      BY DEF Frames!FrameAt
  <2> HIDE DEF In
  <2>2. QED BY <1>3, <1>4, <2>1
<1>6. Frames!Cell(at) = Frames!Frame(m)[at - Frames!Start(m)]
    BY <1>5 DEF Frames!Cell
<1>7. at - Frames!Start(m) = k
    BY <1>1, <1>2
<1>8. QED BY <1>6, <1>7

-----------------------------------------------------------------------------
(* Framing: the invariant. *)

Serving == pc \in {"recv", "body", "close"}

FramingTyped ==
    /\ Frames!SocketsTypeOK
    /\ protocol \in Frames!Protocols
    /\ pc \in {"accept", "recv", "body", "close", "end"}
    /\ client_sock \in Frames!Fds \cup {0}
    /\ len \in Nat
    /\ Len(ahead) <= AHEAD
    /\ line \in Seq(Pairs) /\ Len(line) < LINESIZE
    /\ printed \in [Clients -> Seq(Seq(Pairs))]

(* The server serves a client, and only the Variable one, and only while   *)
(* it receives, has bytes it has not printed.                              *)
OneClient ==
    /\ Serving => /\ client_sock \in Frames!Fds /\ fdt[client_sock] \in Clients
                  /\ link[fdt[client_sock]] = "open"
    /\ pc = "body" => protocol = "FixedVariable"
    /\ ahead # <<>> \/ line # <<>> => pc = "recv" /\ protocol = "Variable"

(* A client sends no more than its frames, and nothing is taken from it or *)
(* printed for it before it has been accepted.                             *)
InTime ==
    /\ \A c \in Clients : taken[c] <= sent[c] /\ sent[c] <= Frames!Start(Frames!Count + 1)
    /\ \A c \in Clients : link[c] \in {"new", "backlog"} => taken[c] = 0 /\ printed[c] = <<>>

(* What was printed: the first messages, or these and a piece of the next  *)
(* one, which is as much of it as came before the end of the stream.       *)
FirstMessages(texts, n) ==
    /\ n <= Len(texts) /\ n <= Frames!Count
    /\ \A j \in 1 .. n : texts[j] = Frames!Printed(j)
Whole(texts) == FirstMessages(texts, Len(texts))
Cut(texts) ==
    /\ texts # <<>> /\ Len(texts) <= Frames!Count
    /\ FirstMessages(texts, Len(texts) - 1)
    /\ Frames!IsPrefix(texts[Len(texts)], Frames!Printed(Len(texts)))
TextsKept == \A c \in Clients : Whole(printed[c]) \/ (peer[c] # "up" /\ Cut(printed[c]))

(* The server is in the frame that follows what it has printed: behind its *)
(* length, or behind the bytes in line, and ahead are the next ones.       *)
AllCells == {Frames!Cell(k) : k \in Nat}
InFrame(c) ==
    LET m == Len(printed[c]) + 1
    IN  /\ Whole(printed[c])
        /\ taken[c] = Frames!Start(m) + Len(line) + Len(ahead)
                         + (IF pc = "body" THEN INTSIZE ELSE 0)
        /\ pc = "body" => m <= Frames!Count /\ len = Lengths[m]
        /\ line # <<>> => m <= Frames!Count /\ Len(line) < Size(m)
        /\ \A k \in 1 .. Len(line) : line[k] = Frames!Frame(m)[k]
        /\ ahead \in Seq(AllCells)
        /\ \A k \in 1 .. Len(ahead) : ahead[k] = Frames!Cell(Frames!Start(m) + Len(line) + k)

(* Nothing is left to be received from c, nor will there be. *)
StreamOver(c) == peer[c] # "up" /\ taken[c] = sent[c] /\ ahead = <<>> /\ line = <<>>

Position ==
    pc \in {"recv", "body"} => InFrame(fdt[client_sock]) \/ StreamOver(fdt[client_sock])

FramingIInv == FramingTyped /\ OneClient /\ InTime /\ TextsKept /\ Position

-----------------------------------------------------------------------------
(* Framing: lemmas. *)

LEMMA SameFrames ==
    ASSUME protocol' = protocol
    PROVE  /\ Frames!Count' = Frames!Count
           /\ AllCells' = AllCells
           /\ \A m : /\ Frames!Frame(m)' = Frames!Frame(m) /\ Size(m)' = Size(m)
                     /\ Frames!Start(m)' = Frames!Start(m)
                     /\ Frames!Printed(m)' = Frames!Printed(m)
                     /\ Frames!Cell(m)' = Frames!Cell(m)
<1>1. Frames!Count' = Frames!Count
    BY DEF Frames!Count
<1>2. \A m : Frames!Frame(m)' = Frames!Frame(m)
    BY DEF Frames!Frame, Frames!Text, Frames!Mark
<1>3. \A m : Size(m)' = Size(m)
    BY <1>2 DEF Size
<1>4. \A m : Frames!Start(m)' = Frames!Start(m)
    BY <1>2 DEF Frames!Start
<1>5. \A m : Frames!Printed(m)' = Frames!Printed(m)
    BY <1>2 DEF Frames!Printed, Frames!Text
<1>6. \A m : Frames!FrameAt(m)' = Frames!FrameAt(m)
    BY <1>1, <1>4 DEF Frames!FrameAt
<1>7. \A m : Frames!Cell(m)' = Frames!Cell(m)
    BY <1>2, <1>4, <1>6 DEF Frames!Cell
<1>8. AllCells' = AllCells
    BY <1>7 DEF AllCells
<1>9. QED BY <1>1, <1>2, <1>3, <1>4, <1>5, <1>7, <1>8

LEMMA SameTexts ==
    ASSUME protocol' = protocol
    PROVE  \A t : (Whole(t)' <=> Whole(t)) /\ (Cut(t)' <=> Cut(t))
<1> SUFFICES ASSUME NEW t PROVE (Whole(t)' <=> Whole(t)) /\ (Cut(t)' <=> Cut(t))
    OBVIOUS
<1>1. \A n : FirstMessages(t, n)' <=> FirstMessages(t, n)
    BY SameFrames DEF FirstMessages
<1>2. Frames!Count' = Frames!Count /\ Frames!Printed(Len(t))' = Frames!Printed(Len(t))
    BY SameFrames
<1>3. QED BY <1>1, <1>2 DEF Whole, Cut, Frames!IsPrefix

(* One text more. *)
LEMMA NextText ==
    ASSUME NEW texts \in Seq(Seq(Pairs)), Whole(texts), NEW x \in Seq(Pairs),
           Len(texts) + 1 <= Frames!Count
    PROVE  /\ x = Frames!Printed(Len(texts) + 1) => Whole(Append(texts, x))
           /\ Frames!IsPrefix(x, Frames!Printed(Len(texts) + 1)) => Cut(Append(texts, x))
<1> DEFINE u == Append(texts, x)
<1>0. Frames!Count \in Nat
    BY ClientsAssumption DEF Frames!Count
<1>1. /\ Len(texts) \in Nat /\ Len(u) = Len(texts) + 1 /\ u[Len(texts) + 1] = x /\ u # <<>>
      /\ \A j \in 1 .. Len(texts) : u[j] = texts[j]
    OBVIOUS
<1> HIDE DEF u
<1>2. \A j \in 1 .. Len(texts) : texts[j] = Frames!Printed(j)
    BY DEF Whole, FirstMessages
<1>3. ASSUME x = Frames!Printed(Len(texts) + 1) PROVE Whole(u)
  <2>1. ASSUME NEW j \in 1 .. Len(u) PROVE u[j] = Frames!Printed(j)
    <3>1. CASE j = Len(texts) + 1
        BY <1>1, <1>3, <3>1
    <3>2. CASE j \in 1 .. Len(texts)
        BY <1>1, <1>2, <3>2
    <3>3. QED BY <1>1, <3>1, <3>2
  <2>2. QED BY <1>0, <1>1, <2>1 DEF Whole, FirstMessages
<1>4. ASSUME Frames!IsPrefix(x, Frames!Printed(Len(texts) + 1)) PROVE Cut(u)
  <2>1. Len(u) - 1 = Len(texts)
      BY <1>1
  <2>2. FirstMessages(u, Len(u) - 1)
      BY <1>0, <1>1, <1>2, <2>1 DEF FirstMessages
  <2>3. Frames!IsPrefix(u[Len(u)], Frames!Printed(Len(u)))
      BY <1>1, <1>4
  <2>4. QED BY <1>1, <2>2, <2>3 DEF Cut
<1>5. QED BY <1>3, <1>4 DEF u

(* A client without a new text keeps its texts. *)
LEMMA TextsStay ==
    ASSUME TextsKept, protocol' = protocol, NEW c \in Clients,
           printed'[c] = printed[c], peer[c] # "up" => peer'[c] # "up"
    PROVE  (Whole(printed[c]) \/ (peer[c] # "up" /\ Cut(printed[c])))'
<1>1. PICK t : t = printed[c]
    OBVIOUS
<1>2. Whole(t) \/ (peer[c] # "up" /\ Cut(t))
    BY <1>1 DEF TextsKept
<1>3. Whole(t)' \/ (peer'[c] # "up" /\ Cut(t)')
    BY <1>2, SameTexts
<1>4. QED BY <1>1, <1>3 DEF Whole, Cut, FirstMessages

(* The bytes of a frame are where the server looks for them. *)
LEMMA NextCells ==
    ASSUME protocol \in Frames!Protocols, NEW m \in 1 .. Frames!Count,
           NEW from \in 0 .. Size(m), NEW n \in 0 .. (Size(m) - from),
           NEW c, taken[c] = Frames!Start(m) + from
    PROVE  /\ Frames!Cells(c, n) = [k \in 1 .. n |-> Frames!Frame(m)[from + k]]
           /\ Frames!Cells(c, n) \in Seq(Pairs)
<1>1. Size(m) \in Nat /\ Frames!Frame(m) \in Seq(Pairs)
    BY FrameParts
<1>1a. Frames!Start(m) \in Nat
  <2>1. m \in 1 .. (Frames!Count + 1)
      BY ClientsAssumption DEF Frames!Count
  <2>2. QED BY <2>1, StartNext
<1>2. ASSUME NEW k \in 1 .. n
      PROVE Frames!Cell(taken[c] + k) = Frames!Frame(m)[from + k] /\ Frames!Frame(m)[from + k] \in Pairs
  <2>1. from + k \in 1 .. Size(m) /\ taken[c] + k = Frames!Start(m) + (from + k)
      BY <1>1, <1>1a
  <2>2. Frames!Cell(Frames!Start(m) + (from + k)) = Frames!Frame(m)[from + k]
      BY <2>1, CellAt
  <2>3. Frames!Frame(m)[from + k] \in Pairs
      BY <1>1, <2>1 DEF Size
  <2>4. QED BY <2>1, <2>2, <2>3
<1>3. Frames!Cells(c, n) = [k \in 1 .. n |-> Frames!Frame(m)[from + k]]
    BY <1>2 DEF Frames!Cells
<1>4. n \in Nat
    BY <1>1
<1>5. [k \in 1 .. n |-> Frames!Frame(m)[from + k]] \in Seq(Pairs)
    BY <1>2, <1>4
<1>6. QED BY <1>3, <1>5

-----------------------------------------------------------------------------
(* Framing: every step keeps the invariant. *)

LEMMA FramingInit == Frames!Init => FramingIInv
<1> SUFFICES ASSUME Frames!Init PROVE FramingIInv
    OBVIOUS
<1> USE DEF Frames!Init, Frames!SocketsInit
<1>1. FramingTyped
  <2>1. fdt \in [Frames!Fds -> Clients \cup Listeners \cup {Free}]
      OBVIOUS
  <2>2. \A c \in Clients : printed[c] = <<>> /\ out[c] = <<>>
      OBVIOUS
  <2>3. printed \in [Clients -> Seq(Seq(Pairs))] /\ out \in [Clients -> Seq(Frames!Bytes)]
      BY <2>2
  <2>4. /\ link \in [Clients -> {"new", "backlog", "open", "closed"}]
        /\ peer \in [Clients -> {"up", "fin", "rst"}]
        /\ sent \in [Clients -> Nat] /\ taken \in [Clients -> Nat] /\ got \in [Clients -> Nat]
      OBVIOUS
  <2>5. Len(<<>>) <= AHEAD /\ Len(<<>>) < LINESIZE /\ <<>> \in Seq(Pairs)
      BY ClientsAssumption
  <2>6. QED BY <2>1, <2>3, <2>4, <2>5 DEF FramingTyped, Frames!SocketsTypeOK
<1>2. OneClient
    BY DEF OneClient, Serving
<1>3. InTime
  <2>1. Frames!Start(Frames!Count + 1) \in Nat
    <3>1. Frames!Count + 1 \in 1 .. (Frames!Count + 1)
        BY ClientsAssumption DEF Frames!Count
    <3>2. QED BY <3>1, StartNext
  <2>2. QED BY <2>1 DEF InTime
<1>4. TextsKept
    BY ClientsAssumption DEF TextsKept, Whole, FirstMessages, Frames!Count
<1>5. QED BY <1>1, <1>2, <1>3, <1>4 DEF FramingIInv, Position

LEMMA FramingAccepts == FramingIInv /\ Frames!AcceptCall => FramingIInv'
<1> SUFFICES ASSUME FramingIInv, Frames!AcceptCall PROVE FramingIInv'
    OBVIOUS
<1> USE DEF FramingIInv
<1>1. PICK c \in Clients, fd \in Frames!Fds : Frames!Accept(listen_sock, c, fd) /\ client_sock' = fd
    BY DEF Frames!AcceptCall
<1>2. /\ pc = "accept" /\ pc' = "recv" /\ client_sock' = fd /\ fdt[fd] = Free
      /\ link[c] = "backlog" /\ link' = [link EXCEPT ![c] = "open"]
      /\ fdt' = [fdt EXCEPT ![fd] = c]
      /\ peer' = peer /\ sent' = sent /\ taken' = taken /\ out' = out /\ got' = got
      /\ protocol' = protocol /\ len' = len /\ ahead' = ahead /\ line' = line
      /\ printed' = printed
    BY <1>1 DEF Frames!AcceptCall, Frames!Accept, Frames!Backlog, Frames!LowestFree
<1>3. ahead = <<>> /\ line = <<>> /\ taken[c] = 0 /\ printed[c] = <<>>
    BY <1>2 DEF OneClient, InTime
<1>4. FramingTyped'
    BY <1>2 DEF FramingTyped, Frames!SocketsTypeOK
<1>5. fdt'[fd] = c /\ fd \in Frames!Fds /\ link'[c] = "open"
    BY <1>2 DEF FramingTyped, Frames!SocketsTypeOK
<1>6. OneClient'
    BY <1>2, <1>3, <1>5 DEF OneClient, Serving
<1>7. InTime'
    BY <1>2, SameFrames DEF InTime, FramingTyped, Frames!SocketsTypeOK
<1>8. TextsKept'
  <2> SUFFICES ASSUME NEW d \in Clients
               PROVE (Whole(printed[d]) \/ (peer[d] # "up" /\ Cut(printed[d])))'
      BY DEF TextsKept
  <2>1. QED BY <1>2, TextsStay
<1>9. InFrame(c)'
  <2>1. Frames!Start(1)' = 0 /\ taken'[c] = 0 /\ printed'[c] = <<>> /\ line' = <<>> /\ ahead' = <<>>
      BY <1>2, <1>3, SameFrames, StartNext DEF FramingTyped
  <2>2. Len(printed'[c]) + 1 = 1 /\ Len(line') = 0 /\ Len(ahead') = 0
      BY <2>1
  <2>3. FirstMessages(<<>>, 0)'
      BY <1>2, SameFrames, ClientsAssumption DEF FirstMessages, Frames!Count
  <2>4. Whole(printed[c])'
      BY <2>1, <2>3 DEF Whole, FirstMessages
  <2>5. QED BY <1>2, <2>1, <2>2, <2>4 DEF InFrame
<1>10. Position'
    BY <1>2, <1>5, <1>9, SMTT(60) DEF Position, InFrame, StreamOver
<1>11. QED BY <1>4, <1>6, <1>7, <1>8, <1>10

LEMMA FramingCloses ==
    FramingIInv /\ (Frames!AcceptBreaks \/ Frames!CloseCall) => FramingIInv'
<1> SUFFICES ASSUME FramingIInv, Frames!AcceptBreaks \/ Frames!CloseCall PROVE FramingIInv'
    OBVIOUS
<1> USE DEF FramingIInv
<1>1. /\ pc \in {"accept", "close"} /\ pc' \in {"accept", "end"} /\ client_sock' \in Frames!Fds \cup {0}
      /\ peer' = peer /\ sent' = sent /\ taken' = taken /\ out' = out /\ got' = got
      /\ protocol' = protocol /\ len' = len /\ ahead' = ahead /\ line' = line
      /\ printed' = printed
    BY DEF Frames!AcceptBreaks, Frames!CloseCall, Frames!CloseAll, Frames!Close, FramingTyped
<1>2. /\ link' \in [Clients -> {"new", "backlog", "open", "closed"}]
      /\ fdt' \in [Frames!Fds -> Clients \cup Listeners \cup {Free}]
      /\ \A c \in Clients : link'[c] \in {link[c], "closed"}
  <2>1. CASE Frames!AcceptBreaks
      BY <2>1 DEF Frames!AcceptBreaks, Frames!CloseAll, FramingTyped, Frames!SocketsTypeOK
  <2>2. CASE Frames!CloseCall
      BY <2>2 DEF Frames!CloseCall, Frames!Close, FramingTyped, Frames!SocketsTypeOK
  <2>3. QED BY <2>1, <2>2
<1>3. ahead = <<>> /\ line = <<>>
    BY <1>1 DEF OneClient
<1>4. FramingTyped'
    BY <1>1, <1>2 DEF FramingTyped, Frames!SocketsTypeOK
<1>5. OneClient' /\ Position'
    BY <1>1, <1>3 DEF OneClient, Serving, Position
<1>6. InTime'
    BY <1>1, <1>2, SameFrames DEF InTime
<1>7. TextsKept'
  <2> SUFFICES ASSUME NEW d \in Clients
               PROVE (Whole(printed[d]) \/ (peer[d] # "up" /\ Cut(printed[d])))'
      BY DEF TextsKept
  <2>1. QED BY <1>1, TextsStay
<1>8. QED BY <1>4, <1>5, <1>6, <1>7

LEMMA FramingRemote == FramingIInv /\ Frames!Environment => FramingIInv'
<1> SUFFICES ASSUME FramingIInv, Frames!Environment PROVE FramingIInv'
    OBVIOUS
<1> USE DEF FramingIInv
<1>1. PICK d \in Clients : Frames!Remote(d) /\ sent'[d] <= Frames!Start(Frames!Count + 1)
    BY DEF Frames!Environment
<1>2. /\ protocol' = protocol /\ pc' = pc /\ client_sock' = client_sock /\ len' = len
      /\ ahead' = ahead /\ line' = line /\ printed' = printed
    BY DEF Frames!Environment, Frames!server
<1>3. /\ Frames!SocketsTypeOK' /\ taken' = taken /\ fdt' = fdt
      /\ \A c \in Clients : /\ sent'[c] = sent[c] \/ (c = d /\ sent'[c] = sent[c] + 1 /\ peer[c] = "up")
                            /\ link'[c] = link[c] \/ link[c] = "new"
                            /\ peer[c] # "up" => peer'[c] # "up"
  <2> USE DEF FramingTyped, Frames!SocketsTypeOK
  <2>1. CASE Frames!Connect(d)
      BY <2>1 DEF Frames!Connect
  <2>2. CASE Frames!ClientSend(d)
      BY <2>2 DEF Frames!ClientSend
  <2>3. CASE Frames!ClientRead(d)
      BY <2>3 DEF Frames!ClientRead
  <2>4. CASE Frames!ClientFin(d)
      BY <2>4 DEF Frames!ClientFin
  <2>5. CASE Frames!ClientReset(d)
      BY <2>5 DEF Frames!ClientReset
  <2>6. QED BY <1>1, <2>1, <2>2, <2>3, <2>4, <2>5 DEF Frames!Remote
<1>4. FramingTyped'
    BY <1>2, <1>3 DEF FramingTyped
<1>5. OneClient'
    BY <1>2, <1>3 DEF OneClient, Serving
<1>6. InTime'
  <2>1. PICK most : most = Frames!Start(Frames!Count + 1) /\ most = Frames!Start(Frames!Count + 1)'
      BY <1>2, SameFrames
  <2>2. ASSUME NEW c \in Clients PROVE taken'[c] <= sent'[c] /\ sent'[c] <= most
    <3>1. taken[c] <= sent[c] /\ sent[c] <= most /\ sent[c] \in Nat /\ taken[c] \in Nat
        BY <2>1 DEF InTime, FramingTyped, Frames!SocketsTypeOK
    <3>2. sent'[c] = sent[c] \/ (c = d /\ sent'[c] = sent[c] + 1)
        BY <1>3
    <3>3. sent'[d] <= most
        BY <1>1, <2>1
    <3>4. QED BY <1>3, <3>1, <3>2, <3>3
  <2>3. ASSUME NEW c \in Clients, link'[c] \in {"new", "backlog"}
        PROVE taken'[c] = 0 /\ printed'[c] = <<>>
      BY <1>2, <1>3, <2>3 DEF InTime
  <2>4. QED BY <2>1, <2>2, <2>3 DEF InTime
<1>7. TextsKept'
  <2> SUFFICES ASSUME NEW c \in Clients
               PROVE (Whole(printed[c]) \/ (peer[c] # "up" /\ Cut(printed[c])))'
      BY DEF TextsKept
  <2>1. QED BY <1>2, <1>3, TextsStay
<1>8. Position'
  <2> SUFFICES ASSUME pc \in {"recv", "body"} PROVE Position'
      BY <1>2 DEF Position
  <2>1. PICK c \in Clients : c = fdt[client_sock] /\ (InFrame(c) \/ StreamOver(c))
      BY DEF Position, OneClient, Serving
  <2>2. CASE StreamOver(c)
    <3>1. StreamOver(c)'
        BY <1>2, <1>3, <2>2 DEF StreamOver
    <3>2. QED BY <1>2, <1>3, <2>1, <3>1 DEF Position, StreamOver
  <2>3. CASE InFrame(c)
    <3>1. InFrame(c)'
        BY <1>2, <1>3, <2>3, SameFrames, SameTexts DEF InFrame, Whole, FirstMessages
    <3>2. QED BY <1>2, <1>3, <2>1, <3>1 DEF Position, InFrame, Whole, FirstMessages
  <2>4. QED BY <2>1, <2>2, <2>3
<1>9. QED BY <1>4, <1>5, <1>6, <1>7, <1>8

(* The client being served, and the frame it is in. *)
LEMMA InService ==
    ASSUME FramingIInv, pc \in {"recv", "body"}
    PROVE  \E c \in Clients :
              /\ c = Frames!Peer /\ c = fdt[client_sock] /\ link[c] = "open"
              /\ taken[c] \in Nat /\ sent[c] \in Nat /\ taken[c] <= sent[c]
              /\ printed[c] \in Seq(Seq(Pairs))
              /\ StreamOver(c) \/
                    /\ InFrame(c)
                    /\ Frames!Start(Len(printed[c]) + 1) \in Nat
                    /\ taken[c] < sent[c] => Len(printed[c]) + 1 \in 1 .. Frames!Count
<1>0. Frames!Count \in Nat
    BY ClientsAssumption DEF Frames!Count
<1>1. PICK c \in Clients : c = fdt[client_sock] /\ link[c] = "open"
    BY DEF FramingIInv, OneClient, Serving
<1>2. /\ taken[c] \in Nat /\ sent[c] \in Nat /\ taken[c] <= sent[c] /\ printed[c] \in Seq(Seq(Pairs))
      /\ sent[c] <= Frames!Start(Frames!Count + 1)
    BY DEF FramingIInv, InTime, FramingTyped, Frames!SocketsTypeOK
<1>3. ASSUME InFrame(c)
      PROVE  /\ Frames!Start(Len(printed[c]) + 1) \in Nat
             /\ taken[c] < sent[c] => Len(printed[c]) + 1 \in 1 .. Frames!Count
  <2>1. Len(printed[c]) <= Frames!Count /\ Len(printed[c]) \in Nat
      BY <1>2, <1>3 DEF InFrame, Whole, FirstMessages
  <2>2. Frames!Start(Len(printed[c]) + 1) \in Nat
      BY <1>0, <2>1, StartNext DEF FramingIInv, FramingTyped
  <2>3. taken[c] >= Frames!Start(Len(printed[c]) + 1)
      BY <1>3, <2>2, ClientsAssumption DEF InFrame, FramingIInv, FramingTyped
  <2>4. QED BY <1>0, <1>2, <2>1, <2>2, <2>3
<1>4. QED BY <1>1, <1>2, <1>3 DEF FramingIInv, Position, Frames!Peer

(* recv() with MSG_WAITALL, or of what has come. *)
LEMMA FramingTakes ==
    ASSUME FramingIInv, NEW c \in Clients, link[c] = "open", NEW n \in Nat \ {0},
           Frames!Take(c, n), taken[c] + n <= sent[c], protocol' = protocol
    PROVE  /\ Frames!SocketsTypeOK' /\ fdt' = fdt /\ peer' = peer /\ sent' = sent
           /\ taken'[c] = taken[c] + n
           /\ \A d \in Clients \ {c} : taken'[d] = taken[d]
           /\ (\A d \in Clients \ {c} : printed'[d] = printed[d]) => InTime'
<1> USE DEF FramingIInv
<1>1. /\ link' = link /\ peer' = peer /\ sent' = sent /\ out' = out /\ got' = got /\ fdt' = fdt
      /\ taken' = [taken EXCEPT ![c] = @ + n] /\ taken \in [Clients -> Nat] /\ sent \in [Clients -> Nat]
    BY DEF Frames!Take, FramingTyped, Frames!SocketsTypeOK
<1>2. Frames!SocketsTypeOK'
    BY <1>1 DEF FramingTyped, Frames!SocketsTypeOK
<1>3. taken[c] < sent[c] /\ taken'[c] = taken[c] + n
    BY <1>1
<1>4. ASSUME \A d \in Clients \ {c} : printed'[d] = printed[d] PROVE InTime'
  <2>1. PICK most : most = Frames!Start(Frames!Count + 1) /\ most = Frames!Start(Frames!Count + 1)'
      BY SameFrames
  <2>2. ASSUME NEW d \in Clients PROVE taken'[d] <= sent'[d] /\ sent'[d] <= most
      BY <1>1, <2>1 DEF InTime
  <2>3. ASSUME NEW d \in Clients, link'[d] \in {"new", "backlog"}
        PROVE taken'[d] = 0 /\ printed'[d] = <<>>
      BY <1>1, <1>4, <2>3 DEF InTime
  <2>4. QED BY <2>1, <2>2, <2>3 DEF InTime
<1>5. QED BY <1>1, <1>2, <1>3, <1>4

(* A text is printed for c: the next message, or the piece of it that came *)
(* before the end of the stream.                                           *)
LEMMA FramingShows ==
    ASSUME FramingIInv, NEW c \in Clients, InFrame(c), NEW m, m = Len(printed[c]) + 1,
           m \in 1 .. Frames!Count, NEW x \in Seq(Pairs),
           printed' = [printed EXCEPT ![c] = Append(@, x)], peer' = peer, protocol' = protocol,
           \/ x = Frames!Printed(m)
           \/ peer[c] # "up" /\ Frames!IsPrefix(x, Frames!Printed(m))
    PROVE  /\ printed' \in [Clients -> Seq(Seq(Pairs))] /\ TextsKept'
           /\ \A d \in Clients \ {c} : printed'[d] = printed[d]
           /\ Len(printed'[c]) = m
           /\ x = Frames!Printed(m) => Whole(printed[c])'
<1>1. printed \in [Clients -> Seq(Seq(Pairs))]
    BY DEF FramingIInv, FramingTyped
<1>2. PICK t \in Seq(Seq(Pairs)) : t = printed[c]
    BY <1>1
<1>3. PICK u : u = Append(t, x)
    OBVIOUS
<1>4. printed'[c] = u /\ u \in Seq(Seq(Pairs)) /\ Len(u) = m
    BY <1>1, <1>2, <1>3
<1>5. Whole(t) /\ Len(t) + 1 <= Frames!Count /\ m = Len(t) + 1
    BY <1>2, ClientsAssumption DEF InFrame, Frames!Count
<1>6. /\ x = Frames!Printed(m) => Whole(u)
      /\ Frames!IsPrefix(x, Frames!Printed(m)) => Cut(u)
    BY <1>3, <1>5, NextText
<1>7. /\ x = Frames!Printed(m) => Whole(u)'
      /\ Whole(u)' \/ (peer'[c] # "up" /\ Cut(u)')
    BY <1>6, SameTexts
<1>8. x = Frames!Printed(m) => Whole(printed[c])'
    BY <1>4, <1>7 DEF Whole, FirstMessages
<1>9. TextsKept'
  <2> SUFFICES ASSUME NEW d \in Clients
               PROVE (Whole(printed[d]) \/ (peer[d] # "up" /\ Cut(printed[d])))'
      BY DEF TextsKept
  <2>1. CASE d = c
      BY <1>4, <1>7, <2>1 DEF Whole, Cut, FirstMessages
  <2>2. CASE d # c
    <3>1. printed'[d] = printed[d]
        BY <1>1, <2>2
    <3>2. QED BY <3>1, TextsStay DEF FramingIInv
  <2>3. QED BY <2>1, <2>2
<1>10. printed' \in [Clients -> Seq(Seq(Pairs))] /\ \A d \in Clients \ {c} : printed'[d] = printed[d]
    BY <1>1, <1>3, <1>4, <1>2
<1>11. QED BY <1>4, <1>8, <1>9, <1>10

(* A piece of a frame, from its first byte, is a prefix of it. *)
LEMMA Piece ==
    ASSUME NEW s \in Seq(Pairs), NEW n \in 0 .. Len(s), NEW x,
           x = [k \in 1 .. n |-> s[k]]
    PROVE  /\ x \in Seq(Pairs) /\ Len(x) = n /\ Frames!IsPrefix(x, s)
           /\ n = Len(s) => x = s
<1>1. x \in Seq(Pairs) /\ Len(x) = n
    OBVIOUS
<1>2. n = Len(s) => x = s
    BY <1>1
<1>3. SubSeq(x, 1, Len(x)) = SubSeq(s, 1, Len(x))
    BY <1>1
<1>4. QED BY <1>1, <1>2, <1>3 DEF Frames!IsPrefix

LEMMA FramingRecvMessage == FramingIInv /\ Frames!RecvMessage => FramingIInv'
<1> SUFFICES ASSUME FramingIInv, Frames!RecvMessage PROVE FramingIInv'
    OBVIOUS
<1>0. pc = "recv" /\ protocol \in {"Fixed", "CloseOnTransfer"} /\ protocol \in Frames!Protocols
    BY DEF Frames!RecvMessage, Frames!Protocols
<1>1. PICK c \in Clients :
              /\ c = Frames!Peer /\ c = fdt[client_sock] /\ link[c] = "open"
              /\ taken[c] \in Nat /\ sent[c] \in Nat /\ taken[c] <= sent[c]
              /\ printed[c] \in Seq(Seq(Pairs))
              /\ StreamOver(c) \/
                    /\ InFrame(c)
                    /\ Frames!Start(Len(printed[c]) + 1) \in Nat
                    /\ taken[c] < sent[c] => Len(printed[c]) + 1 \in 1 .. Frames!Count
    BY <1>0, InService
<1>2. PICK n \in 1 .. BUFSIZE : /\ Frames!WaitAll(BUFSIZE, n) /\ Frames!Take(c, n)
                                /\ Frames!Show(Frames!Cells(c, n))
    BY <1>1 DEF Frames!RecvMessage
<1>3. /\ protocol' = protocol /\ pc' = pc /\ client_sock' = client_sock /\ len' = len
      /\ ahead' = ahead /\ line' = line /\ ahead = <<>> /\ line = <<>>
    BY <1>0 DEF Frames!RecvMessage, FramingIInv, OneClient
<1>4. /\ n \in Nat \ {0} /\ taken[c] + n <= sent[c] /\ BUFSIZE \in Nat
      /\ n < BUFSIZE => peer[c] # "up" /\ n = sent[c] - taken[c]
    BY <1>1, <1>2, ClientsAssumption DEF Frames!WaitAll, Frames!Unread
<1>5. /\ Frames!SocketsTypeOK' /\ fdt' = fdt /\ peer' = peer /\ sent' = sent
      /\ taken'[c] = taken[c] + n /\ link' = link
      /\ (\A d \in Clients \ {c} : printed'[d] = printed[d]) => InTime'
    BY <1>1, <1>2, <1>3, <1>4, FramingTakes DEF Frames!Take
<1>6. PICK m : m = Len(printed[c]) + 1
    OBVIOUS
<1>7. InFrame(c) /\ m \in 1 .. Frames!Count /\ Frames!Start(m) \in Nat /\ taken[c] = Frames!Start(m)
    BY <1>0, <1>1, <1>3, <1>4, <1>6 DEF StreamOver, InFrame
<1>8. /\ Frames!Frame(m) \in Seq(Pairs) /\ Size(m) = Len(Frames!Frame(m)) /\ Size(m) \in Nat
      /\ Frames!Printed(m) = Frames!Frame(m) /\ Size(m) <= BUFSIZE
    BY <1>0, <1>4, <1>7, FrameParts DEF Size, Frames!Printed
<1>9. n <= Size(m)
  <2>1. CASE protocol = "Fixed"
      BY <1>0, <1>7, <2>1, FrameParts
  <2>2. CASE protocol = "CloseOnTransfer"
    <3>1. Frames!Count = 1 /\ m = 1
        BY <1>7, <2>2 DEF Frames!Count
    <3>2. sent[c] <= Frames!Start(2) /\ Frames!Start(2) = Size(1) /\ Frames!Start(1) = 0
      <4>1. sent[c] <= Frames!Start(1 + 1) /\ Frames!Start(1 + 1) = Frames!Start(1) + Size(1)
          BY <1>0, <3>1, StartNext DEF FramingIInv, InTime
      <4>2. QED BY <1>0, <1>8, <3>1, <4>1, StartNext
    <3>3. QED BY <1>1, <1>4, <1>7, <1>8, <3>1, <3>2
  <2>3. QED BY <1>0, <2>1, <2>2
<1>10. PICK x : x = Frames!Cells(c, n)
    OBVIOUS
<1>11. x = [k \in 1 .. n |-> Frames!Frame(m)[k]]
  <2>1. 0 \in 0 .. Size(m) /\ n \in 0 .. (Size(m) - 0) /\ taken[c] = Frames!Start(m) + 0
      BY <1>4, <1>7, <1>8, <1>9
  <2>2. x = [k \in 1 .. n |-> Frames!Frame(m)[0 + k]]
      BY <1>0, <1>7, <1>10, <2>1, NextCells
  <2>3. QED BY <1>4, <2>2
<1>12. /\ x \in Seq(Pairs) /\ Frames!IsPrefix(x, Frames!Printed(m))
       /\ n = Size(m) => x = Frames!Printed(m)
  <2>1. n \in 0 .. Len(Frames!Frame(m))
      BY <1>4, <1>8, <1>9
  <2>2. QED BY <1>8, <1>11, <2>1, Piece
<1>13. n < Size(m) => peer[c] # "up" /\ n = sent[c] - taken[c]
    BY <1>4, <1>8
<1>14. printed' = [printed EXCEPT ![c] = Append(@, x)]
    BY <1>1, <1>2, <1>10 DEF Frames!Show
<1>15. x = Frames!Printed(m) \/ (peer[c] # "up" /\ Frames!IsPrefix(x, Frames!Printed(m)))
    BY <1>4, <1>8, <1>9, <1>12, <1>13
<1>16. /\ printed' \in [Clients -> Seq(Seq(Pairs))] /\ TextsKept'
       /\ \A d \in Clients \ {c} : printed'[d] = printed[d]
       /\ Len(printed'[c]) = m
       /\ x = Frames!Printed(m) => Whole(printed[c])'
    BY <1>3, <1>5, <1>6, <1>7, <1>12, <1>14, <1>15, FramingShows
<1>17. FramingTyped' /\ OneClient' /\ InTime'
    BY <1>3, <1>5, <1>16 DEF FramingIInv, FramingTyped, OneClient, Serving
<1>18. InFrame(c)' \/ StreamOver(c)'
  <2>1. CASE n = Size(m)
    <3>1. Frames!Start(m + 1)' = Frames!Start(m) + Size(m) /\ taken'[c] = Frames!Start(m) + Size(m)
        BY <1>0, <1>3, <1>5, <1>7, <2>1, StartNext, SameFrames
    <3>2. Len(line') = 0 /\ Len(ahead') = 0 /\ pc' = "recv" /\ Frames!Start(m) + Size(m) \in Nat
        BY <1>0, <1>3, <1>7, <1>8
    <3>3. QED BY <1>3, <1>12, <1>16, <2>1, <3>1, <3>2 DEF InFrame
  <2>2. CASE n < Size(m)
      BY <1>1, <1>3, <1>4, <1>5, <1>13, <2>2 DEF StreamOver
  <2>3. QED BY <1>4, <1>8, <1>9, <2>1, <2>2
<1>19. Position'
  <2>1. fdt'[client_sock'] = c
      BY <1>1, <1>3, <1>5
  <2>2. QED BY <1>18, <2>1 DEF Position, InFrame, StreamOver, Whole, FirstMessages
<1>20. QED BY <1>16, <1>17, <1>19 DEF FramingIInv

LEMMA FramingRecvLength == FramingIInv /\ Frames!RecvLength => FramingIInv'
<1> SUFFICES ASSUME FramingIInv, Frames!RecvLength PROVE FramingIInv'
    OBVIOUS
<1>0. pc = "recv" /\ protocol = "FixedVariable" /\ protocol \in Frames!Protocols
    BY DEF Frames!RecvLength, Frames!Protocols
<1>1. PICK c \in Clients :
              /\ c = Frames!Peer /\ c = fdt[client_sock] /\ link[c] = "open"
              /\ taken[c] \in Nat /\ sent[c] \in Nat /\ taken[c] <= sent[c]
              /\ printed[c] \in Seq(Seq(Pairs))
              /\ StreamOver(c) \/
                    /\ InFrame(c)
                    /\ Frames!Start(Len(printed[c]) + 1) \in Nat
                    /\ taken[c] < sent[c] => Len(printed[c]) + 1 \in 1 .. Frames!Count
    BY <1>0, InService
<1>2. PICK n \in 1 .. INTSIZE :
         /\ Frames!WaitAll(INTSIZE, n) /\ Frames!Take(c, n)
         /\ len' \in (IF n = INTSIZE THEN {Lengths[Frames!Cell(taken[c] + 1)[1]]} ELSE 0 .. BUFSIZE)
    BY <1>1 DEF Frames!RecvLength
<1>3. /\ protocol' = protocol /\ pc' = "body" /\ client_sock' = client_sock /\ printed' = printed
      /\ ahead' = ahead /\ line' = line /\ ahead = <<>> /\ line = <<>>
    BY <1>0 DEF Frames!RecvLength, FramingIInv, OneClient
<1>4. /\ n \in Nat \ {0} /\ taken[c] + n <= sent[c] /\ INTSIZE \in Nat /\ BUFSIZE \in Nat
      /\ n < INTSIZE => peer[c] # "up" /\ n = sent[c] - taken[c]
    BY <1>1, <1>2, ClientsAssumption DEF Frames!WaitAll, Frames!Unread
<1>5. /\ Frames!SocketsTypeOK' /\ fdt' = fdt /\ peer' = peer /\ sent' = sent
      /\ taken'[c] = taken[c] + n /\ link' = link
      /\ (\A d \in Clients \ {c} : printed'[d] = printed[d]) => InTime'
    BY <1>1, <1>2, <1>3, <1>4, FramingTakes DEF Frames!Take
<1>6. PICK m : m = Len(printed[c]) + 1
    OBVIOUS
<1>7. InFrame(c) /\ m \in 1 .. Frames!Count /\ Frames!Start(m) \in Nat /\ taken[c] = Frames!Start(m)
    BY <1>0, <1>1, <1>3, <1>4, <1>6 DEF StreamOver, InFrame
<1>8. /\ Lengths[m] \in 1 .. BUFSIZE /\ Size(m) = INTSIZE + Lengths[m]
      /\ Frames!Frame(m)[1] = <<m, -2>>
    BY <1>0, <1>7, FrameParts
<1>9. Frames!Cell(taken[c] + 1)[1] = m
  <2>1. 1 \in 1 .. Size(m)
      BY <1>4, <1>8
  <2>2. Frames!Cell(taken[c] + 1) = <<m, -2>>
      BY <1>0, <1>7, <1>8, <2>1, CellAt
  <2>3. QED BY <2>2
<1>10. len' \in Nat /\ (n = INTSIZE => len' = Lengths[m])
    BY <1>2, <1>4, <1>8, <1>9
<1>11. TextsKept'
  <2> SUFFICES ASSUME NEW d \in Clients
               PROVE (Whole(printed[d]) \/ (peer[d] # "up" /\ Cut(printed[d])))'
      BY DEF TextsKept
  <2>1. QED BY <1>3, <1>5, TextsStay DEF FramingIInv
<1>12. FramingTyped' /\ OneClient' /\ InTime'
    BY <1>0, <1>3, <1>5, <1>10 DEF FramingIInv, FramingTyped, OneClient, Serving
<1>13. InFrame(c)' \/ StreamOver(c)'
  <2>1. CASE n = INTSIZE
    <3>1. Frames!Start(m)' = Frames!Start(m) /\ taken'[c] = Frames!Start(m) + INTSIZE /\ pc' = "body"
          /\ m <= Frames!Count' /\ len' = Lengths[m] /\ Len(printed'[c]) + 1 = m
        BY <1>3, <1>5, <1>6, <1>7, <1>10, <2>1, SameFrames
    <3>2. Len(line') = 0 /\ Len(ahead') = 0 /\ line' = <<>>
        BY <1>3
    <3>3. Whole(printed[c])'
        BY <1>3, <1>7, SameTexts DEF InFrame, Whole, FirstMessages
    <3>4. QED BY <1>4, <1>7, <3>1, <3>2, <3>3 DEF InFrame
  <2>2. CASE n < INTSIZE
      BY <1>1, <1>3, <1>4, <1>5, <2>2 DEF StreamOver
  <2>3. QED BY <1>4, <1>2, <2>1, <2>2
<1>14. Position'
  <2>1. fdt'[client_sock'] = c
      BY <1>1, <1>3, <1>5
  <2>2. QED BY <1>13, <2>1 DEF Position, InFrame, StreamOver, Whole, FirstMessages
<1>15. QED BY <1>11, <1>12, <1>14 DEF FramingIInv

LEMMA FramingRecvBody == FramingIInv /\ Frames!RecvBody => FramingIInv'
<1> SUFFICES ASSUME FramingIInv, Frames!RecvBody PROVE FramingIInv'
    OBVIOUS
<1>0. pc = "body" /\ protocol = "FixedVariable" /\ protocol \in Frames!Protocols
    BY DEF Frames!RecvBody, Frames!Protocols, FramingIInv, OneClient
<1>1. PICK c \in Clients :
              /\ c = Frames!Peer /\ c = fdt[client_sock] /\ link[c] = "open"
              /\ taken[c] \in Nat /\ sent[c] \in Nat /\ taken[c] <= sent[c]
              /\ printed[c] \in Seq(Seq(Pairs))
              /\ StreamOver(c) \/
                    /\ InFrame(c)
                    /\ Frames!Start(Len(printed[c]) + 1) \in Nat
                    /\ taken[c] < sent[c] => Len(printed[c]) + 1 \in 1 .. Frames!Count
    BY <1>0, InService
<1>2. PICK n \in 1 .. len : /\ Frames!WaitAll(len, n) /\ Frames!Take(c, n)
                            /\ Frames!Show(Frames!Cells(c, n))
    BY <1>1 DEF Frames!RecvBody
<1>3. /\ protocol' = protocol /\ pc' = "recv" /\ client_sock' = client_sock /\ len' = len
      /\ ahead' = ahead /\ line' = line /\ ahead = <<>> /\ line = <<>> /\ len \in Nat
    BY <1>0 DEF Frames!RecvBody, FramingIInv, OneClient, FramingTyped
<1>4. /\ n \in Nat \ {0} /\ taken[c] + n <= sent[c] /\ n <= len
      /\ n < len => peer[c] # "up" /\ n = sent[c] - taken[c]
    BY <1>1, <1>2, <1>3 DEF Frames!WaitAll, Frames!Unread
<1>5. /\ Frames!SocketsTypeOK' /\ fdt' = fdt /\ peer' = peer /\ sent' = sent
      /\ taken'[c] = taken[c] + n /\ link' = link
      /\ (\A d \in Clients \ {c} : printed'[d] = printed[d]) => InTime'
    BY <1>1, <1>2, <1>3, <1>4, FramingTakes DEF Frames!Take
<1>6. PICK m : m = Len(printed[c]) + 1
    OBVIOUS
<1>7. /\ InFrame(c) /\ m \in 1 .. Frames!Count /\ Frames!Start(m) \in Nat /\ INTSIZE \in Nat
      /\ taken[c] = Frames!Start(m) + INTSIZE /\ len = Lengths[m]
    BY <1>0, <1>1, <1>3, <1>4, <1>6, ClientsAssumption DEF StreamOver, InFrame
<1>8. /\ Size(m) = INTSIZE + len /\ Frames!Printed(m) = Frames!Text(m)
      /\ \A k \in 1 .. len : Frames!Frame(m)[INTSIZE + k] = <<m, k>>
      /\ Frames!Text(m) \in Seq(Pairs) /\ Len(Frames!Text(m)) = len
      /\ \A k \in 1 .. len : Frames!Text(m)[k] = <<m, k>>
  <2>1. /\ Size(m) = INTSIZE + len /\ Frames!Printed(m) = Frames!Text(m)
        /\ \A k \in 1 .. len : Frames!Frame(m)[INTSIZE + k] = <<m, k>>
      BY <1>0, <1>7, FrameParts DEF Frames!Printed
  <2>2. m \in Nat
      BY <1>7, ClientsAssumption DEF Frames!Count
  <2>3. Frames!Text(m) = [k \in 1 .. len |-> <<m, k>>]
      BY <1>7 DEF Frames!Text
  <2>4. \A k \in 1 .. len : <<m, k>> \in Pairs
      BY <1>3, <2>2 DEF Pairs
  <2>5. QED BY <1>3, <2>1, <2>3, <2>4
<1>9. PICK x : x = Frames!Cells(c, n)
    OBVIOUS
<1>10. x = [k \in 1 .. n |-> Frames!Text(m)[k]]
  <2>1. INTSIZE \in 0 .. Size(m) /\ n \in 0 .. (Size(m) - INTSIZE)
      BY <1>3, <1>4, <1>7, <1>8
  <2>2. x = [k \in 1 .. n |-> Frames!Frame(m)[INTSIZE + k]]
      BY <1>0, <1>7, <1>9, <2>1, NextCells
  <2>3. \A k \in 1 .. n : Frames!Frame(m)[INTSIZE + k] = Frames!Text(m)[k]
      BY <1>3, <1>4, <1>8, SMTT(60)
  <2>4. QED BY <2>2, <2>3
<1>11. /\ x \in Seq(Pairs) /\ Frames!IsPrefix(x, Frames!Printed(m))
       /\ n = len => x = Frames!Printed(m)
  <2>1. n \in 0 .. Len(Frames!Text(m))
      BY <1>3, <1>4, <1>8
  <2>2. QED BY <1>8, <1>10, <2>1, Piece
<1>12. printed' = [printed EXCEPT ![c] = Append(@, x)]
    BY <1>1, <1>2, <1>9 DEF Frames!Show
<1>13. x = Frames!Printed(m) \/ (peer[c] # "up" /\ Frames!IsPrefix(x, Frames!Printed(m)))
    BY <1>3, <1>4, <1>11
<1>14. /\ printed' \in [Clients -> Seq(Seq(Pairs))] /\ TextsKept'
       /\ \A d \in Clients \ {c} : printed'[d] = printed[d]
       /\ Len(printed'[c]) = m
       /\ x = Frames!Printed(m) => Whole(printed[c])'
    BY <1>3, <1>5, <1>6, <1>7, <1>11, <1>12, <1>13, FramingShows
<1>15. FramingTyped' /\ OneClient' /\ InTime'
    BY <1>0, <1>3, <1>5, <1>14 DEF FramingIInv, FramingTyped, OneClient, Serving
<1>16. InFrame(c)' \/ StreamOver(c)'
  <2>1. CASE n = len
    <3>1. Frames!Start(m + 1)' = Frames!Start(m) + Size(m) /\ taken'[c] = Frames!Start(m) + Size(m)
        BY <1>0, <1>3, <1>5, <1>7, <1>8, <2>1, StartNext, SameFrames
    <3>2. Len(line') = 0 /\ Len(ahead') = 0 /\ pc' = "recv" /\ Frames!Start(m) + Size(m) \in Nat
        BY <1>0, <1>3, <1>7, <1>8
    <3>3. QED BY <1>3, <1>11, <1>14, <2>1, <3>1, <3>2 DEF InFrame
  <2>2. CASE n < len
      BY <1>1, <1>3, <1>4, <1>5, <2>2 DEF StreamOver
  <2>3. QED BY <1>3, <1>4, <2>1, <2>2
<1>17. Position'
  <2>1. fdt'[client_sock'] = c
      BY <1>1, <1>3, <1>5
  <2>2. QED BY <1>16, <2>1 DEF Position, InFrame, StreamOver, Whole, FirstMessages
<1>18. QED BY <1>14, <1>15, <1>17 DEF FramingIInv

LEMMA FramingRecvAhead == FramingIInv /\ Frames!RecvAhead => FramingIInv'
<1> SUFFICES ASSUME FramingIInv, Frames!RecvAhead PROVE FramingIInv'
    OBVIOUS
<1>0. pc = "recv" /\ protocol = "Variable" /\ protocol \in Frames!Protocols /\ ahead = <<>>
    BY DEF Frames!RecvAhead, Frames!Protocols
<1>1. PICK c \in Clients :
              /\ c = Frames!Peer /\ c = fdt[client_sock] /\ link[c] = "open"
              /\ taken[c] \in Nat /\ sent[c] \in Nat /\ taken[c] <= sent[c]
              /\ printed[c] \in Seq(Seq(Pairs))
              /\ StreamOver(c) \/
                    /\ InFrame(c)
                    /\ Frames!Start(Len(printed[c]) + 1) \in Nat
                    /\ taken[c] < sent[c] => Len(printed[c]) + 1 \in 1 .. Frames!Count
    BY <1>0, InService
<1>2. PICK n \in 1 .. AHEAD : /\ n <= sent[c] - taken[c] /\ Frames!Take(c, n)
                              /\ ahead' = Frames!Cells(c, n)
    BY <1>1 DEF Frames!RecvAhead, Frames!Unread
<1>3. /\ protocol' = protocol /\ pc' = pc /\ client_sock' = client_sock /\ len' = len
      /\ line' = line /\ printed' = printed
    BY DEF Frames!RecvAhead
<1>4. n \in Nat \ {0} /\ n <= AHEAD /\ taken[c] + n <= sent[c]
    BY <1>1, <1>2, ClientsAssumption
<1>5. /\ Frames!SocketsTypeOK' /\ fdt' = fdt /\ peer' = peer /\ sent' = sent
      /\ taken'[c] = taken[c] + n /\ link' = link
      /\ (\A d \in Clients \ {c} : printed'[d] = printed[d]) => InTime'
    BY <1>1, <1>2, <1>3, <1>4, FramingTakes DEF Frames!Take
<1>6. PICK m : m = Len(printed[c]) + 1
    OBVIOUS
<1>7. /\ InFrame(c) /\ m \in 1 .. Frames!Count /\ Frames!Start(m) \in Nat
      /\ taken[c] = Frames!Start(m) + Len(line) /\ Len(line) \in Nat
    BY <1>0, <1>1, <1>4, <1>6 DEF StreamOver, InFrame, FramingIInv, FramingTyped
<1>8. ahead' \in Seq(AllCells) /\ Len(ahead') = n
      /\ \A k \in 1 .. n : ahead'[k] = Frames!Cell(Frames!Start(m) + Len(line) + k)
  <2>1. \A k \in 1 .. n : Frames!Cell(taken[c] + k) \in AllCells
      BY <1>1, <1>4 DEF AllCells
  <2>2. ahead' = [k \in 1 .. n |-> Frames!Cell(taken[c] + k)]
      BY <1>2 DEF Frames!Cells
  <2> HIDE DEF AllCells
  <2>3. QED BY <1>4, <1>7, <2>1, <2>2
<1>9. TextsKept'
  <2> SUFFICES ASSUME NEW d \in Clients
               PROVE (Whole(printed[d]) \/ (peer[d] # "up" /\ Cut(printed[d])))'
      BY DEF TextsKept
  <2>1. QED BY <1>3, <1>5, TextsStay DEF FramingIInv
<1>10. FramingTyped' /\ OneClient' /\ InTime'
    BY <1>0, <1>3, <1>4, <1>5, <1>8 DEF FramingIInv, FramingTyped, OneClient, Serving
<1>11. InFrame(c)'
  <2>1. /\ Frames!Start(m)' = Frames!Start(m) /\ Len(printed'[c]) + 1 = m
        /\ Len(ahead') = n /\ taken'[c] = Frames!Start(m) + Len(line) + n
      BY <1>3, <1>4, <1>5, <1>6, <1>7, <1>8, SameFrames
  <2>2. Whole(printed[c])'
      BY <1>3, <1>7, SameTexts DEF InFrame, Whole, FirstMessages
  <2>3. /\ line' # <<>> => m <= Frames!Count' /\ Len(line') < Size(m)'
        /\ \A k \in 1 .. Len(line') : line'[k] = Frames!Frame(m)'[k]
        /\ \A k \in 1 .. Len(ahead') : ahead'[k] = Frames!Cell(Frames!Start(m) + Len(line) + k)'
      BY <1>3, <1>6, <1>7, <1>8, SameFrames DEF InFrame
  <2>4. ahead' \in Seq(AllCells)'
      BY <1>3, <1>8, SameFrames
  <2>5. QED BY <2>4, <1>0, <1>3, <1>4, <1>7, <2>1, <2>2, <2>3 DEF InFrame
<1>12. Position'
  <2>1. fdt'[client_sock'] = c
      BY <1>1, <1>3, <1>5
  <2>2. QED BY <1>11, <2>1 DEF Position, InFrame, Whole, FirstMessages
<1>13. QED BY <1>9, <1>10, <1>12 DEF FramingIInv

(* The byte recvline() takes next is the next one of the line. *)
LEMMA NextByte ==
    ASSUME FramingIInv, pc = "recv", protocol = "Variable", ahead # <<>>,
           NEW c \in Clients, InFrame(c), taken[c] <= sent[c], NEW m, m = Len(printed[c]) + 1,
           Frames!Start(m) \in Nat, printed[c] \in Seq(Seq(Pairs))
    PROVE  /\ m \in 1 .. Frames!Count
           /\ Len(line) \in Nat /\ Len(ahead) \in Nat \ {0} /\ Len(line) < Size(m)
           /\ Head(ahead) = Frames!Frame(m)[Len(line) + 1] /\ Head(ahead) \in Pairs
           /\ Tail(ahead) \in Seq(AllCells) /\ Len(Tail(ahead)) = Len(ahead) - 1
           /\ \A k \in 1 .. Len(Tail(ahead)) :
                 Tail(ahead)[k] = Frames!Cell(Frames!Start(m) + (Len(line) + 1) + k)
<1>0. protocol \in Frames!Protocols /\ Frames!Count \in Nat
    BY ClientsAssumption DEF Frames!Protocols, Frames!Count
<1>1. /\ Len(line) \in Nat /\ Len(ahead) \in Nat \ {0}
      /\ Tail(ahead) \in Seq(AllCells) /\ Len(Tail(ahead)) = Len(ahead) - 1
      /\ Head(ahead) = ahead[1] /\ \A k \in 1 .. Len(Tail(ahead)) : Tail(ahead)[k] = ahead[k + 1]
  <2>1. ahead \in Seq(AllCells) /\ line \in Seq(Pairs)
      BY DEF InFrame, FramingIInv, FramingTyped
  <2> HIDE DEF AllCells
  <2>2. QED BY <2>1
<1>2. /\ taken[c] = Frames!Start(m) + Len(line) + Len(ahead)
      /\ taken[c] <= Frames!Start(Frames!Count + 1) /\ Len(printed[c]) <= Frames!Count
  <2>1. taken[c] = Frames!Start(m) + Len(line) + Len(ahead) /\ Len(printed[c]) <= Frames!Count
      BY <1>1 DEF InFrame, Whole, FirstMessages
  <2>2. sent[c] <= Frames!Start(Frames!Count + 1) /\ sent[c] \in Nat /\ taken[c] \in Nat
      BY DEF FramingIInv, InTime, FramingTyped, Frames!SocketsTypeOK
  <2>3. Frames!Start(Frames!Count + 1) \in Nat
      BY <1>0, StartNext
  <2>4. QED BY <2>1, <2>2, <2>3
<1>3. m \in 1 .. Frames!Count
  <2>1. m # Frames!Count + 1
      BY <1>1, <1>2
  <2>2. QED BY <1>0, <1>2, <2>1
<1>4. Size(m) \in Nat \ {0} /\ Frames!Frame(m) \in Seq(Pairs)
    BY <1>0, <1>3, FrameParts
<1>5. Len(line) < Size(m)
  <2>1. CASE line = <<>>
      BY <1>1, <1>4, <2>1
  <2>2. CASE line # <<>>
      BY <2>2 DEF InFrame
  <2>3. QED BY <2>1, <2>2
<1>6. Len(line) + 1 \in 1 .. Size(m)
    BY <1>1, <1>4, <1>5
<1>7. Head(ahead) = Frames!Frame(m)[Len(line) + 1]
  <2>1. ahead[1] = Frames!Cell(Frames!Start(m) + Len(line) + 1)
      BY <1>1 DEF InFrame
  <2>2. Frames!Start(m) + Len(line) + 1 = Frames!Start(m) + (Len(line) + 1)
      BY <1>1
  <2>3. Frames!Cell(Frames!Start(m) + (Len(line) + 1)) = Frames!Frame(m)[Len(line) + 1]
      BY <1>0, <1>3, <1>6, CellAt
  <2>4. QED BY <1>1, <2>1, <2>2, <2>3
<1>8. Head(ahead) \in Pairs
    BY <1>4, <1>6, <1>7 DEF Size
<1>9. ASSUME NEW k \in 1 .. Len(Tail(ahead))
      PROVE Tail(ahead)[k] = Frames!Cell(Frames!Start(m) + (Len(line) + 1) + k)
  <2>1. k + 1 \in 1 .. Len(ahead)
      BY <1>1
  <2>2. ahead[k + 1] = Frames!Cell(Frames!Start(m) + Len(line) + (k + 1))
      BY <2>1 DEF InFrame
  <2>3. Frames!Start(m) + Len(line) + (k + 1) = Frames!Start(m) + (Len(line) + 1) + k
      BY <1>1
  <2>4. QED BY <1>1, <2>2, <2>3
<1>10. QED BY <1>1, <1>3, <1>5, <1>7, <1>8, <1>9

LEMMA FramingNextChar == FramingIInv /\ Frames!NextChar => FramingIInv'
<1> SUFFICES ASSUME FramingIInv, Frames!NextChar PROVE FramingIInv'
    OBVIOUS
<1>0. pc = "recv" /\ protocol = "Variable" /\ protocol \in Frames!Protocols /\ ahead # <<>>
    BY DEF Frames!NextChar, Frames!Protocols
<1>1. PICK c \in Clients :
              /\ c = Frames!Peer /\ c = fdt[client_sock] /\ link[c] = "open"
              /\ taken[c] \in Nat /\ sent[c] \in Nat /\ taken[c] <= sent[c]
              /\ printed[c] \in Seq(Seq(Pairs))
              /\ StreamOver(c) \/
                    /\ InFrame(c)
                    /\ Frames!Start(Len(printed[c]) + 1) \in Nat
                    /\ taken[c] < sent[c] => Len(printed[c]) + 1 \in 1 .. Frames!Count
    BY <1>0, InService
<1>2. PICK m : m = Len(printed[c]) + 1
    OBVIOUS
<1>3. InFrame(c) /\ Frames!Start(m) \in Nat
    BY <1>0, <1>1, <1>2 DEF StreamOver
<1>4. /\ m \in 1 .. Frames!Count
      /\ Len(line) \in Nat /\ Len(ahead) \in Nat \ {0} /\ Len(line) < Size(m)
      /\ Head(ahead) = Frames!Frame(m)[Len(line) + 1] /\ Head(ahead) \in Pairs
      /\ Tail(ahead) \in Seq(AllCells) /\ Len(Tail(ahead)) = Len(ahead) - 1
      /\ \A k \in 1 .. Len(Tail(ahead)) :
            Tail(ahead)[k] = Frames!Cell(Frames!Start(m) + (Len(line) + 1) + k)
    BY <1>0, <1>1, <1>2, <1>3, NextByte
<1>5. PICK text : text = Append(line, Head(ahead))
    OBVIOUS
<1>6. line \in Seq(Pairs) /\ Len(ahead) <= AHEAD /\ AHEAD \in Nat /\ Len(line) < LINESIZE
    BY ClientsAssumption DEF FramingIInv, FramingTyped
<1>7. /\ text \in Seq(Pairs) /\ Len(text) = Len(line) + 1
      /\ \A k \in 1 .. Len(text) : text[k] = Frames!Frame(m)[k]
  <2>1. text \in Seq(Pairs) /\ Len(text) = Len(line) + 1 /\ text[Len(line) + 1] = Head(ahead)
        /\ \A k \in 1 .. Len(line) : text[k] = line[k]
      BY <1>4, <1>5, <1>6
  <2>2. ASSUME NEW k \in 1 .. Len(text) PROVE text[k] = Frames!Frame(m)[k]
    <3>1. CASE k = Len(line) + 1
        BY <1>4, <2>1, <3>1
    <3>2. CASE k \in 1 .. Len(line)
        BY <1>2, <2>1, <3>2, <1>3 DEF InFrame
    <3>3. QED BY <1>4, <2>1, <3>1, <3>2
  <2>3. QED BY <2>1, <2>2
<1>8. /\ Size(m) \in Nat /\ Size(m) <= LINESIZE /\ Frames!Frame(m) \in Seq(Pairs)
      /\ Frames!Printed(m) = Frames!Frame(m) /\ Size(m) = Len(Frames!Frame(m))
      /\ Frames!Frame(m)[Size(m)] = <<m, 0>>
      /\ \A k \in 1 .. (Size(m) - 1) : Frames!Frame(m)[k] = <<m, k>>
  <2>1. /\ Lengths[m] \in 1 .. BUFSIZE /\ Size(m) = Lengths[m] + 1 /\ Frames!Frame(m) \in Seq(Pairs)
        /\ Frames!Frame(m)[Size(m)] = <<m, 0>>
        /\ \A k \in 1 .. Lengths[m] : Frames!Frame(m)[k] = <<m, k>>
      BY <1>0, <1>4, FrameParts
  <2>2. Frames!Printed(m) = Frames!Frame(m) /\ Size(m) = Len(Frames!Frame(m))
      BY <1>0 DEF Size, Frames!Printed
  <2>3. QED BY <2>1, <2>2, ClientsAssumption, SMTT(60)
<1>9. /\ protocol' = protocol /\ pc' = pc /\ client_sock' = client_sock /\ len' = len
      /\ link' = link /\ peer' = peer /\ sent' = sent /\ taken' = taken /\ out' = out
      /\ got' = got /\ fdt' = fdt /\ ahead' = Tail(ahead)
    BY DEF Frames!NextChar, Frames!sockets
<1>10. \/ /\ Len(text) = Size(m) /\ line' = <<>>
          /\ printed' = [printed EXCEPT ![c] = Append(@, text)]
       \/ /\ Len(text) < Size(m) /\ line' = text /\ printed' = printed /\ Len(text) # LINESIZE
  <2>1. Head(ahead)[2] = 0 \/ Len(text) = LINESIZE <=> Len(text) = Size(m)
    <3>1. CASE Len(text) = Size(m)
      <4>1. Head(ahead) = <<m, 0>>
          BY <1>4, <1>7, <1>8, <3>1
      <4>2. QED BY <3>1, <4>1
    <3>2. CASE Len(text) # Size(m)
      <4>1. Len(text) \in 1 .. (Size(m) - 1) /\ Len(text) # LINESIZE
          BY <1>4, <1>7, <1>8, <3>2
      <4>2. Head(ahead) = <<m, Len(text)>> /\ Len(text) # 0
          BY <1>4, <1>7, <1>8, <4>1
      <4>3. QED BY <3>2, <4>1, <4>2
    <3>3. QED BY <3>1, <3>2
  <2>2. CASE Head(ahead)[2] = 0 \/ Len(text) = LINESIZE
      BY <1>1, <1>5, <2>1, <2>2 DEF Frames!NextChar, Frames!Newline, Frames!Show
  <2>3. CASE ~ (Head(ahead)[2] = 0 \/ Len(text) = LINESIZE)
    <3>1. line' = text /\ printed' = printed
        BY <1>5, <2>3 DEF Frames!NextChar, Frames!Newline, Frames!Show
    <3>2. Len(text) < Size(m)
        BY <1>4, <1>7, <1>8, <2>1, <2>3
    <3>3. QED BY <2>3, <3>1, <3>2
  <2>4. QED BY <2>2, <2>3
<1>11. Frames!SocketsTypeOK' /\ Len(ahead') <= AHEAD
    BY <1>4, <1>6, <1>9 DEF FramingIInv, FramingTyped, Frames!SocketsTypeOK
<1>12. taken[c] = Frames!Start(m) + Len(line) + Len(ahead)
    BY <1>0, <1>2, <1>3, <1>4 DEF InFrame
<1>13. CASE /\ Len(text) = Size(m) /\ line' = <<>>
            /\ printed' = [printed EXCEPT ![c] = Append(@, text)]
  <2>1. text = Frames!Printed(m)
    <3>1. Len(text) = Len(Frames!Frame(m)) /\ \A k \in 1 .. Len(text) : text[k] = Frames!Frame(m)[k]
        BY <1>7, <1>8, <1>13
    <3>2. QED BY <1>7, <1>8, <3>1
  <2>2. /\ printed' \in [Clients -> Seq(Seq(Pairs))] /\ TextsKept'
        /\ \A d \in Clients \ {c} : printed'[d] = printed[d]
        /\ Len(printed'[c]) = m
        /\ Whole(printed[c])'
      BY <1>2, <1>3, <1>4, <1>7, <1>9, <1>13, <2>1, FramingShows
  <2>3. FramingTyped' /\ OneClient'
      BY <1>0, <1>6, <1>9, <1>11, <1>13, <2>2, ClientsAssumption
      DEF FramingIInv, FramingTyped, OneClient, Serving
  <2>4. InTime'
    <3>1. PICK most : most = Frames!Start(Frames!Count + 1) /\ most = Frames!Start(Frames!Count + 1)'
        BY <1>9, SameFrames
    <3>2. QED BY <1>1, <1>9, <2>2, <3>1 DEF FramingIInv, InTime
  <2>5. InFrame(c)'
    <3>1. PICK s \in Nat : s = Frames!Start(m) + Size(m) /\ s = Frames!Start(m + 1)'
        BY <1>0, <1>3, <1>4, <1>8, <1>9, StartNext, SameFrames
    <3>2. Len(line') = 0 /\ line' = <<>> /\ Len(ahead') = Len(ahead) - 1 /\ pc' = "recv"
        BY <1>0, <1>4, <1>9, <1>13
    <3>a. s = Frames!Start(m) + (Len(line) + 1)
        BY <1>7, <1>13, <3>1
    <3>3. taken'[c] = s + Len(line') + Len(ahead')
      <4>1. taken'[c] = Frames!Start(m) + Len(line) + Len(ahead)
          BY <1>9, <1>12
      <4>2. QED BY <1>3, <1>4, <3>2, <3>a, <4>1
    <3>b. PICK q \in Nat : q = m + 1
        BY <1>4
    <3>4. ASSUME NEW k \in 1 .. Len(ahead')
          PROVE ahead'[k] = Frames!Cell(Frames!Start(q) + Len(line) + k)'
      <4>1. PICK z : z = Frames!Start(m) + (Len(line) + 1) + k
          OBVIOUS
      <4>2. ahead'[k] = Frames!Cell(z)
          BY <1>4, <1>9, <3>2, <4>1
      <4>3. (Frames!Start(q) + Len(line) + k)' = z
          BY <3>1, <3>2, <3>a, <3>b, <4>1
      <4>4. Frames!Cell(z)' = Frames!Cell(z)
          BY <1>9, SameFrames
      <4>5. QED BY <4>2, <4>3, <4>4
    <3>5. ahead' \in Seq(AllCells)'
        BY <1>4, <1>9, SameFrames
    <3>6. Len(printed'[c]) + 1 = q /\ Frames!Start(q)' = s
        BY <2>2, <3>1, <3>b
    <3>7. QED BY <2>2, <3>2, <3>3, <3>4, <3>5, <3>6 DEF InFrame
  <2>6. Position'
    <3>1. fdt'[client_sock'] = c
        BY <1>1, <1>9
    <3>2. QED BY <2>5, <3>1 DEF Position, InFrame, Whole, FirstMessages
  <2>7. QED BY <2>2, <2>3, <2>4, <2>6 DEF FramingIInv
<1>14. CASE Len(text) < Size(m) /\ line' = text /\ printed' = printed /\ Len(text) # LINESIZE
  <2>1. TextsKept'
    <3> SUFFICES ASSUME NEW d \in Clients
                 PROVE (Whole(printed[d]) \/ (peer[d] # "up" /\ Cut(printed[d])))'
        BY DEF TextsKept
    <3>1. QED BY <1>9, <1>14, TextsStay DEF FramingIInv
  <2>2. FramingTyped' /\ OneClient'
      BY <1>0, <1>6, <1>7, <1>8, <1>9, <1>11, <1>14, ClientsAssumption
      DEF FramingIInv, FramingTyped, OneClient, Serving
  <2>3. InTime'
    <3>1. PICK most : most = Frames!Start(Frames!Count + 1) /\ most = Frames!Start(Frames!Count + 1)'
        BY <1>9, SameFrames
    <3>2. QED BY <1>1, <1>9, <1>14, <3>1 DEF FramingIInv, InTime
  <2>4. InFrame(c)'
    <3>1. PICK s \in Nat : s = Frames!Start(m) /\ s = Frames!Start(m)'
        BY <1>3, <1>9, SameFrames
    <3>2. Len(line') = Len(line) + 1 /\ Len(ahead') = Len(ahead) - 1 /\ pc' = "recv"
        BY <1>0, <1>4, <1>7, <1>9, <1>14
    <3>3. taken'[c] = s + Len(line') + Len(ahead')
        BY <1>3, <1>4, <1>9, <1>12, <3>1, <3>2
    <3>4. ASSUME NEW k \in 1 .. Len(ahead')
          PROVE ahead'[k] = Frames!Cell(Frames!Start(m) + Len(line) + k)'
      <4>1. PICK z : z = Frames!Start(m) + (Len(line) + 1) + k
          OBVIOUS
      <4>2. ahead'[k] = Frames!Cell(z)
          BY <1>4, <1>9, <3>2, <4>1
      <4>3. (Frames!Start(m) + Len(line) + k)' = z
          BY <3>1, <3>2, <4>1
      <4>4. Frames!Cell(z)' = Frames!Cell(z)
          BY <1>9, SameFrames
      <4>5. QED BY <4>2, <4>3, <4>4
    <3>5. ahead' \in Seq(AllCells)'
        BY <1>4, <1>9, SameFrames
    <3>6. Whole(printed[c])' /\ Len(printed'[c]) + 1 = m
        BY <1>2, <1>3, <1>9, <1>14, SameTexts DEF InFrame, Whole, FirstMessages
    <3>7. /\ m <= Frames!Count' /\ Len(line') < Size(m)'
          /\ \A k \in 1 .. Len(line') : line'[k] = Frames!Frame(m)'[k]
        BY <1>4, <1>7, <1>9, <1>14, SameFrames
    <3>8. /\ taken'[c] = Frames!Start(m)' + Len(line') + Len(ahead')
                           + (IF pc' = "body" THEN INTSIZE ELSE 0)
          /\ pc' # "body"
        BY <1>4, <3>1, <3>2, <3>3
    <3>9. QED BY <3>4, <3>5, <3>6, <3>7, <3>8 DEF InFrame
  <2>5. Position'
    <3>1. fdt'[client_sock'] = c
        BY <1>1, <1>9
    <3>2. QED BY <2>4, <3>1 DEF Position, InFrame, Whole, FirstMessages
  <2>6. QED BY <2>1, <2>2, <2>3, <2>5 DEF FramingIInv
<1>15. QED BY <1>10, <1>13, <1>14

LEMMA FramingRecvBreaks == FramingIInv /\ Frames!RecvBreaks => FramingIInv'
<1> SUFFICES ASSUME FramingIInv, Frames!RecvBreaks PROVE FramingIInv'
    OBVIOUS
<1>0. pc \in {"recv", "body"} /\ ahead = <<>> /\ protocol \in Frames!Protocols
    BY DEF Frames!RecvBreaks, FramingIInv, OneClient, FramingTyped
<1>1. PICK c \in Clients :
              /\ c = Frames!Peer /\ c = fdt[client_sock] /\ link[c] = "open"
              /\ taken[c] \in Nat /\ sent[c] \in Nat /\ taken[c] <= sent[c]
              /\ printed[c] \in Seq(Seq(Pairs))
              /\ StreamOver(c) \/
                    /\ InFrame(c)
                    /\ Frames!Start(Len(printed[c]) + 1) \in Nat
                    /\ taken[c] < sent[c] => Len(printed[c]) + 1 \in 1 .. Frames!Count
    BY <1>0, InService
<1>2. /\ protocol' = protocol /\ pc' = "close" /\ client_sock' = client_sock /\ len' = len
      /\ link' = link /\ peer' = peer /\ sent' = sent /\ taken' = taken /\ out' = out
      /\ got' = got /\ fdt' = fdt /\ ahead' = ahead /\ line' = <<>>
    BY DEF Frames!RecvBreaks, Frames!sockets
<1>3. LINESIZE \in Nat /\ 0 < LINESIZE /\ line \in Seq(Pairs) /\ Len(<<>>) = 0 /\ <<>> \in Seq(Pairs)
    BY ClientsAssumption DEF FramingIInv, FramingTyped
<1>4. OneClient' /\ Position'
    BY <1>0, <1>2 DEF FramingIInv, OneClient, Serving, Position
<1>5. ASSUME TextsKept', printed' \in [Clients -> Seq(Seq(Pairs))],
             \A d \in Clients \ {c} : printed'[d] = printed[d]
      PROVE  FramingIInv'
  <2>1. FramingTyped'
      BY <1>0, <1>2, <1>3, <1>5 DEF FramingIInv, FramingTyped, Frames!SocketsTypeOK
  <2>2. PICK most : most = Frames!Start(Frames!Count + 1) /\ most = Frames!Start(Frames!Count + 1)'
      BY <1>2, SameFrames
  <2>3. InTime'
      BY <1>1, <1>2, <1>5, <2>2 DEF FramingIInv, InTime
  <2>4. QED BY <1>4, <1>5, <2>1, <2>3 DEF FramingIInv
<1>6. CASE printed' = printed
  <2>1. TextsKept'
    <3> SUFFICES ASSUME NEW d \in Clients
                 PROVE (Whole(printed[d]) \/ (peer[d] # "up" /\ Cut(printed[d])))'
        BY DEF TextsKept
    <3>1. QED BY <1>2, <1>6, TextsStay DEF FramingIInv
  <2>2. printed' \in [Clients -> Seq(Seq(Pairs))] /\ \A d \in Clients \ {c} : printed'[d] = printed[d]
      BY <1>6 DEF FramingIInv, FramingTyped
  <2>3. QED BY <1>5, <2>1, <2>2
<1>7. CASE printed' # printed
  <2>1. /\ line # <<>> /\ printed' = [printed EXCEPT ![c] = Append(@, line)]
        /\ pc = "recv" /\ protocol = "Variable" /\ peer[c] # "up"
    <3>1. line # <<>> /\ ~ Frames!RecvError(c) /\ printed' = [printed EXCEPT ![c] = Append(@, line)]
        BY <1>1, <1>7 DEF Frames!RecvBreaks, Frames!Show
    <3>2. pc = "recv" /\ protocol = "Variable"
        BY <3>1 DEF FramingIInv, OneClient
    <3>3. peer[c] # "up"
        BY <1>1, <3>1, <3>2 DEF Frames!RecvBreaks, Frames!RecvEof, Frames!RecvError
    <3>4. QED BY <3>1, <3>2, <3>3
  <2>2. PICK m : m = Len(printed[c]) + 1
      OBVIOUS
  <2>3. InFrame(c)
      BY <1>1, <2>1 DEF StreamOver
  <2>4. /\ m \in 1 .. Frames!Count /\ Len(line) < Size(m)
        /\ \A k \in 1 .. Len(line) : line[k] = Frames!Frame(m)[k]
    <3>1. m <= Frames!Count /\ Len(line) < Size(m)
          /\ \A k \in 1 .. Len(line) : line[k] = Frames!Frame(m)[k]
        BY <2>1, <2>2, <2>3 DEF InFrame
    <3>2. m \in Nat \ {0} /\ Frames!Count \in Nat
        BY <1>1, <2>2, ClientsAssumption DEF Frames!Count
    <3>3. QED BY <3>1, <3>2
  <2>5. Frames!Frame(m) \in Seq(Pairs) /\ Frames!Printed(m) = Frames!Frame(m)
        /\ Size(m) = Len(Frames!Frame(m))
      BY <1>0, <2>1, <2>4, FrameParts DEF Frames!Printed, Size
  <2>6. Frames!IsPrefix(line, Frames!Printed(m))
    <3>1. Len(line) \in 0 .. Len(Frames!Frame(m))
        BY <1>3, <2>4, <2>5
    <3>2. line = [k \in 1 .. Len(line) |-> Frames!Frame(m)[k]]
        BY <1>3, <2>4
    <3>3. QED BY <2>5, <3>1, <3>2, Piece
  <2>7. /\ printed' \in [Clients -> Seq(Seq(Pairs))] /\ TextsKept'
        /\ \A d \in Clients \ {c} : printed'[d] = printed[d]
      BY <1>2, <1>3, <2>1, <2>2, <2>3, <2>4, <2>6, FramingShows
  <2>8. QED BY <1>5, <2>7
<1>8. QED BY <1>6, <1>7

LEMMA FramingStays == FramingIInv /\ UNCHANGED Frames!vars => FramingIInv'
<1> SUFFICES ASSUME FramingIInv, UNCHANGED Frames!vars PROVE FramingIInv'
    OBVIOUS
<1>1. /\ protocol' = protocol /\ pc' = pc /\ client_sock' = client_sock /\ len' = len
      /\ link' = link /\ peer' = peer /\ sent' = sent /\ taken' = taken /\ out' = out
      /\ got' = got /\ fdt' = fdt /\ ahead' = ahead /\ line' = line /\ printed' = printed
    BY DEF Frames!vars, Frames!sockets, Frames!server
<1>2. FramingTyped' /\ OneClient'
    BY <1>1 DEF FramingIInv, FramingTyped, Frames!SocketsTypeOK, OneClient, Serving
<1>3. PICK most : most = Frames!Start(Frames!Count + 1) /\ most = Frames!Start(Frames!Count + 1)'
    BY <1>1, SameFrames
<1>4. InTime'
    BY <1>1, <1>3 DEF FramingIInv, InTime
<1>5. TextsKept'
  <2> SUFFICES ASSUME NEW d \in Clients
               PROVE (Whole(printed[d]) \/ (peer[d] # "up" /\ Cut(printed[d])))'
      BY DEF TextsKept
  <2>1. QED BY <1>1, TextsStay DEF FramingIInv
<1>6. Position'
  <2> SUFFICES ASSUME pc \in {"recv", "body"} PROVE Position'
      BY <1>1 DEF Position
  <2>1. PICK c \in Clients : c = fdt[client_sock] /\ (InFrame(c) \/ StreamOver(c))
      BY DEF FramingIInv, Position, OneClient, Serving
  <2>2. StreamOver(c) => StreamOver(c)'
      BY <1>1 DEF StreamOver
  <2>3. InFrame(c) => InFrame(c)'
      BY <1>1, SameFrames, SameTexts DEF InFrame, Whole, FirstMessages
  <2>4. QED BY <1>1, <2>1, <2>2, <2>3 DEF Position, InFrame, StreamOver, Whole, FirstMessages
<1>7. QED BY <1>2, <1>4, <1>5, <1>6 DEF FramingIInv

(* In all four protocols: the server serves one client at a time, receives *)
(* no byte before it has arrived, what it has printed are the first        *)
(* messages, and what it has taken ends where those end or inside the next *)
(* frame, with the rest of the frame in ahead and line or still to come.   *)
THEOREM FramingInvariance == Frames!Spec => []FramingIInv
<1>1. FramingIInv /\ [Frames!Next]_(Frames!vars) => FramingIInv'
    BY FramingAccepts, FramingCloses, FramingRemote, FramingRecvMessage, FramingRecvLength,
       FramingRecvBody, FramingRecvAhead, FramingNextChar, FramingRecvBreaks, FramingStays
    DEF Frames!Next, Frames!Server
<1>2. QED BY <1>1, FramingInit, PTL DEF Frames!Spec

(* The state of the framing programs is always of its type: the buffers of *)
(* recvline() and _recv_ahead() do not overflow.                           *)
THEOREM FramingTypeCorrect == Frames!Spec => []Frames!TypeOK
<1>1. FramingIInv => Frames!TypeOK
    BY DEF FramingIInv, FramingTyped, Frames!TypeOK
<1>2. QED BY <1>1, FramingInvariance, PTL

(* However the stream of each client is cut, in each of the four           *)
(* protocols, what the server prints for it are its messages, whole and in *)
(* order, but for a last piece when its stream has ended.                  *)
THEOREM MessagesFramed == Frames!Spec => []MessagesKept
<1>1. FramingIInv => MessagesKept
  <2> SUFFICES ASSUME FramingIInv, NEW c \in Clients, NEW j \in 1 .. Len(printed[c])
               PROVE  \/ j <= Frames!Count /\ printed[c][j] = Frames!Printed(j)
                      \/ /\ j = Len(printed[c])
                         /\ j <= Frames!Count
                         /\ peer[c] # "up"
                         /\ Frames!IsPrefix(printed[c][j], Frames!Printed(j))
      BY DEF MessagesKept, Frames!MessagesKept
  <2>1. Len(printed[c]) \in Nat /\ Frames!Count \in Nat
      BY ClientsAssumption DEF FramingIInv, FramingTyped, Frames!Count
  <2>2. Whole(printed[c]) \/ (peer[c] # "up" /\ Cut(printed[c]))
      BY DEF FramingIInv, TextsKept
  <2>3. CASE Whole(printed[c])
      BY <2>1, <2>3 DEF Whole, FirstMessages
  <2>4. CASE peer[c] # "up" /\ Cut(printed[c])
    <3>1. CASE j = Len(printed[c])
        BY <2>1, <2>4, <3>1 DEF Cut
    <3>2. CASE j \in 1 .. (Len(printed[c]) - 1)
        BY <2>1, <2>4, <3>2 DEF Cut, FirstMessages
    <3>3. QED BY <2>1, <3>1, <3>2
  <2>5. QED BY <2>2, <2>3, <2>4
<1>2. QED BY <1>1, FramingInvariance, PTL

-----------------------------------------------------------------------------
(* The composition: a step of one program leaves the others alone. *)

LEMMA EachRuns == MCSpec => Spec /\ Echo!Spec /\ UDP!Spec /\ Frames!Spec
<1>1. MCInit => Init /\ Echo!Init /\ UDP!Init /\ Frames!Init
    BY DEF MCInit
<1>2. [MCNext]_allVars => [Next]_vars
    BY DEF MCNext, OfPrj, OfEcho, OfUDP, OfFrames, allVars
<1>3. [MCNext]_allVars => [Echo!Next]_(Echo!vars)
    BY DEF MCNext, OfPrj, OfEcho, OfUDP, OfFrames, allVars, echoVars, Echo!vars
<1>4. [MCNext]_allVars => [UDP!Next]_(UDP!vars)
    BY DEF MCNext, OfPrj, OfEcho, OfUDP, OfFrames, allVars, udpVars, UDP!vars, UDP!network
<1>5. [MCNext]_allVars => [Frames!Next]_(Frames!vars)
    BY DEF MCNext, OfPrj, OfEcho, OfUDP, OfFrames, allVars, framingVars, Frames!vars,
           Frames!sockets, Frames!server
<1>6. QED BY <1>1, <1>2, <1>3, <1>4, <1>5, PTL DEF MCSpec, Spec, Echo!Spec, UDP!Spec, Frames!Spec

(* In the run of all of them every variable is of its type. *)
THEOREM ClientsTypesKept == MCSpec => []TypesOK
<1>1. QED BY EachRuns, TypeCorrect, EchoTypeCorrect, UDPTypeCorrect, FramingTypeCorrect, PTL DEF TypesOK

(* What the run Clients checks of the programs besides, for all sizes: the *)
(* dialog of GUITCPClient waits in vain only when it has crossed with      *)
(* EnableWindow(); UDP answers are shown for their own texts, unless a     *)
(* datagram was doubled; and messages are found in any stream.             *)
THEOREM ClientsCorrect == MCSpec => [](NeverWaitsInVain /\ OwnAnswer /\ MessagesKept)
<1>1. QED BY EachRuns, WaitsEnd, AnswersBelong, MessagesFramed, PTL

(* The texts of the two dialogs, in g_chatmsg of PrjClient and in buf of   *)
(* GUITCPClient, are handed over to the thread that sends them one at a    *)
(* time, none of them twice and none skipped.                              *)
THEOREM TextsHandedOver == MCSpec => HandOffs
<1>1. QED BY EachRuns, HandsOver, EchoHandsOver DEF HandOffs
=============================================================================
