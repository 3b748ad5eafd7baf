------------------------------ MODULE PrjClient -----------------------------
(***************************************************************************)
(* The chat client: Windows/Chapter14/PrjClient/PrjClient.cpp.             *)
(*                                                                         *)
(* Four threads: the dialog, ClientMain, ReadThread and WriteThread.  The  *)
(* dialog hands its texts to WriteThread with two auto-reset events; lines *)
(* and erasures it sends itself.  ReadThread shows what it receives with   *)
(* SendMessage(), which returns when the dialog has handled the message,   *)
(* so a dialog that waits holds up ReadThread as well.                     *)
(*                                                                         *)
(* The other end is module PrjServer: it reads a message, sends it to all  *)
(* clients, this one too, with a send() that blocks, and reads on.         *)
(***************************************************************************)
EXTENDS Integers, Sequences

CONSTANTS
    N,         \* BOUND: texts the user sends
    MaxDraws,  \* BOUND: lines and erasures the user makes
    MaxNews,   \* BOUND: messages of other clients
    PIECES,    \* pieces a message may be cut into by send()
    SNDBUF,    \* pieces the kernels queue for a server that does not read
    RCVBUF     \* messages they queue for a client that does not read

ASSUME PrjClientAssumption ==
    /\ N \in Nat /\ MaxDraws \in Nat /\ MaxNews \in Nat
    /\ PIECES \in Nat \ {0} /\ SNDBUF \in Nat \ {0} /\ RCVBUF \in Nat \ {0}

VARIABLES
    dialog,         \* the dialog's thread: "idle" (it handles messages), "spin", "enable",
                    \* "wait", "type", "send", "exit"
    main,           \* ClientMain: "none", "connect", "box", "start", "join", "lost", "end"
    reader,         \* ReadThread: "none", "recv", "show", "end"
    writer,         \* WriteThread: "none", "wait", "test", "send", "set", "end"
    g_bCommStarted,
    connectable,    \* the connect button is enabled
    buttons,        \* the buttons to send and to erase are enabled
    g_hReadEvent, g_hWriteEvent,
    g_chatmsg,      \* the number of the text, and whether it is empty
    typed,          \* texts the user has entered
    handled,        \* the texts WriteThread has done with
    draws,          \* lines and erasures the user has made
    sending,        \* sending[t]: the message thread t sends, and its pieces that are left
    mixed,          \* history: both threads were in send() at once
    net,            \* the connection: "up", "broken" (by the server), "closed" (by ClientMain)
    up,             \* the pieces of messages that send() has accepted, not yet read
    read,           \* the pieces of a message that the server has read
    down,           \* the messages that have arrived for recv()
    news,           \* messages of others so far
    comm_msg,       \* the message ReadThread shows
    g_drawcolor,
    picture         \* the lines in the picture, with the colour they are drawn in

events == <<g_hReadEvent, g_hWriteEvent, g_chatmsg, typed>>
sends == <<sending, mixed, up, draws>>
world == <<read, news>>
incoming == <<down, comm_msg, g_drawcolor>>
vars == <<dialog, main, reader, writer, g_bCommStarted, connectable, buttons, events,
          handled, sends, net, world, incoming, picture>>

Senders == {"dialog", "writer"}
Types == {"chat", "drawline", "erasepic"}
Message(type, n) == [type |-> type, n |-> n]
Messages == [type: Types, n: Nat]
NoMessage == Message("chat", 0)
Nothing == [msg |-> NoMessage, left |-> 0]

Init ==
    /\ dialog = "idle" /\ main = "none" /\ reader = "none" /\ writer = "none"
    /\ g_bCommStarted = FALSE
    /\ connectable = TRUE
    /\ buttons = FALSE
    /\ g_hReadEvent = TRUE
    /\ g_hWriteEvent = FALSE
    /\ g_chatmsg = [n |-> 0, empty |-> TRUE]
    /\ typed = 0
    /\ handled = <<>>
    /\ draws = 0
    /\ sending = [t \in Senders |-> Nothing]
    /\ mixed = FALSE
    /\ net = "up"
    /\ up = <<>>
    /\ read = <<>>
    /\ down = <<>>
    /\ news = 0
    /\ comm_msg = NoMessage
    /\ g_drawcolor = 0
    /\ picture = {}

-----------------------------------------------------------------------------
(* send() of a message: piece by piece as there is room, or an error.      *)

StartSend(t, msg) ==
    /\ sending' = [sending EXCEPT ![t] = [msg |-> msg, left |-> PIECES]]
    /\ mixed' = (mixed \/ \E s \in Senders \ {t} : sending[s].left > 0)
    /\ up' = up

Room == Len(up) < SNDBUF

SendPiece(t) ==
    /\ net # "closed"
    /\ Room
    /\ sending[t].left > 0
    /\ up' = Append(up, sending[t].msg)
    /\ sending' = [sending EXCEPT ![t] =
                      IF @.left = 1 THEN Nothing ELSE [msg |-> @.msg, left |-> @.left - 1]]
    /\ UNCHANGED <<mixed, draws>>

SendError(t) ==
    /\ net # "up"
    /\ sending[t].left > 0
    /\ sending' = [sending EXCEPT ![t] = Nothing]
    /\ UNCHANGED <<mixed, up, draws>>

-----------------------------------------------------------------------------
(* The dialog: DlgProc() and ChildWndProc().                               *)

(* IDC_CONNECT: ClientMain starts, and the dialog spins on the flag. *)
ClickConnect ==
    /\ dialog = "idle"
    /\ connectable
    /\ main' = "connect"
    /\ dialog' = "spin"
    /\ UNCHANGED <<reader, writer, g_bCommStarted, connectable, buttons, events,
                   handled, sends, net, world, incoming, picture>>

SpinEnds ==
    /\ dialog = "spin"
    /\ g_bCommStarted
    /\ dialog' = "enable"
    /\ UNCHANGED <<main, reader, writer, g_bCommStarted, connectable, buttons, events,
                   handled, sends, net, world, incoming, picture>>

EnableControls ==
    /\ dialog = "enable"
    /\ connectable' = FALSE
    /\ buttons' = TRUE
    /\ dialog' = "idle"
    /\ UNCHANGED <<main, reader, writer, g_bCommStarted, events,
                   handled, sends, net, world, incoming, picture>>

(* IDC_SENDMSG *)
ClickSend ==
    /\ dialog = "idle"
    /\ buttons
    /\ typed < N
    /\ dialog' = "wait"
    /\ UNCHANGED <<main, reader, writer, g_bCommStarted, connectable, buttons, events,
                   handled, sends, net, world, incoming, picture>>

(* Mutation: the dialog does not wait for the last text to be done with. *)
WaitAtOnce ==
    /\ dialog = "wait"
    /\ dialog' = "type"
    /\ UNCHANGED <<main, reader, writer, g_bCommStarted, connectable, buttons, events,
                   handled, sends, net, world, incoming, picture>>

WaitReturns ==
    /\ dialog = "wait"
    /\ g_hReadEvent
    /\ g_hReadEvent' = FALSE
    /\ dialog' = "type"
    /\ UNCHANGED <<main, reader, writer, g_bCommStarted, connectable, buttons,
                   g_hWriteEvent, g_chatmsg, typed,
                   handled, sends, net, world, incoming, picture>>

TypeText ==
    /\ dialog = "type"
    /\ \E empty \in BOOLEAN : g_chatmsg' = [n |-> typed + 1, empty |-> empty]
    /\ typed' = typed + 1
    /\ g_hWriteEvent' = TRUE
    /\ dialog' = "idle"
    /\ UNCHANGED <<main, reader, writer, g_bCommStarted, connectable, buttons,
                   g_hReadEvent, handled, sends, net, world, incoming, picture>>

(* WM_MOUSEMOVE with the button down, and IDC_ERASEPIC. *)
Draw ==
    /\ dialog = "idle"
    /\ draws < MaxDraws
    /\ draws' = draws + 1
    /\ \/ g_bCommStarted /\ StartSend("dialog", Message("drawline", draws'))
       \/ buttons /\ StartSend("dialog", Message("erasepic", draws'))
    /\ dialog' = "send"
    /\ UNCHANGED <<main, reader, writer, g_bCommStarted, connectable, buttons, events,
                   handled, net, world, incoming, picture>>

(* The return value of send() is not looked at. *)
DialogSends ==
    /\ dialog = "send"
    /\ \/ SendPiece("dialog") /\ dialog' = IF sending["dialog"].left = 1 THEN "idle" ELSE "send"
       \/ SendError("dialog") /\ dialog' = "idle"
    /\ UNCHANGED <<main, reader, writer, g_bCommStarted, connectable, buttons, events,
                   handled, net, world, incoming, picture>>

(* WM_DRAWLINE, WM_ERASEPIC or a text for the edit control: the dialog      *)
(* handles what ReadThread has sent it.                                     *)
Show ==
    /\ dialog = "idle"
    /\ reader = "show"
    /\ \/ comm_msg.type = "chat" /\ picture' = picture
       \/ comm_msg.type = "drawline" /\ picture' = picture \cup {<<comm_msg.n, g_drawcolor>>}
       \/ comm_msg.type = "erasepic" /\ picture' = {}
    /\ reader' = "recv"
    /\ comm_msg' = NoMessage
    /\ UNCHANGED <<dialog, main, writer, g_bCommStarted, connectable, buttons, events,
                   handled, sends, net, world, down, g_drawcolor>>

(* IDCANCEL: the process ends. *)
Cancel ==
    /\ dialog = "idle"
    /\ dialog' = "exit"
    /\ UNCHANGED <<main, reader, writer, g_bCommStarted, connectable, buttons, events,
                   handled, sends, net, world, incoming, picture>>

Dialog ==
    \/ ClickConnect \/ SpinEnds \/ EnableControls \/ ClickSend \/ WaitReturns \/ TypeText
    \/ Draw \/ DialogSends \/ Show \/ Cancel

-----------------------------------------------------------------------------
(* ClientMain.  A message box returns when the user has closed it.         *)

(* socket() and connect(); err_quit() ends the process. *)
ConnectCall ==
    /\ main = "connect"
    /\ main' = "box"
    /\ dialog' \in {dialog, "exit"}
    /\ UNCHANGED <<reader, writer, g_bCommStarted, connectable, buttons, events,
                   handled, sends, net, world, incoming, picture>>

StartThreads ==
    /\ main = "box"
    /\ reader' = "recv"
    /\ writer' = "wait"
    /\ main' = "start"
    /\ UNCHANGED <<dialog, g_bCommStarted, connectable, buttons, events,
                   handled, sends, net, world, incoming, picture>>

Started ==
    /\ main = "start"
    /\ g_bCommStarted' = TRUE
    /\ main' = "join"
    /\ UNCHANGED <<dialog, reader, writer, connectable, buttons, events,
                   handled, sends, net, world, incoming, picture>>

(* One thread has ended: TerminateThread() ends the other where it is. *)
Joined ==
    /\ main = "join"
    /\ reader = "end" \/ writer = "end"
    /\ reader' = "end"
    /\ writer' = "end"
    /\ sending' = [sending EXCEPT !["writer"] = Nothing]
    /\ main' = "lost"
    /\ UNCHANGED <<dialog, g_bCommStarted, connectable, buttons, events,
                   handled, mixed, up, draws, net, world, incoming, picture>>

(* EnableWindow() disables a button and waits until the dialog has handled *)
(* the message about it.  A button disabled before that only keeps the     *)
(* dialog from a click that would delay this step, so it is one step.      *)
Disconnected ==
    /\ main = "lost"
    /\ buttons => dialog = "idle"
    /\ buttons' = FALSE
    /\ g_bCommStarted' = FALSE
    /\ net' = "closed"
    /\ main' = "end"
    /\ UNCHANGED <<dialog, reader, writer, connectable, events,
                   handled, sends, world, incoming, picture>>

ClientMain == ConnectCall \/ StartThreads \/ Started \/ Joined \/ Disconnected

-----------------------------------------------------------------------------
(* ReadThread. *)

(* Mutation: the message is posted, and the thread receives the next one. *)
RecvAndPost ==
    /\ reader \in {"recv", "show"}
    /\ down # <<>>
    /\ IF reader = "recv" THEN comm_msg' = Head(down) ELSE comm_msg' = comm_msg
    /\ g_drawcolor' = IF Head(down).type = "drawline" THEN Head(down).n ELSE g_drawcolor
    /\ down' = Tail(down)
    /\ reader' = "show"
    /\ UNCHANGED <<dialog, main, writer, g_bCommStarted, connectable, buttons, events,
                   handled, sends, net, world, picture>>

RecvCall ==
    /\ reader = "recv"
    /\ down # <<>>
    /\ comm_msg' = Head(down)
    /\ g_drawcolor' = IF Head(down).type = "drawline" THEN Head(down).n ELSE g_drawcolor
    /\ down' = Tail(down)
    /\ reader' = "show"
    /\ UNCHANGED <<dialog, main, writer, g_bCommStarted, connectable, buttons, events,
                   handled, sends, net, world, picture>>

RecvEnds ==
    /\ reader = "recv"
    /\ net # "up"
    /\ reader' = "end"
    /\ UNCHANGED <<dialog, main, writer, g_bCommStarted, connectable, buttons, events,
                   handled, sends, net, world, incoming, picture>>

ReadThread == RecvCall \/ RecvEnds

-----------------------------------------------------------------------------
(* WriteThread. *)

WriterWaits ==
    /\ writer = "wait"
    /\ g_hWriteEvent
    /\ g_hWriteEvent' = FALSE
    /\ writer' = "test"
    /\ UNCHANGED <<dialog, main, reader, g_bCommStarted, connectable, buttons,
                   g_hReadEvent, g_chatmsg, typed,
                   handled, sends, net, world, incoming, picture>>

(* strlen() of the text: an empty one is not sent. *)
WriterTests ==
    /\ writer = "test"
    /\ IF g_chatmsg.empty
       THEN writer' = "set" /\ UNCHANGED sends
       ELSE /\ writer' = "send"
            /\ StartSend("writer", Message("chat", g_chatmsg.n))
            /\ draws' = draws
    /\ UNCHANGED <<dialog, main, reader, g_bCommStarted, connectable, buttons, events,
                   handled, net, world, incoming, picture>>

(* Mutation: the first piece is taken for the message. *)
WriterSendsOnce ==
    /\ writer = "send"
    /\ SendPiece("writer") /\ writer' = "set"
    /\ UNCHANGED <<dialog, main, reader, g_bCommStarted, connectable, buttons, events,
                   handled, net, world, incoming, picture>>

(* An error ends the thread; g_hReadEvent is never set again. *)
WriterSends ==
    /\ writer = "send"
    /\ \/ SendPiece("writer") /\ writer' = IF sending["writer"].left = 1 THEN "set" ELSE "send"
       \/ SendError("writer") /\ writer' = "end"
    /\ UNCHANGED <<dialog, main, reader, g_bCommStarted, connectable, buttons, events,
                   handled, net, world, incoming, picture>>

(* Mutation: the event is set only when a text was sent. *)
WriterSetsIfSent ==
    /\ writer = "set"
    /\ g_hReadEvent' = ~ g_chatmsg.empty
    /\ handled' = Append(handled, <<g_chatmsg.n>>)
    /\ writer' = "wait"
    /\ UNCHANGED <<dialog, main, reader, g_bCommStarted, connectable, buttons,
                   g_hWriteEvent, g_chatmsg, typed, sends, net, world, incoming, picture>>

(* The button is enabled all the time, so EnableWindow() has no effect. *)
WriterSets ==
    /\ writer = "set"
    /\ g_hReadEvent' = TRUE
    /\ handled' = Append(handled, <<g_chatmsg.n>>)
    /\ writer' = "wait"
    /\ UNCHANGED <<dialog, main, reader, g_bCommStarted, connectable, buttons,
                   g_hWriteEvent, g_chatmsg, typed, sends, net, world, incoming, picture>>

WriteThread == WriterWaits \/ WriterTests \/ WriterSends \/ WriterSets

Client == dialog # "exit" /\ (Dialog \/ ClientMain \/ ReadThread \/ WriteThread)

-----------------------------------------------------------------------------
(* The server. *)

(* It reads a piece; the last one of a message it cannot finish with before *)
(* there is room to send the message back.                                  *)
ServerReads ==
    /\ net = "up"
    /\ up # <<>>
    /\ up' = Tail(up)
    /\ IF Len(read) = PIECES - 1
       THEN /\ Len(down) < RCVBUF
            /\ down' = Append(down, Head(up))
            /\ read' = <<>>
       ELSE down' = down /\ read' = Append(read, Head(up))
    /\ UNCHANGED <<dialog, main, reader, writer, g_bCommStarted, connectable, buttons, events,
                   handled, sending, mixed, draws, net, news, comm_msg, g_drawcolor, picture>>

(* A message of another client. *)
ServerSends ==
    /\ net = "up"
    /\ main \notin {"none", "connect"}
    /\ news < MaxNews
    /\ Len(down) < RCVBUF
    /\ news' = news + 1
    /\ \E type \in Types : down' = Append(down, Message(type, MaxDraws + news'))
    /\ UNCHANGED <<dialog, main, reader, writer, g_bCommStarted, connectable, buttons, events,
                   handled, sends, net, read, comm_msg, g_drawcolor, picture>>

ServerLeaves ==
    /\ net = "up"
    /\ main \notin {"none", "connect"}
    /\ net' = "broken"
    /\ UNCHANGED <<dialog, main, reader, writer, g_bCommStarted, connectable, buttons, events,
                   handled, sends, world, incoming, picture>>

Environment == ServerReads \/ ServerSends \/ ServerLeaves

Next == Client \/ Environment

Spec == Init /\ [][Next]_vars

-----------------------------------------------------------------------------
(* Properties. *)

TypeOK ==
    /\ dialog \in {"idle", "spin", "enable", "wait", "type", "send", "exit"}
    /\ main \in {"none", "connect", "box", "start", "join", "lost", "end"}
    /\ reader \in {"none", "recv", "show", "end"}
    /\ writer \in {"none", "wait", "test", "send", "set", "end"}
    /\ {g_bCommStarted, connectable, buttons, mixed} \subseteq BOOLEAN
    /\ {g_hReadEvent, g_hWriteEvent} \subseteq BOOLEAN
    /\ g_chatmsg \in [n: Nat, empty: BOOLEAN]
    /\ typed \in 0 .. N
    /\ handled \in Seq(Seq(Nat))
    /\ draws \in 0 .. MaxDraws
    /\ sending \in [Senders -> [msg: Messages, left: 0 .. PIECES]]
    /\ net \in {"up", "broken", "closed"}
    /\ up \in Seq(Messages)
    /\ read \in Seq(Messages)
    /\ down \in Seq(Messages)
    /\ news \in 0 .. MaxNews
    /\ comm_msg \in Messages
    /\ g_drawcolor \in Nat
    /\ picture \subseteq (Nat \X Nat)

(* Who may touch g_chatmsg: exactly one of the dialog, WriteThread and the *)
(* two events that pass the right to and fro.  The right is lost only with *)
(* WriteThread itself.                                                     *)
Holders ==
    {h \in {"dialog", "writer", "read", "write"} :
       \/ h = "dialog" /\ dialog = "type"
       \/ h = "writer" /\ writer \in {"test", "send", "set"}
       \/ h = "read" /\ g_hReadEvent
       \/ h = "write" /\ g_hWriteEvent}
OneRight ==
    /\ \A g, h \in Holders : g = h
    /\ writer # "end" => Holders # {}

(* Every text is sent or skipped before the next one is entered: the       *)
(* dialog and WriteThread are a buffer of one place.                       *)
Texts == INSTANCE HandOff WITH BUFSIZE <- 1, written <- typed, printed <- handled
ImplementsHandOff == Texts!Spec

(* The server gets whole messages, unless the dialog and WriteThread were  *)
(* in send() at once: no lock keeps their pieces apart.                    *)
WholeUnlessBoth ==
    net = "up" /\ ~ mixed =>
       LET pieces == read \o up
       IN  \A q \in 1 .. Len(pieces) : q % PIECES # 0 =>
              IF q < Len(pieces) THEN pieces[q + 1] = pieces[q]
                                 ELSE \E t \in Senders : sending[t].msg = pieces[q]

(* A line is drawn in its own colour, although the colour reaches the      *)
(* dialog through a global variable of which ReadThread is the master.     *)
RightColour == \A line \in picture : line[1] = line[2]

(* What the dialog may wait for. *)
Hangs == dialog \in {"spin", "wait", "send"}

(* There are four ways in which it waits for ever.  It has come for the    *)
(* event after WriteThread, which alone sets it, has ended ...             *)
Abandoned == dialog = "wait" /\ writer = "end" /\ ~ g_hReadEvent

(* ... it has missed the flag, which was set and reset while it span ...   *)
Missed == dialog = "spin" /\ main = "end" /\ ~ g_bCommStarted

(* ... it, or WriteThread for which it waits, is in send() and the server  *)
(* does not make room, although it may read: another client holds it up ...*)
Stalled ==
    /\ dialog = "send" \/ (dialog = "wait" /\ writer = "send")
    /\ net = "up" /\ ~ Room
HeldUp == Stalled /\ (Len(read) < PIECES - 1 \/ Len(down) < RCVBUF)

(* ... or the server waits for room to send in its turn, and ReadThread    *)
(* for the dialog: client and server wait for each other.                  *)
Embrace == Stalled /\ ~ HeldUp /\ reader = "show"
=============================================================================
