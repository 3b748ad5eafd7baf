----------------------------- MODULE EchoClients ----------------------------
(***************************************************************************)
(* The TCP clients that send a text and wait for its echo:                 *)
(*                                                                         *)
(*   TCPClient (ch. 4, IPv4 and IPv6)   one thread does everything         *)
(*   GUITCPClient (Windows, ch. 10)     a dialog takes the texts and hands *)
(*                                      them to the thread ClientMain with *)
(*                                      two auto-reset events              *)
(*                                                                         *)
(* The server is any of the echo servers; an echo arrives in two pieces.   *)
(***************************************************************************)
EXTENDS Integers, Sequences

CONSTANT N         \* BOUND: texts the user enters

VARIABLES
    program,       \* "TCPClient" or "GUITCPClient"; it never changes
    dialog,        \* the dialog's thread: "idle", "wait", "type", "exit"
    main,          \* the other one: "connect", "input", "wait", "send", "recv",
                   \* "enable", "notify", "set", "end"
    hReadEvent, hWriteEvent,
    hSendButton,   \* the button is enabled
    buf,           \* the number of the text, and whether it is empty
    typed,         \* texts that have been put into buf
    shown,         \* the texts main has done with
    owed,          \* pieces the server has still to send
    inbox,         \* pieces that have arrived
    up             \* the server has not left

vars == <<program, dialog, main, hReadEvent, hWriteEvent, hSendButton, buf, typed,
          shown, owed, inbox, up>>

Programs == {"TCPClient", "GUITCPClient"}
GUI == program = "GUITCPClient"

Init ==
    /\ program \in Programs
    /\ dialog = "idle"
    /\ main = "connect"
    /\ hReadEvent = TRUE
    /\ hWriteEvent = FALSE
    /\ hSendButton = TRUE
    /\ buf = [n |-> 0, empty |-> TRUE]
    /\ typed = 0
    /\ shown = <<>>
    /\ owed = 0
    /\ inbox = 0
    /\ up = TRUE

-----------------------------------------------------------------------------
(* The dialog of GUITCPClient: DlgProc().                                  *)

(* IDOK.  A disabled button sends no IDOK, and neither does the Enter key. *)
ClickSend ==
    /\ GUI
    /\ dialog = "idle"
    /\ hSendButton
    /\ typed < N
    /\ hSendButton' = FALSE
    /\ dialog' = "wait"
    /\ UNCHANGED <<program, main, hReadEvent, hWriteEvent, buf, typed, shown, owed, inbox, up>>

WaitReturns ==
    /\ dialog = "wait"
    /\ hReadEvent
    /\ hReadEvent' = FALSE
    /\ dialog' = "type"
    /\ UNCHANGED <<program, main, hWriteEvent, hSendButton, buf, typed, shown, owed, inbox, up>>

TypeText ==
    /\ dialog = "type"
    /\ \E empty \in BOOLEAN : buf' = [n |-> typed + 1, empty |-> empty]
    /\ typed' = typed + 1
    /\ hWriteEvent' = TRUE
    /\ dialog' = "idle"
    /\ UNCHANGED <<program, main, hReadEvent, hSendButton, shown, owed, inbox, up>>

(* IDCANCEL: the process ends. *)
Cancel ==
    /\ GUI
    /\ dialog = "idle"
    /\ dialog' = "exit"
    /\ UNCHANGED <<program, main, hReadEvent, hWriteEvent, hSendButton, buf, typed, shown,
                   owed, inbox, up>>

Dialog == ClickSend \/ WaitReturns \/ TypeText \/ Cancel

-----------------------------------------------------------------------------
(* main() or ClientMain().                                                 *)

(* connect() that fails ends the process: err_quit(). *)
ConnectCall ==
    /\ main = "connect"
    /\ \/ main' = (IF GUI THEN "wait" ELSE "input") /\ dialog' = dialog
       \/ main' = "end" /\ dialog' = "exit"
    /\ UNCHANGED <<program, hReadEvent, hWriteEvent, hSendButton, buf, typed, shown,
                   owed, inbox, up>>

(* fgets(); an empty line ends TCPClient. *)
Input ==
    /\ main = "input"
    /\ typed < N
    /\ \/ /\ buf' = [n |-> typed + 1, empty |-> FALSE]
          /\ typed' = typed + 1
          /\ main' = "send"
       \/ main' = "end" /\ UNCHANGED <<buf, typed>>
    /\ UNCHANGED <<program, dialog, hReadEvent, hWriteEvent, hSendButton, shown,
                   owed, inbox, up>>

(* GUITCPClient skips an empty text. *)
MainWaits ==
    /\ main = "wait"
    /\ hWriteEvent
    /\ hWriteEvent' = FALSE
    /\ main' = IF buf.empty THEN "enable" ELSE "send"
    /\ UNCHANGED <<program, dialog, hReadEvent, hSendButton, buf, typed, shown,
                   owed, inbox, up>>

SendCall ==
    /\ main = "send"
    /\ \/ up /\ owed' = owed + 2 /\ main' = "recv"
       \/ ~ up /\ main' \in {"recv", "end"} /\ owed' = owed
    /\ UNCHANGED <<program, dialog, hReadEvent, hWriteEvent, hSendButton, buf, typed, shown,
                   inbox, up>>

(* Mutation: recv() without MSG_WAITALL. *)
RecvSome ==
    /\ main = "recv"
    /\ \/ /\ inbox > 0
          /\ \E n \in 1 .. inbox : inbox' = inbox - n
          /\ main' = IF GUI THEN "enable" ELSE "input"
          /\ shown' = IF GUI THEN shown ELSE Append(shown, <<buf.n>>)
       \/ ~ up /\ main' = "end" /\ UNCHANGED <<inbox, shown>>
    /\ UNCHANGED <<program, dialog, hReadEvent, hWriteEvent, hSendButton, buf, typed, owed, up>>

(* recv() with MSG_WAITALL: the whole echo, or what there is of it when the *)
(* connection ends, or nothing, which ends the loop.                        *)
RecvCall ==
    /\ main = "recv"
    /\ \/ /\ inbox = 2 \/ (inbox > 0 /\ ~ up)
          /\ inbox' = 0
          /\ main' = IF GUI THEN "enable" ELSE "input"
          /\ shown' = IF GUI THEN shown ELSE Append(shown, <<buf.n>>)
       \/ ~ up /\ main' = "end" /\ UNCHANGED <<inbox, shown>>
    /\ UNCHANGED <<program, dialog, hReadEvent, hWriteEvent, hSendButton, buf, typed, owed, up>>

(* EnableWindow() first enables the button and then sends WM_ENABLE to the *)
(* dialog's thread: it returns when the dialog has handled it.             *)
EnableSend ==
    /\ main = "enable"
    /\ hSendButton' = TRUE
    /\ main' = "notify"
    /\ UNCHANGED <<program, dialog, hReadEvent, hWriteEvent, buf, typed, shown, owed, inbox, up>>

Notified ==
    /\ main = "notify"
    /\ dialog = "idle"
    /\ main' = "set"
    /\ UNCHANGED <<program, dialog, hReadEvent, hWriteEvent, hSendButton, buf, typed, shown,
                   owed, inbox, up>>

(* Mutation: an empty text is passed over without a word. *)
SetIfSent ==
    /\ main = "set"
    /\ hReadEvent' = ~ buf.empty
    /\ shown' = Append(shown, <<buf.n>>)
    /\ main' = "wait"
    /\ UNCHANGED <<program, dialog, hWriteEvent, hSendButton, buf, typed, owed, inbox, up>>

SetRead ==
    /\ main = "set"
    /\ hReadEvent' = TRUE
    /\ shown' = Append(shown, <<buf.n>>)
    /\ main' = "wait"
    /\ UNCHANGED <<program, dialog, hWriteEvent, hSendButton, buf, typed, owed, inbox, up>>

Main == \/ ConnectCall \/ Input \/ MainWaits \/ SendCall \/ RecvCall
        \/ EnableSend \/ Notified \/ SetRead

Client == dialog # "exit" /\ (Dialog \/ Main)

-----------------------------------------------------------------------------
(* The server. *)

ServerEchoes ==
    /\ up
    /\ owed > 0
    /\ owed' = owed - 1
    /\ inbox' = inbox + 1
    /\ UNCHANGED <<program, dialog, main, hReadEvent, hWriteEvent, hSendButton, buf, typed,
                   shown, up>>

ServerLeaves ==
    /\ up
    /\ main # "connect"
    /\ up' = FALSE
    /\ UNCHANGED <<program, dialog, main, hReadEvent, hWriteEvent, hSendButton, buf, typed,
                   shown, owed, inbox>>

Next == Client \/ ServerEchoes \/ ServerLeaves

Spec == Init /\ [][Next]_vars

-----------------------------------------------------------------------------
(* Properties. *)

TypeOK ==
    /\ program \in Programs
    /\ dialog \in {"idle", "wait", "type", "exit"}
    /\ main \in {"connect", "input", "wait", "send", "recv", "enable", "notify", "set",
                "end"}
    /\ {hReadEvent, hWriteEvent, hSendButton, up} \subseteq BOOLEAN
    /\ buf \in [n: 0 .. N, empty: BOOLEAN]
    /\ typed \in 0 .. N
    /\ shown \in Seq(Seq(Nat))
    /\ owed \in 0 .. 2
    /\ inbox \in 0 .. 2

(* The button is enabled and the Enter key handled before WM_ENABLE is:    *)
(* ClientMain waits in EnableWindow() for the dialog, and the dialog for   *)
(* the event that ClientMain sets after EnableWindow().  Nobody moves.     *)
Crossed == dialog = "wait" /\ ~ hReadEvent /\ main = "notify"

(* The dialog waits for an event that is set or about to be set, also when *)
(* ClientMain has left its loop after an error (the button stays disabled  *)
(* then), unless the two have crossed.                                     *)
NeverWaitsInVain == dialog = "wait" => hReadEvent \/ main = "set" \/ Crossed

(* Every text is answered or skipped before the next one is entered. *)
Texts == INSTANCE HandOff WITH BUFSIZE <- 1, written <- typed, printed <- shown
ImplementsHandOff == Texts!Spec
=============================================================================
