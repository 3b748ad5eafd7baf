------------------------------ MODULE ChatRoom ------------------------------
(***************************************************************************)
(* What the chat server of chapter 14 promises its clients, whatever its   *)
(* sockets, buffers and loops: a room in which one message is spoken at a  *)
(* time and everybody inside hears it before the next one.                 *)
(***************************************************************************)
EXTENDS Naturals, Sequences, FiniteSets

CONSTANTS
    Clients,
    Text,      \* Text[c][n]: the n-th message of client c
    Garbled,   \* what is heard in place of a message that was lost
    Seats,     \* a client may be turned away when so many are inside
    Doors      \* the room may close when so many are inside

VARIABLES
    open,      \* the server runs
    place,     \* place[c]: "outside", "inside" or "gone"
    away,      \* clients that have ended their connection
    said,      \* said[c]: the number of messages c has spoken
    log,       \* the messages spoken, with their speakers
    start,     \* start[c]: the length of the log when c came in
    told       \* told[c]: the messages c was sent

vars == <<open, place, away, said, log, start, told>>

Inside == {c \in Clients : place[c] = "inside"}
Heard(c) == start[c] + Len(told[c])
Silence == \A c \in Inside : Heard(c) = Len(log)

Init ==
    /\ open = TRUE
    /\ place = [c \in Clients |-> "outside"]
    /\ away = {}
    /\ said = [c \in Clients |-> 0]
    /\ log = <<>>
    /\ start = [c \in Clients |-> 0]
    /\ told = [c \in Clients |-> <<>>]

(* Nobody comes in or speaks while a message is on its way. *)
Join(c) ==
    /\ open /\ Silence
    /\ place[c] = "outside"
    /\ place' = [place EXCEPT ![c] = "inside"]
    /\ start' = [start EXCEPT ![c] = Len(log)]
    /\ UNCHANGED <<open, away, said, log, told>>

TurnAway(c) ==
    /\ open
    /\ place[c] = "outside"
    /\ Cardinality(Inside) >= Seats
    /\ place' = [place EXCEPT ![c] = "gone"]
    /\ UNCHANGED <<open, away, said, log, start, told>>

Speak(c) ==
    /\ open /\ Silence
    /\ place[c] = "inside"
    /\ said' = [said EXCEPT ![c] = @ + 1]
    /\ log' = Append(log, [from |-> c, text |-> Text[c][said[c] + 1]])
    /\ UNCHANGED <<open, place, away, start, told>>

(* The next message reaches c; it is lost only when its speaker has left. *)
Hear(c) ==
    /\ open
    /\ place[c] = "inside"
    /\ Heard(c) < Len(log)
    /\ LET next == log[Heard(c) + 1]
       IN  \E heard \in {next.text, Garbled} :
              /\ heard # next.text => place[next.from] = "gone"
              /\ told' = [told EXCEPT ![c] = Append(@, heard)]
    /\ UNCHANGED <<open, place, away, said, log, start>>

GoAway(c) ==
    /\ place[c] # "gone"
    /\ c \notin away
    /\ away' = away \cup {c}
    /\ UNCHANGED <<open, place, said, log, start, told>>

(* Nobody is put out of the room. *)
Leave(c) ==
    /\ open
    /\ place[c] = "inside"
    /\ c \in away
    /\ place' = [place EXCEPT ![c] = "gone"]
    /\ UNCHANGED <<open, away, said, log, start, told>>

(* The server ends, and with it every connection. *)
CloseDown ==
    /\ open
    /\ away # {} \/ Cardinality(Inside) >= Doors
    /\ open' = FALSE
    /\ \E waiting \in SUBSET {c \in Clients : place[c] = "outside"} :
          place' = [c \in Clients |-> IF c \in waiting THEN "outside" ELSE "gone"]
    /\ UNCHANGED <<away, said, log, start, told>>

Next ==
    \/ CloseDown
    \/ \E c \in Clients : \/ Join(c) \/ TurnAway(c) \/ Speak(c) \/ Hear(c)
                          \/ GoAway(c) \/ Leave(c)

Spec == Init /\ [][Next]_vars
=============================================================================
