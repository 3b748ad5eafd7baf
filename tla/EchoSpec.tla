------------------------------ MODULE EchoSpec ------------------------------
(***************************************************************************)
(* What an echo server promises, whatever multiplexing it is built on:     *)
(* every byte a client sends comes back to that client, once and in order; *)
(* a connection is given up only when the client has gone, and not before  *)
(* everything a client sent ahead of its FIN has been echoed.              *)
(***************************************************************************)
EXTENDS Integers, Sequences, FiniteSets

CONSTANTS
    Clients,
    Capacity   \* connections the server can hold at once, a natural number

VARIABLES
    serving,   \* the server process is running
    link, peer, sent,
    out        \* out[c]: what the server has sent to c

vars == <<serving, link, peer, sent, out>>

Open == {c \in Clients : link[c] = "open"}
Echoed(c) == Len(out[c])

Init ==
    /\ serving = TRUE
    /\ link = [c \in Clients |-> "new"]
    /\ peer = [c \in Clients |-> "up"]
    /\ sent = [c \in Clients |-> 0]
    /\ out = [c \in Clients |-> <<>>]

Connect(c) ==
    /\ serving
    /\ link[c] = "new"
    /\ link' = [link EXCEPT ![c] = "backlog"]
    /\ UNCHANGED <<serving, peer, sent, out>>

Receive(c) ==
    /\ link[c] \in {"backlog", "open"}
    /\ peer[c] = "up"
    /\ sent' = [sent EXCEPT ![c] = @ + 1]
    /\ UNCHANGED <<serving, link, peer, out>>

HangUp(c, how) ==
    /\ link[c] \in {"backlog", "open"}
    /\ how \in {"fin", "rst"} \ {peer[c]}
    /\ peer[c] # "rst"
    /\ peer' = [peer EXCEPT ![c] = how]
    /\ UNCHANGED <<serving, link, sent, out>>

Admit(c) ==
    /\ serving
    /\ link[c] = "backlog"
    /\ Cardinality(Open) < Capacity
    /\ link' = [link EXCEPT ![c] = "open"]
    /\ UNCHANGED <<serving, peer, sent, out>>

(* A connection is refused only by a server that is full. *)
Refuse(c) ==
    /\ serving
    /\ link[c] = "backlog"
    /\ Cardinality(Open) >= Capacity
    /\ link' = [link EXCEPT ![c] = "closed"]
    /\ UNCHANGED <<serving, peer, sent, out>>

(* The next n bytes of c go back to c. *)
Echo(c, n) ==
    /\ serving
    /\ link[c] = "open"
    /\ Echoed(c) + n <= sent[c]
    /\ out' = [out EXCEPT ![c] = @ \o [k \in 1 .. n |-> <<c, Echoed(c) + k>>]]
    /\ UNCHANGED <<serving, link, peer, sent>>

Drop(c) ==
    /\ serving
    /\ link[c] = "open"
    /\ peer[c] = "rst" \/ (peer[c] = "fin" /\ Echoed(c) = sent[c])
    /\ link' = [link EXCEPT ![c] = "closed"]
    /\ UNCHANGED <<serving, peer, sent, out>>

(* The server stops when it can take no connection, or when a connection   *)
(* it has to deal with was reset.                                          *)
Stop ==
    /\ serving
    /\ \/ Cardinality(Open) >= Capacity
       \/ \E c \in Clients : link[c] \in {"backlog", "open"} /\ peer[c] = "rst"
    /\ serving' = FALSE
    /\ link' = [c \in Clients |-> IF link[c] \in {"backlog", "open"}
                                  THEN "closed" ELSE link[c]]
    /\ UNCHANGED <<peer, sent, out>>

Next ==
    \/ \E c \in Clients :
          \/ Connect(c) \/ Receive(c) \/ Admit(c) \/ Refuse(c) \/ Drop(c)
          \/ \E how \in {"fin", "rst"} : HangUp(c, how)
          \/ \E n \in 1 .. (sent[c] - Echoed(c)) : Echo(c, n)
    \/ Stop

Spec == Init /\ [][Next]_vars
=============================================================================
