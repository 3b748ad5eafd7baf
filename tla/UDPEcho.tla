------------------------------- MODULE UDPEcho ------------------------------
(***************************************************************************)
(* The UDP echo programs: UDPClient and UDPServer of Linux and Windows     *)
(* Chapter08 (IPv4 and IPv6), and RcvTimeO_UDPClient and                   *)
(* RcvTimeO_UDPServer of Chapter09, where the client limits the time       *)
(* recvfrom() waits and the server does not answer (its sendto() is        *)
(* compiled out).                                                          *)
(*                                                                         *)
(* A datagram may be lost, doubled or overtaken by another.  A text is     *)
(* the number under which the user has entered it; the datagrams carry no  *)
(* number, and the client shows whatever comes from the server's address.  *)
(***************************************************************************)
EXTENDS Integers, Sequences

CONSTANTS
    N,         \* BOUND: texts the user enters
    MaxFaults  \* BOUND: datagrams that are lost or doubled

VARIABLES
    client,    \* "UDPClient" or "RcvTimeO_UDPClient"; it never changes
    server,    \* "UDPServer" or "RcvTimeO_UDPServer"; it never changes
    pc,        \* the client: "input", "recv", "end"
    typed,     \* texts entered so far
    shown,     \* the texts that were shown as received
    spc,       \* the server: "recv", "send", "end"
    sbuf,      \* the server's buffer
    requests,  \* requests[n]: datagrams with text n on their way to the server
    answers,   \* answers[n]: datagrams with text n on their way back
    lost, doubled   \* history: datagrams that were lost or doubled so far

network == <<requests, answers, lost, doubled>>
vars == <<client, server, pc, typed, shown, spc, sbuf, network>>

Texts == 1 .. N
None == [n \in Texts |-> 0]

Init ==
    /\ client \in {"UDPClient", "RcvTimeO_UDPClient"}
    /\ server \in {"UDPServer", "RcvTimeO_UDPServer"}
    /\ pc = "input"
    /\ typed = 0
    /\ shown = <<>>
    /\ spc = "recv"
    /\ sbuf = 0
    /\ requests = None
    /\ answers = None
    /\ lost = 0
    /\ doubled = 0

-----------------------------------------------------------------------------
(* The client. *)

(* fgets() and sendto(); an empty line or an error ends the loop. *)
SendTo ==
    /\ pc = "input"
    /\ typed < N
    /\ \/ /\ typed' = typed + 1
          /\ requests' = [requests EXCEPT ![typed'] = @ + 1]
          /\ pc' = "recv"
       \/ pc' = "end" /\ UNCHANGED <<typed, requests>>
    /\ UNCHANGED <<client, server, shown, spc, sbuf, answers, lost, doubled>>

RecvFrom ==
    /\ pc = "recv"
    /\ \E n \in Texts :
          /\ answers[n] > 0
          /\ answers' = [answers EXCEPT ![n] = @ - 1]
          /\ shown' = Append(shown, n)
    /\ pc' = "input"
    /\ UNCHANGED <<client, server, typed, spc, sbuf, requests, lost, doubled>>

(* A datagram of another address, or an error of recvfrom(), ends the loop. *)
RecvFromAnother ==
    /\ pc = "recv"
    /\ pc' = "end"
    /\ UNCHANGED <<client, server, typed, shown, spc, sbuf, network>>

(* Mutation: the client goes on with the next text. *)
TimeoutGoesOn ==
    /\ pc = "recv"
    /\ client = "RcvTimeO_UDPClient"
    /\ pc' = "input"
    /\ UNCHANGED <<client, server, typed, shown, spc, sbuf, network>>

(* SO_RCVTIMEO: recvfrom() fails when nothing has come in time; the answer *)
(* may still be on its way.                                                *)
Timeout ==
    /\ pc = "recv"
    /\ client = "RcvTimeO_UDPClient"
    /\ pc' = "end"
    /\ UNCHANGED <<client, server, typed, shown, spc, sbuf, network>>

Client == SendTo \/ RecvFrom \/ Timeout

-----------------------------------------------------------------------------
(* The server. *)

ServerRecvFrom ==
    /\ spc = "recv"
    /\ \E n \in Texts :
          /\ requests[n] > 0
          /\ requests' = [requests EXCEPT ![n] = @ - 1]
          /\ sbuf' = n
    /\ spc' = IF server = "UDPServer" THEN "send" ELSE "recv"
    /\ UNCHANGED <<client, server, pc, typed, shown, answers, lost, doubled>>

ServerSendTo ==
    /\ spc = "send"
    /\ answers' = [answers EXCEPT ![sbuf] = @ + 1]
    /\ spc' = "recv"
    /\ UNCHANGED <<client, server, pc, typed, shown, sbuf, requests, lost, doubled>>

(* recvfrom() or sendto() fails: main() ends. *)
ServerBreaks ==
    /\ spc # "end"
    /\ spc' = "end"
    /\ UNCHANGED <<client, server, pc, typed, shown, sbuf, network>>

Server == ServerRecvFrom \/ ServerSendTo

-----------------------------------------------------------------------------
(* The network. *)

Lose ==
    /\ lost + doubled < MaxFaults
    /\ \E n \in Texts :
          \/ /\ requests[n] > 0
             /\ requests' = [requests EXCEPT ![n] = @ - 1] /\ answers' = answers
          \/ /\ answers[n] > 0
             /\ answers' = [answers EXCEPT ![n] = @ - 1] /\ requests' = requests
    /\ lost' = lost + 1
    /\ UNCHANGED <<client, server, pc, typed, shown, spc, sbuf, doubled>>

Double ==
    /\ lost + doubled < MaxFaults
    /\ \E n \in Texts :
          \/ /\ requests[n] > 0
             /\ requests' = [requests EXCEPT ![n] = @ + 1] /\ answers' = answers
          \/ /\ answers[n] > 0
             /\ answers' = [answers EXCEPT ![n] = @ + 1] /\ requests' = requests
    /\ doubled' = doubled + 1
    /\ UNCHANGED <<client, server, pc, typed, shown, spc, sbuf, lost>>

Environment == RecvFromAnother \/ ServerBreaks \/ Lose \/ Double

Next == Client \/ Server \/ Environment

Spec == Init /\ [][Next]_vars

-----------------------------------------------------------------------------
(* Properties. *)

TypeOK ==
    /\ pc \in {"input", "recv", "end"}
    /\ typed \in 0 .. N
    /\ shown \in Seq(Texts)
    /\ spc \in {"recv", "send", "end"}
    /\ sbuf \in 0 .. N
    /\ requests \in [Texts -> Nat]
    /\ answers \in [Texts -> Nat]
    /\ lost \in Nat
    /\ doubled \in Nat

(* Without numbers in the datagrams the client still shows every text as   *)
(* the answer to itself, because it has one request under way at a time    *)
(* and ends when the answer does not come in time.  Only a datagram that   *)
(* the network doubles can pass for the answer to a later text; never does *)
(* one come before it was asked for.                                       *)
OwnAnswer ==
    \A k \in 1 .. Len(shown) : shown[k] <= k /\ (doubled = 0 => shown[k] = k)

(* The client waits for ever only without a limit, when a datagram was     *)
(* lost, the server has ended or does not answer.                          *)
MayHang == /\ client = "UDPClient"
           /\ lost > 0 \/ spc = "end" \/ server = "RcvTimeO_UDPServer"
=============================================================================
