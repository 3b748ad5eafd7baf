------------------------------ MODULE MCClients -----------------------------
(***************************************************************************)
(* Small instances of the chat client, of the echo clients, of the UDP     *)
(* echo programs and of the programs that find the end of a message.       *)
(* "which" says which of the modules runs; it never changes, and the       *)
(* variables of the others keep their initial values.                      *)
(***************************************************************************)
EXTENDS PrjClient

CONSTANTS
    EchoN, UDPN, MaxFaults,            \* BOUNDs of EchoClients and UDPEcho
    Clients, Listeners, Dials, Free,   \* of Framing, as all below
    MaxSend, BUFSIZE, NOFILE, SigPipe, AcceptReset,
    listen_sock, Lengths, INTSIZE, LINESIZE, AHEAD

VARIABLES
    which,
    (* EchoClients *)
    program, e_dialog, e_main, hReadEvent, hWriteEvent, hSendButton, buf, e_typed,
    e_shown, owed, inbox, e_up,
    (* UDPEcho *)
    client, server, u_pc, u_typed, u_shown, spc, sbuf, requests, answers, lost, doubled,
    (* Framing *)
    link, peer, sent, taken, out, got, fdt,
    protocol, pc, client_sock, len, ahead, line, printed

echoVars == <<program, e_dialog, e_main, hReadEvent, hWriteEvent, hSendButton, buf, e_typed,
              e_shown, owed, inbox, e_up>>
udpVars == <<client, server, u_pc, u_typed, u_shown, spc, sbuf, requests, answers, lost,
             doubled>>
framingVars == <<link, peer, sent, taken, out, got, fdt,
                 protocol, pc, client_sock, len, ahead, line, printed>>
allVars == <<vars, which, echoVars, udpVars, framingVars>>

MCListeners == {listen_sock}
MCDials == [c \in Clients |-> listen_sock]
MCLengths == <<2, 3>>

Echo == INSTANCE EchoClients WITH
    N <- EchoN, dialog <- e_dialog, main <- e_main, typed <- e_typed, shown <- e_shown,
    up <- e_up

UDP == INSTANCE UDPEcho WITH
    N <- UDPN, pc <- u_pc, typed <- u_typed, shown <- u_shown

Frames == INSTANCE Framing

MCInit ==
    /\ which \in {"PrjClient", "EchoClients", "UDPEcho", "Framing"}
    /\ Init /\ Echo!Init /\ UDP!Init /\ Frames!Init
    /\ which # "EchoClients" => program = "TCPClient"
    /\ which # "UDPEcho" => client = "UDPClient" /\ server = "UDPServer"
    /\ which # "Framing" => protocol = "Fixed"

(* A text fits into the buffer of its client, and as a line with its '\n'  *)
(* into that of the server, as those of the code do.                       *)
ASSUME ClientsAssumption ==
    /\ EchoN \in Nat /\ UDPN \in Nat /\ MaxFaults \in Nat
    /\ Dials \in [Clients -> Listeners] /\ listen_sock \in Listeners
    /\ Clients \cap Listeners = {} /\ Free \notin Clients \cup Listeners
    /\ BUFSIZE \in Nat /\ Lengths \in Seq(1 .. BUFSIZE) /\ Lengths # <<>>
    /\ LINESIZE \in Nat /\ BUFSIZE < LINESIZE
    /\ INTSIZE \in Nat \ {0} /\ AHEAD \in Nat \ {0} /\ NOFILE \in Nat

-----------------------------------------------------------------------------
(* A is a step of the module that runs. *)
OfPrj(A) == /\ which = "PrjClient" /\ A
            /\ UNCHANGED <<which, echoVars, udpVars, framingVars>>
OfEcho(A) == /\ which = "EchoClients" /\ A
             /\ UNCHANGED <<which, vars, udpVars, framingVars>>
OfUDP(A) == /\ which = "UDPEcho" /\ A
            /\ UNCHANGED <<which, vars, echoVars, framingVars>>
OfFrames(A) == /\ which = "Framing" /\ A
               /\ UNCHANGED <<which, vars, echoVars, udpVars>>

MCNext == OfPrj(Next) \/ OfEcho(Echo!Next) \/ OfUDP(UDP!Next) \/ OfFrames(Frames!Next)

(* Nothing is assumed of the users, of other clients, of faults and of the *)
(* chat server, which may be held up by a client that does not read.       *)
(* Every thread of the chat client goes on, and so do the other servers    *)
(* and recvfrom() with its time limit.                                     *)
DialogRuns ==
    SpinEnds \/ EnableControls \/ WaitReturns \/ TypeText \/ DialogSends \/ Show
Alive(A) == OfPrj(dialog # "exit" /\ A)
MCFairness ==
    /\ WF_allVars(Alive(DialogRuns))
    /\ WF_allVars(Alive(ClientMain))
    /\ WF_allVars(Alive(ReadThread))
    /\ WF_allVars(Alive(WriteThread))
    /\ WF_allVars(OfUDP(UDP!RecvFrom \/ UDP!Timeout))
    /\ WF_allVars(OfUDP(UDP!Server))
    /\ WF_allVars(OfFrames(Frames!Server))

MCSpec == MCInit /\ [][MCNext]_allVars /\ MCFairness

-----------------------------------------------------------------------------
(* Properties. *)

TypesOK == TypeOK /\ Echo!TypeOK /\ UDP!TypeOK /\ Frames!TypeOK

NeverWaitsInVain == Echo!NeverWaitsInVain
OwnAnswer == UDP!OwnAnswer
MessagesKept == Frames!MessagesKept

(* PrjClient and GUITCPClient hand every text from the dialog to the       *)
(* network thread through one buffer, TCPClient sends one at a time: each  *)
(* is done with before the next one is entered.                            *)
HandOffs == ImplementsHandOff /\ Echo!ImplementsHandOff

(* The chat client's dialog gets to handle messages again, unless it waits *)
(* for an event nobody is left to set, has missed the flag, or the server  *)
(* has stopped reading: because it is held up by another client, or        *)
(* because it and this client wait for each other.                         *)
(* The UDP client waits for ever only without a time limit and an answer.  *)
(* A message that has arrived whole is printed in the end, and its         *)
(* connection not closed before.                                           *)
NobodyWaitsForEver ==
    /\ <>[](which = "PrjClient" /\ Hangs) =>
          <>[]Abandoned \/ <>[]Missed \/ <>[]HeldUp \/ <>[]Embrace
    /\ <>[](which = "UDPEcho" /\ u_pc = "recv") => <>[]UDP!MayHang
    /\ []<>(\A c \in Clients, m \in 1 .. 2 : Frames!Arrived(c, m) => Frames!WasPrinted(c, m))
    /\ [][\A c \in Clients, m \in 1 .. 2 :
              Frames!Arrived(c, m) => (Frames!Arrived(c, m) \/ Frames!WasPrinted(c, m))']_allVars
=============================================================================
