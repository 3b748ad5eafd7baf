---------------------------- MODULE MCEchoServers ---------------------------
(***************************************************************************)
(* Small instances of the echo servers that are not built on select() or   *)
(* poll().  "program" says which one runs; it never changes, so this is    *)
(* one run of each.  EPollTCPServer has its own sockets, the others share  *)
(* the variables x_link ... x_fdt, of which only one program makes use.    *)
(***************************************************************************)
EXTENDS EPollTCPServer, TLC

CONSTANTS
    c1, c2,          \* the clients
    c3,              \* one client more for ThreadTCPServer
    listen_sock6,    \* the second listener of Server
    None,
    Workers,
    MaxThreads,
    XMaxSend         \* BOUND: bytes a client sends to AsyncSelectTCPServer

ASSUME EchoServersAssumption ==
    /\ listen_sock6 \in Listeners
    /\ None \notin Clients
    /\ MaxThreads \in Nat

VARIABLES
    program,
    x_link, x_peer, x_sent, x_taken, x_out, x_got, x_fdt,
    (* CompletionPortTCPServer *)
    main, newfd, p_info, overlapped, hcp, held,
    (* AsyncSelectTCPServer *)
    a_pc, wParam, SocketInfoList, a_info, enabled, queue, misled,
    (* AcceptLoopServers *)
    loop, conn, spoilt

MCListeners == {listen_sock, listen_sock6}

(* Who connects to the first listener.  Nobody listens on the second one   *)
(* but Server: there c1 uses IPv4, c2 uses IPv6.                           *)
First(clients) ==
    [c \in Clients |-> IF c \in clients THEN listen_sock ELSE listen_sock6]
MCDials == First({c1, c2})
LoopPrograms == {"TCPServer", "ThreadTCPServer", "NonblockTCPServer"}
AllPrograms == LoopPrograms \cup
    {"EPollTCPServer", "CompletionPortTCPServer", "AsyncSelectTCPServer", "Server"}

x_sockets == <<x_link, x_peer, x_sent, x_taken, x_out, x_got, x_fdt>>
portVars == <<main, newfd, p_info, overlapped, hcp, held>>
asyncVars == <<a_pc, wParam, SocketInfoList, a_info, enabled, queue, misled>>
loopVars == <<loop, conn, spoilt>>
allVars == <<vars, program, x_sockets, portVars, asyncVars, loopVars>>

Port == INSTANCE CompletionPortTCPServer WITH
    link <- x_link, peer <- x_peer, sent <- x_sent, taken <- x_taken,
    out <- x_out, got <- x_got, fdt <- x_fdt, info <- p_info

Async == INSTANCE AsyncSelectTCPServer WITH
    MaxSend <- XMaxSend,
    link <- x_link, peer <- x_peer, sent <- x_sent, taken <- x_taken,
    out <- x_out, got <- x_got, fdt <- x_fdt, pc <- a_pc, info <- a_info

Loops == INSTANCE AcceptLoopServers WITH
    Programs <- AllPrograms,
    Dials <- First(Clients),
    link <- x_link, peer <- x_peer, sent <- x_sent, taken <- x_taken,
    out <- x_out, got <- x_got, fdt <- x_fdt

Server1 == INSTANCE AcceptLoopServers WITH
    Programs <- AllPrograms,
    Dials <- First({c1}),
    link <- x_link, peer <- x_peer, sent <- x_sent, taken <- x_taken,
    out <- x_out, got <- x_got, fdt <- x_fdt

MCInit == Init /\ Port!Init /\ Async!Init /\ Loops!Init

-----------------------------------------------------------------------------
(* A is a step of the program that runs. *)
OfEPoll(A) == /\ program = "EPollTCPServer" /\ A
              /\ UNCHANGED <<program, x_sockets, portVars, asyncVars, loopVars>>
OfPort(A) == /\ program = "CompletionPortTCPServer" /\ A
             /\ UNCHANGED <<vars, program, asyncVars, loopVars>>
OfAsync(A) == /\ program = "AsyncSelectTCPServer" /\ A
              /\ UNCHANGED <<vars, program, portVars, loopVars>>
OfLoops(A) == /\ program \in LoopPrograms /\ A
              /\ UNCHANGED <<vars, portVars, asyncVars>>
OfServer1(A) == /\ program = "Server" /\ A
                /\ UNCHANGED <<vars, portVars, asyncVars>>

(* BOUND: c2 sends at most n bytes, and c3 none: it only connects, and only *)
(* to ThreadTCPServer.  To AsyncSelectTCPServer c2 only connects, and may    *)
(* be reset.                                                                *)
Bounded(n) ==
    /\ x_sent'[c2] <= n
    /\ x_sent'[c3] = 0
    /\ program # "ThreadTCPServer" => x_link'[c3] = "new"

ServerStep ==
    \/ OfEPoll(Server)
    \/ OfPort(Port!Server)
    \/ OfAsync(Async!ProcessSocketMessage)
    \/ \E fd \in Fds : OfAsync(Async!PostEvent(fd))
    \/ OfLoops(Loops!Server)
    \/ OfServer1(Server1!Server)

ClientStep ==
    \/ OfEPoll(Environment)
    \/ OfPort(Port!Environment /\ Bounded(1))
    \/ OfAsync(Async!Environment /\ Bounded(0) /\ x_peer'[c2] # "fin")
    \/ OfLoops(Loops!Environment /\ Bounded(IF program = "ThreadTCPServer" THEN 1 ELSE MaxSend))
    \/ OfServer1(Server1!Environment /\ Bounded(MaxSend))

Reads(c) ==
    \/ OfEPoll(ClientRead(c) /\ UNCHANGED server)
    \/ OfPort(Port!ClientRead(c) /\ UNCHANGED portVars)
    \/ OfAsync(Async!ClientRead(c) /\ UNCHANGED asyncVars)
    \/ OfLoops(Loops!ClientRead(c) /\ UNCHANGED <<program, loopVars>>)

(* A thread or the kernel goes on: less than what the schedulers promise,  *)
(* which serve every thread.                                               *)
MCFairness ==
    /\ WF_allVars(ServerStep)
    /\ \A c \in Steady : WF_allVars(Reads(c))

MCSpec == MCInit /\ [][ServerStep \/ ClientStep]_allVars /\ MCFairness

-----------------------------------------------------------------------------
(* Properties. *)

TypesOK == TypeOK /\ Port!TypeOK /\ Async!TypeOK /\ Loops!TypeOK

(* The properties of one server each, stated in its module. *)
OneOwner == program = "CompletionPortTCPServer" => Port!OneOwner
OneReadMessage == program = "AsyncSelectTCPServer" => Async!OneReadMessage

(* Received bytes are sent back or still in the buffer of their connection, *)
(* in order, in the servers with an accept loop (the non-blocking one until *)
(* it meets a full buffer) and in the one with window messages.             *)
BytesKept ==
    /\ program \in LoopPrograms => Loops!EchoUntilFull
    /\ program = "AsyncSelectTCPServer" => Async!BufferIsBacklog

(* The WSAAsyncSelect() server gives up a connection, accepted or waiting  *)
(* for accept(), only when the client has hung up, when the client does    *)
(* not read and send() would block, because of a message of an earlier     *)
(* connection, or, at once, when WSAAsyncSelect() fails for it.            *)
ClosedOnlyFor ==
    [][program = "AsyncSelectTCPServer" =>
          \A c \in Clients : Async!GivesUp(c) => Async!Excused(c)]_allVars

(* The epoll server, the completion port server and the servers that block *)
(* in send() are echo servers, for as many clients as they have            *)
(* descriptors or threads.                                                 *)
Blocking == {"CompletionPortTCPServer", "TCPServer"}
Shown(programs, x, before) == IF program \in programs THEN x ELSE before
Always(x) == [c \in Clients |-> x]

EchoBlocking == INSTANCE EchoSpec WITH
    Capacity <- Cardinality(Fds) - 1,
    serving <- Shown(Blocking, main # "exit" /\ loop[listen_sock] = "runs", TRUE),
    link <- Shown(Blocking, x_link, Always("new")),
    peer <- Shown(Blocking, x_peer, Always("up")),
    sent <- Shown(Blocking, x_sent, Always(0)),
    out <- Shown(Blocking, x_out, Always(<<>>))

(* ThreadTCPServer: a thread and a descriptor for every connection. *)
Places == IF MaxThreads < Cardinality(Fds) - 1 THEN MaxThreads ELSE Cardinality(Fds) - 1

EchoThreads == INSTANCE EchoSpec WITH
    Capacity <- Places,
    serving <- Shown({"ThreadTCPServer"}, loop[listen_sock] = "runs", TRUE),
    link <- Shown({"ThreadTCPServer"}, x_link, Always("new")),
    peer <- Shown({"ThreadTCPServer"}, x_peer, Always("up")),
    sent <- Shown({"ThreadTCPServer"}, x_sent, Always(0)),
    out <- Shown({"ThreadTCPServer"}, x_out, Always(<<>>))

(* Each of them sends every client what the client has sent, in order and  *)
(* nothing else, and keeps no more connections than it has places.         *)
AllImplementEcho == ImplementsEcho /\ EchoBlocking!Spec /\ EchoThreads!Spec

(* A steady client is served until nothing it has sent is left: the epoll, *)
(* the completion port, the WSAAsyncSelect() and the thread server echo    *)
(* its bytes whatever another client does, TCPServer once it has accepted  *)
(* the client; Server receives them although the client of the other       *)
(* address family holds its thread.                                        *)
Admitted(c) == link[c] \in {"backlog", "open"} \/ x_link[c] \in
               (IF program = "TCPServer" THEN {"open"} ELSE {"backlog", "open"})
Gone(c) == \/ peer[c] # "up" \/ link[c] = "closed"
           \/ x_peer[c] # "up" \/ x_link[c] = "closed"
Served(c) ==
    IF program = "Server" THEN x_taken[c] = x_sent[c]
    ELSE Len(out[c]) = sent[c] /\ Len(x_out[c]) = x_sent[c]
EveryByteServed ==
    \A c \in Steady :
       (program # "NonblockTCPServer" /\ Admitted(c)) ~> (Served(c) \/ Gone(c))
=============================================================================
