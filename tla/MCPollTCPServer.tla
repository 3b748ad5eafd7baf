-------------------------- MODULE MCPollTCPServer ---------------------------
(***************************************************************************)
(* Small instances of PollTCPServer.                                       *)
(***************************************************************************)
EXTENDS PollTCPServer, TLC

MCDials == [c \in Clients |-> listen_sock]
MCListeners == {listen_sock}
Symmetry == Permutations(Clients)
=============================================================================
