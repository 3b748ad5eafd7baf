------------------------- MODULE MCSelectTCPServer --------------------------
(***************************************************************************)
(* Small instances of SelectTCPServer.                                     *)
(***************************************************************************)
EXTENDS SelectTCPServer, TLC

MCDials == [c \in Clients |-> listen_sock]
MCListeners == {listen_sock}
Symmetry == Permutations(Clients)
=============================================================================
