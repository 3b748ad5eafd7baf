---------------------------- MODULE MCPrjServer -----------------------------
(***************************************************************************)
(* Small instances of PrjServer.                                           *)
(***************************************************************************)
EXTENDS PrjServer, TLC

CONSTANTS c1, c2, c3   \* the clients a cfg may use

MCListeners == {listen_sock4, listen_sock6}

(* c1 and c3 use IPv4, c2 uses IPv6. *)
MCDials == [c \in Clients |-> IF c = c2 THEN listen_sock6 ELSE listen_sock4]
MCSteady == Clients
Symmetry == Permutations({c1, c3})

(* BOUND of PrjLive: c3 connects before the others, never reads, and leaves *)
(* by a reset only, the others with a FIN only; c2 sends nothing.          *)
Bounded ==
    /\ got'[c3] = 0 /\ peer'[c3] # "fin"
    /\ sent'[c2] = 0
    /\ \A c \in Clients \ {c3} :
          /\ link'[c] # "new" => link'[c3] \notin {"new", "backlog"}
          /\ peer'[c] # "rst"

LiveSpec == Init /\ [][Server \/ (Environment /\ Bounded)]_vars /\ Fairness
=============================================================================
