\* Windows: SocketInfoArray and the fd_sets hold two of the three clients;
\* accept() may report that the queued connection was reset.
SPECIFICATION Spec
CONSTANTS
    Clients = {c1, c2, c3}
    listen_sock = listen_sock
    Listeners <- MCListeners
    Dials <- MCDials
    Free = Free
    MaxSend = 2
    BUFSIZE = 2
    SNDBUF = 1
    NOFILE = 8
    SigPipe = FALSE
    AcceptReset = TRUE
    FD_SETSIZE = 2
    SetCapacity = 2
    Steady = {}
SYMMETRY Symmetry
INVARIANTS
    ReadyWhenUsed
PROPERTIES
    ImplementsEcho
CHECK_DEADLOCK FALSE
