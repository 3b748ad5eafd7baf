\* Pollfds has room for two of the three clients; accept() may report that the
\* queued connection was reset, send() on a reset connection may raise SIGPIPE.
SPECIFICATION Spec
CONSTANTS
    Clients = {c1, c2, c3}
    listen_sock = listen_sock
    Listeners <- MCListeners
    Dials <- MCDials
    Free = Free
    MaxSend = 2
    BUFSIZE = 2
    SNDBUF = 1
    NOFILE = 7
    SigPipe = TRUE
    AcceptReset = TRUE
    FD_SETSIZE = 3
SYMMETRY Symmetry
INVARIANTS
    OneEntryPerConnection
    BufferIsBacklog
PROPERTIES
    ClosedLosesNothing
    EchoesUnlessStale
CHECK_DEADLOCK FALSE
