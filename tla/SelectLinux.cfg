\* Linux: c1 keeps reading, c2 may stop reading at any time; a send() on a
\* reset connection may raise SIGPIPE.
SPECIFICATION FairSpec
CONSTANTS
    Clients = {c1, c2}
    listen_sock = listen_sock
    Listeners <- MCListeners
    Dials <- MCDials
    Free = Free
    MaxSend = 2
    BUFSIZE = 2
    SNDBUF = 1
    NOFILE = 6
    SigPipe = TRUE
    AcceptReset = FALSE
    FD_SETSIZE = 6
    SetCapacity = 6
    Steady = {c1}
INVARIANTS
    OneRecordPerConnection
    BufferIsBacklog
PROPERTIES
    ImplementsEcho
    EveryByteEchoed
    GoneIsClosed
CHECK_DEADLOCK FALSE
