\* Linux: three clients send one message of one byte each; SocketInfoArray has
\* room for two.  accept() may report a reset connection, send() raise SIGPIPE.
SPECIFICATION Spec
CONSTANTS
    c1 = c1
    c2 = c2
    c3 = c3
    listen_sock4 = listen_sock4
    listen_sock6 = listen_sock6
    Clients = {c1, c2, c3}
    Listeners <- MCListeners
    Dials <- MCDials
    Free = Free
    MaxSend = 1
    BUFSIZE = 1
    SNDBUF = 1
    NOFILE = 8
    SigPipe = TRUE
    AcceptReset = TRUE
    FD_SETSIZE = 2
    SetCapacity = 8
    IgnoresNfds = FALSE
    Garbage = Garbage
    Steady = {}
SYMMETRY Symmetry
INVARIANTS
    CommonOrder
    NeverStuckInRecv
PROPERTIES
    ImplementsChat
CHECK_DEADLOCK FALSE
