\* Windows: as many clients as SocketInfoArray and an fd_set can hold.
SPECIFICATION FairSpec
CONSTANTS
    Clients = {c1, c2}
    listen_sock = listen_sock
    Listeners <- MCListeners
    Dials <- MCDials
    Free = Free
    MaxSend = 1
    BUFSIZE = 2
    SNDBUF = 1
    NOFILE = 6
    SigPipe = FALSE
    AcceptReset = FALSE
    FD_SETSIZE = 2
    SetCapacity = 2
    Steady = {c1, c2}
PROPERTIES
    EveryByteEchoed
CHECK_DEADLOCK FALSE
