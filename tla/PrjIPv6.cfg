\* Linux: one client over IPv4, one over IPv6.
SPECIFICATION FairSpec
CONSTANTS
    c1 = c1
    c2 = c2
    c3 = c3
    listen_sock4 = listen_sock4
    listen_sock6 = listen_sock6
    Clients = {c1, c2}
    Listeners <- MCListeners
    Dials <- MCDials
    Free = Free
    MaxSend = 2
    BUFSIZE = 2
    SNDBUF = 2
    NOFILE = 7
    SigPipe = FALSE
    AcceptReset = FALSE
    FD_SETSIZE = 7
    SetCapacity = 7
    IgnoresNfds = FALSE
    Garbage = Garbage
    Steady <- MCSteady
PROPERTIES
    EveryClientAccepted
CHECK_DEADLOCK FALSE
