\* Windows: the two listeners and three clients for FD_SETSIZE = 4 places, so
\* that the third record is not in the set.  c3, in the first one, never reads.
SPECIFICATION LiveSpec
CONSTANTS
    c1 = c1
    c2 = c2
    c3 = c3
    listen_sock4 = listen_sock4
    listen_sock6 = listen_sock6
    Clients = {c1, c2, c3}
    Listeners <- MCListeners
    Dials <- MCDials
    Free = Free
    MaxSend = 2
    BUFSIZE = 2
    SNDBUF = 2
    NOFILE = 8
    SigPipe = FALSE
    AcceptReset = FALSE
    FD_SETSIZE = 4
    SetCapacity = 4
    IgnoresNfds = TRUE
    Garbage = Garbage
    Steady = {c1, c2}
INVARIANTS
    WholeMessages
PROPERTIES
    EveryClientAccepted
    EveryMessageDelivered
CHECK_DEADLOCK FALSE
