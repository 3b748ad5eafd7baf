\* A connection arrives while another client is being served.
SPECIFICATION Spec
CONSTANTS
    Clients = {c1, c2, c3}
    listen_sock = listen_sock
    Listeners <- MCListeners
    Dials <- MCDials
    Free = Free
    MaxSend = 1
    BUFSIZE = 2
    SNDBUF = 1
    NOFILE = 8
    SigPipe = FALSE
    AcceptReset = FALSE
    FD_SETSIZE = 5
SYMMETRY Symmetry
PROPERTIES
    ClosedOnlyWhenGone
CHECK_DEADLOCK FALSE
