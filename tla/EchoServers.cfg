\* One client keeps reading, the other may stop reading at any time.  accept()
\* may report that the queued connection was reset; on Linux send() on a reset
\* connection may raise SIGPIPE.
SPECIFICATION MCSpec
CONSTANTS
    c1 = c1
    c2 = c2
    c3 = c3
    Clients = {c1, c2, c3}
    listen_sock = listen_sock
    listen_sock6 = listen_sock6
    Listeners <- MCListeners
    Dials <- MCDials
    Free = Free
    None = None
    Workers = {w1, w2}
    MaxThreads = 2
    MaxSend = 2
    XMaxSend = 3
    BUFSIZE = 2
    SNDBUF = 1
    NOFILE = 7
    SigPipe = TRUE
    AcceptReset = TRUE
    Steady = {c1}
INVARIANTS
    TypesOK
    InterestFollowsBuffer
    EventsStayValid
    OneOwner
    OneReadMessage
    BytesKept
PROPERTIES
    AllImplementEcho
    ClosedOnlyFor
    EveryByteServed
CHECK_DEADLOCK FALSE
