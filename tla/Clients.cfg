\* The chat client: 2 texts, 1 line or erasure of its own and 1 message of others.
\* Messages are sent in 2 pieces, and 1 piece and 1 message fill the connection, so
\* that every send() may have to wait.  Framing: 2 clients, 2 messages each, the
\* longest one as long as the buffer.
SPECIFICATION MCSpec
CONSTANTS
    N = 2
    MaxDraws = 1
    MaxNews = 1
    PIECES = 2
    SNDBUF = 1
    RCVBUF = 1
    EchoN = 3
    UDPN = 3
    MaxFaults = 2
    Clients = {c1, c2}
    listen_sock = listen_sock
    Listeners <- MCListeners
    Dials <- MCDials
    Free = Free
    MaxSend = 9
    BUFSIZE = 3
    NOFILE = 6
    SigPipe = FALSE
    AcceptReset = TRUE
    Lengths <- MCLengths
    INTSIZE = 2
    LINESIZE = 4
    AHEAD = 3
INVARIANTS
    TypesOK
    OneRight
    WholeUnlessBoth
    RightColour
    NeverWaitsInVain
    OwnAnswer
    MessagesKept
PROPERTIES
    HandOffs
    NobodyWaitsForEver
CHECK_DEADLOCK FALSE
