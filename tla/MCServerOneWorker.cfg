\* One worker, one client allowed, two phones that send a trailing segment.
CONSTANTS
    w1 = w1
    w2 = w2
    c1 = c1
    c2 = c2
    c3 = c3
    a1 = a1
    a2 = a2
    Listener = Listener
    Free = Free
    Nil = Nil
    Workers <- OneWorker
    Conn <- TwoConn
    Fds <- TwoFds
    Addr <- TwoAddr
    MaxClients = 1
    Parts = 3
    BareHangup = TRUE
SPECIFICATION Spec
SYMMETRY Symmetry
INVARIANTS
    ServedOnce
    QueueBound
    EventsFit
PROPERTIES
    ImplementsMsgQueue
