\* Is a client the event loop has looked up still there?
CONSTANTS
    w1 = w1
    w2 = w2
    c1 = c1
    c2 = c2
    c3 = c3
    a1 = a1
    a2 = a2
    Listener = Listener
    Free = Free
    Nil = Nil
    Workers <- OneWorker
    Conn <- TwoConn
    Fds <- TwoFds
    Addr <- TwoAddr
    MaxClients = 2
    Parts = 2
    BareHangup = TRUE
SPECIFICATION Spec
SYMMETRY Symmetry
INVARIANT MainUsesLiveClient
