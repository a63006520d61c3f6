\* Two workers, two connections, two clients.
CONSTANTS
    w1 = w1
    w2 = w2
    c1 = c1
    c2 = c2
    c3 = c3
    a1 = a1
    a2 = a2
    Listener = Listener
    Free = Free
    Nil = Nil
    Workers <- TwoWorkers
    Conn <- TwoConn
    Fds <- ThreeFds
    Addr <- TwoAddr
    MaxClients = 2
    Parts = 2
    BareHangup = FALSE
SPECIFICATION Spec
SYMMETRY Symmetry
INVARIANTS
    TypeOK
    TableOwnsClients
    NoClientLeak
    WorkerHoldsClient
    NoLostEdge
