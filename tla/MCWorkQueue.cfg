\* Two workers, two descriptors, three requests.
CONSTANTS
    w1 = w1
    w2 = w2
    Workers <- MCWorkers
    Fds <- MCFds
    MaxRequests = 3
SPECIFICATION FairSpec
INVARIANTS
    TypeOK
    NoLostWakeup
    BacklogBound
PROPERTIES
    FlagConsumed
    WorkersLeave
    UnmergedServed
    ImplementsMsgQueue
