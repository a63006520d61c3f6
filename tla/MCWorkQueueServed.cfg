\* Does every queued request reach a worker?
CONSTANTS
    w1 = w1
    w2 = w2
    Workers <- MCWorkers
    Fds <- MCFds
    MaxRequests = 3
SPECIFICATION FairSpec
PROPERTY RequestsServed
