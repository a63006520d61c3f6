\* One worker and the loader, two signals.
CONSTANTS
    Word = Word
    UIntRange = 16
    Hosts <- MCHosts
    MaxFd = 7
    MaxThreads = 1
    MaxSignals = 2
    Files <- MCFiles
SPECIFICATION FairSpec
INVARIANTS
    TypeOK
    FlagBeforeDestruction
    OneMorePiece
    WorkersAsConfigured
    SocketsAboveStd
PROPERTY EndsAfterFlag
