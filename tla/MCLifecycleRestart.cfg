\* Does the daemon go on after a restart?
CONSTANTS
    Word = Word
    UIntRange = 16
    Hosts <- MCHosts
    MaxFd = 7
    MaxThreads = 1
    MaxSignals = 1
    Files <- MCFiles
SPECIFICATION Spec
INVARIANT RestartSurvives
