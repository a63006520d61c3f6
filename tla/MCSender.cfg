\* Answers in any segments, complete or not, within two seconds or later.
CONSTANTS
    FEEDBACK_MSG_LEN = 7
    outtime_s = 1
    MaxFds = 3
    Answers <- MCAnswers
SPECIFICATION FairSpec
INVARIANTS
    TypeOK
    StaysInside
    TwoSegmentsReturned
    SocketsAccounted
PROPERTY
    ExchangeEnds
