SPECIFICATION FairSpec
CONSTANTS
    s1 = s1
    s2 = s2
    s3 = s3
    c1 = c1
    Server <- Pair
    Command = {c1}
    Nil = Nil
    MinAcks = {2}
    Durable = FALSE
    MaxTerm <- PairRetry
    MaxLog <- EachTwice
    MaxApplied <- EachTwice
    MaxAppends = 1
    MaxVoteCalls = 1
CHECK_DEADLOCK FALSE
PROPERTIES CommitProgress
