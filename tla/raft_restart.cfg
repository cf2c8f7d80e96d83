SPECIFICATION RestartFairSpec
CONSTANTS
    s1 = s1
    s2 = s2
    Server <- Pair
    Command = {c1}
    Nil = Nil
    MinAcks = {2}
    Durable = TRUE
    MaxTerm <- Campaign
    MaxCrashes <- EachOnce
    MaxLog <- EachOnce
    MaxApplied <- EachOnce
    MaxAppends = 2
    MaxVoteCalls = 2
CHECK_DEADLOCK FALSE
INVARIANTS RestartTypeOK AckSound DeliveredAgree
PROPERTIES CommitProgress
