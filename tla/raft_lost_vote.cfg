SPECIFICATION RestartSpec
CONSTANTS
    s1 = s1
    s2 = s2
    Server <- Pair
    Command = {c1}
    Nil = Nil
    MinAcks = {2}
    Durable = TRUE
    MaxTerm <- Campaign
    MaxCrashes <- Never
    MaxLog <- Never
    MaxApplied <- Never
    MaxAppends = 1
    MaxVoteCalls = 2
CHECK_DEADLOCK FALSE
INVARIANTS StableBeforeReply
