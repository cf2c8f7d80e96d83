SPECIFICATION Spec
CONSTANTS
    s1 = s1
    s2 = s2
    s3 = s3
    c1 = c1
    Server <- Cluster
    Command = {c1}
    Nil = Nil
    MinAcks = {2}
    Durable = TRUE
    MaxTerm <- Growing
    MaxLog <- Growing
    MaxApplied <- FirstOnce
    MaxAppends = 2
    MaxVoteCalls = 2
CONSTRAINT InScope
CHECK_DEADLOCK FALSE
INVARIANTS TypeOK LogMatching NextInLog AcksHold
PROPERTIES LeaderAppendOnly
