SPECIFICATION Spec
CONSTANTS
    s1 = s1
    s2 = s2
    s3 = s3
    c1 = c1
    Server <- Cluster
    Command = {c1}
    Nil = Nil
    MinAcks = {2}
    Durable = TRUE
    MaxTerm <- OneLeader
    MaxLog <- EachTwice
    MaxApplied <- None
    MaxAppends = 1
    MaxVoteCalls = 2
SYMMETRY OneLeaderSym
CHECK_DEADLOCK FALSE
INVARIANTS ReplicatedBeforeCommit
