SPECIFICATION Spec
CONSTANTS
    s1 = s1
    s2 = s2
    s3 = s3
    c1 = c1
    Server <- Cluster
    Command = {c1}
    Nil = Nil
    MinAcks = {0, 2}
    Durable = TRUE
    MaxTerm <- Rivals
    MaxLog <- None
    MaxApplied <- None
    MaxAppends = 1
    MaxVoteCalls = 4
SYMMETRY RivalsSym
CHECK_DEADLOCK FALSE
INVARIANTS ElectionSafety
PROPERTIES OneVotePerTerm
