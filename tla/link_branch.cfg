SPECIFICATION ISpec
CONSTANTS
    W = 3
    IW = 2
    JW = 2
    S = 2
INVARIANTS
    LinkBranchDecision
CHECK_DEADLOCK FALSE
