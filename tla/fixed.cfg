SPECIFICATION PSpec
CONSTANTS
    NPC = 5
    ResetPC = 0
    DELAY = 3
    Programs <- FixedPrograms
    Targets <- FixedTargets
    Guessed <- FixedTargets
    Decides <- FixedDecides
    Calls = {}
    Returns = {}
    GlobalBits = 3
    LocalBits = 1
    LocalEntries = 2
    MetaEntries = 2
    BTBSets = 2
    StackSize = 1
INVARIANT
    GlobalHistoryExact
PROPERTIES
    MetaRewardsTheRight
    LearnsFixed
