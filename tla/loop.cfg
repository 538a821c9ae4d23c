SPECIFICATION PSpec
CONSTANTS
    NPC = 3
    ResetPC = 0
    DELAY = 3
    Programs <- TightPrograms
    Targets <- TightTargets
    Guessed <- TightTargets
    Decides <- FreeChoice
    Calls = {}
    Returns = {}
    GlobalBits = 1
    LocalBits = 2
    LocalEntries = 2
    MetaEntries = 1
    BTBSets = 1
    StackSize = 1
INVARIANTS
    TrainsWhatPredicted
    LocalHistoryExact
PROPERTIES
    MetaRewardsTheRight
    LearnsHabit
