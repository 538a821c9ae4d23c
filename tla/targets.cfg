SPECIFICATION PSpec
CONSTANTS
    NPC = 7
    ResetPC = 0
    DELAY = 3
    Programs <- CallPrograms
    Targets <- CallTargets
    Guessed <- CallTargets
    Decides <- FreeChoice
    Calls = {0, 2}
    Returns = {5}
    GlobalBits = 0
    LocalBits = 0
    LocalEntries = 1
    MetaEntries = 1
    BTBSets = 2
    StackSize = 2
INVARIANTS
    PTypeOK
PROPERTIES
    GuessesOnly
