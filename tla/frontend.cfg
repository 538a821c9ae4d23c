SPECIFICATION FSpec
CONSTANTS
    NPC = 5
    ResetPC = 0
    DELAY = 3
    Programs <- MCPrograms
    Targets <- MCTargets
    Guessed <- MCGuessed
INVARIANTS
    FTypeOK
    BranchObeyed
    PredictionAligned
    SyscallDrained
    SerialServed
PROPERTIES
    Implements
    KeepsGoing
