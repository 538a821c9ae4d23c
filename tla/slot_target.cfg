SPECIFICATION FSpec
CONSTANTS
    NPC = 5
    ResetPC = 0
    DELAY = 3
    Programs <- MCPrograms
    Targets <- MCTargetsSlot
    Guessed <- MCTargetsSlot
INVARIANT BranchObeyed
