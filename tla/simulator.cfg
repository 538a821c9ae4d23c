SPECIFICATION SSpec
CONSTANTS
    Limit = 70
    HEAPSTART = 48
    BREAKSTART = 40
    Sizes = {3, 8, 40}
    Steps <- MCSteps
    MaxBlock = 4
    Names = {"f", "g"}
    Unwritable = {"g"}
    Standard <- MCStandard
    NUL = "nul"
    NewLine = "nl"
    Texts <- MCTexts
    LineLength = 1
    MaxFiles = 2
    MaxBytes = 3
    Programs <- MCPrograms
    MinSize = 5
INVARIANTS
    STypeOK
    StatusMatches
    BreakOutsideHeap
    DescriptorsNameTheirFile
    ReadsEnd
    HangsOnlyOnMissing
    RunsOwnIfWriteLast
PROPERTIES
    Allocates
    RecoversWhenEmpty
CHECK_DEADLOCK FALSE
