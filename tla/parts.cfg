SPECIFICATION PartsSpec
CONSTANTS
    Reg = {0, 1}
    Zero = 0
    Value = {0, 1}
    LinkReg = 1
    Op <- MCOps
    ALU <- MCALU
    Loaded <- MCLoaded
    Instrs <- MCInstrs
    W = 3
    IW = 2
    JW = 2
    S = 2
    Top <- MCTop
    Byte <- MCByte
    Bit7 <- MCBit7
    Zeros = 29
    Ones = 30
    InitialMemory <- MCMemory
    InitialWord <- MCWord
    WordOf <- MCWordOf
    Accesses = 3
    SIZE = 3
    Addresses = {1, 2, 3, 4}
INVARIANTS
    ZeroStaysZero
    DecidesLikeMIPS
    ComputesLikeMIPS
    RASTypeOK
PROPERTIES
    ForwardsFaithfully
    UnalignedLoad
    UnalignedStore
    StoresOnlyCovered
    AlignedNumber
    PredictsLatestCall
CHECK_DEADLOCK FALSE
