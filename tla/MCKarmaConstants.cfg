SPECIFICATION Spec
CONSTANTS
    WordBits = 6
    WordCount = 64
    MemorySize = 6
    NRegisters = 5
    Decode <- MCDecode
    BitOp <- MCBitOp
    Inputs <- MCInputs
    Doubles <- MCDoubles
    Jobs <- Alone
    Configs <- ConstantsBlocked
PROPERTY ConstantsBlockRespected
CHECK_DEADLOCK FALSE
