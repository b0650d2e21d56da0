SPECIFICATION CallSpec
CONSTANTS
    WordBits = 5
    WordCount = 32
    MemorySize = 18
    NRegisters = 5
    Decode <- MCDecode
    BitOp <- MCBitOp
    Inputs <- NoWords
    Doubles <- NoWords
    Jobs <- MCJobs
    Configs <- MCConfigs
INVARIANT FramesNest
PROPERTY ImplementsCallStack
CHECK_DEADLOCK FALSE
