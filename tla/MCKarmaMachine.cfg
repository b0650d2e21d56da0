SPECIFICATION Spec
CONSTANTS
    WordBits = 6
    WordCount = 64
    MemorySize = 6
    NRegisters = 5
    Decode <- MCDecode
    BitOp <- MCBitOp
    Inputs <- MCInputs
    Doubles <- MCDoubles
    Jobs <- MCJobs
    Configs <- MCConfigs
INVARIANT TypeOK
INVARIANT ProgramIntact
INVARIANT ConfigIsOfThisExecution
PROPERTY BlockedRegistersKept
PROPERTY PushesStayInBounds
CHECK_DEADLOCK FALSE
