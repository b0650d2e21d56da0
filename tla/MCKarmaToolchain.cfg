SPECIFICATION Spec
CONSTANTS
    CodeBits = 3
    RegisterBits = 1
    ModBits = 3
    Format <- MCFormat
    IgnoresAddress = {4}
    WordSize = 2
    HeaderSize = 4
    ProcessorID = 239
    CharBits = 5
    Whitespaces = {5, 7}
    Backslash = 1
    Hash = 2
    CharQuote = 3
    StringQuote = 4
    EscapeSequences <- MCEscapeSequences
    Labels <- MCLabels
    NoLabel = NoLabel
    Rounded <- MCRounded
    Unreadable = {515}
    Texts <- MCTexts
    ForeignFiles <- MCForeignFiles
    MaxRounds = 2
INVARIANTS
    TypeOK
    OnlyWholeFilesAreRead
    LoadedProgramFits
    PartialListingRefused
    EncodedAsWritten
    RecompilesToTheSame
    ListingIsStable
CHECK_DEADLOCK FALSE
