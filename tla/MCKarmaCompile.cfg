SPECIFICATION FairSpec
CONSTANTS
    f1 = f1
    f2 = f2
    f3 = f3
    a = a
    b = b
    Files = {f1, f2, f3}
    Root = f1
    NoFile = NoFile
    Labels = {a, b}
    NoLabel = NoLabel
    Sources <- MCSources
    WorkerCounts <- MCWorkerCounts
INVARIANTS
    TypeOK
    IncludedFirst
    JoinedResultsAreComplete
PROPERTIES
    ImplementsAssembler
    CompilationEnds
