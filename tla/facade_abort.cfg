SPECIFICATION Spec
CONSTANTS
    None = None
    Illegal = Illegal
    c1 = c1
    Calls <- MCCalls
    Specs <- MCSpecs
    ClientSpecs <- MCClientSpecs
    BuilderOps <- MCBuilderOps
    Answers <- MCAnswers
    EngineErrors <- MCEngineErrors
    Files <- MCFiles
    MaxSize = 2
    MaxOps = 2
    ReadSize = 1
INVARIANT AbortClosesSocket
CHECK_DEADLOCK FALSE
