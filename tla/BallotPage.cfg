\* Forms of every kind of question; one of them is voted on twice, with the
\* requests on their way together.
SPECIFICATION FairSpec
CONSTANTS
    availableLanguages <- MCLanguages
    Forms <- AllKinds
    Inputs <- MCInputs
    MaxRequests <- MCMaxRequests
INVARIANTS
    RequestsDecode
    FitsChunks
    ErrorsAreCurrent
    LastVoteCounts
PROPERTIES
    RefusalIsExplained
    CastEnds
CHECK_DEADLOCK FALSE
