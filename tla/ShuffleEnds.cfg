\* Two nodes and one call, by an owner or through the proxy; a handler may fail
\* and an owner interfere.
SPECIFICATION NeffSpec
CONSTANTS
    FormIDs = {f1}
    AdminListID = AdminListID
    NoList = NoList
    UserIDs <- AllUsers
    Atoi <- MCAtoi
    n1 = n1
    n2 = n2
    n3 = n3
    Nodes <- MCNodes
    Rosters <- Rosters2
    DkgIndex <- MCDkgIndex
    Indexes <- MCIndexes
    PubKeys = {key}
    NoKey = NoKey
    c1 = c1
    c2 = c2
    long = long
    Ciphervotes <- MCCiphervotes
    Chunks <- MCChunks
    Plaintext <- MCPlaintext
    BallotSizes = {29}
    ShuffleOutputs <- MCShuffleOutputs
    Reencryptions <- MCReencryptions
    BallotsPerBlock = 1
    RollbackRejected = FALSE
    MaxBallots = 2
    MaxMembers = 2
    form = f1
    ClosedForm <- TwoNodesForm
    Callers = {"111111", ""}
    NoVar = ""
    NoHandler = NoHandler
    MaxShuffleCalls = 1
    MaxFailures = 1
    MaxCommands = 1
INVARIANTS
    OneShufflePerBlock
    CurrentShuffleVerifies
    AcceptedHandlersContributed
PROPERTIES
    ShuffleEnds
CHECK_DEADLOCK FALSE
