\* A form, and who may administer, own and vote in it, through its whole life. User IDs
\* that are no SCIPER take part too.
SPECIFICATION Spec
CONSTANTS
    FormIDs = {f1}
    AdminListID = AdminListID
    NoList = NoList
    UserIDs <- AllUsers
    Atoi <- MCAtoi
    n1 = n1
    n2 = n2
    n3 = n3
    Nodes <- MCNodes
    Rosters <- OneNode
    DkgIndex <- MCDkgIndex
    Indexes <- MCIndexes
    PubKeys = {key}
    NoKey = NoKey
    c1 = c1
    c2 = c2
    long = long
    Ciphervotes <- MCCiphervotes
    Chunks <- MCChunks
    Plaintext <- MCPlaintext
    BallotSizes = {29}
    ShuffleOutputs <- MCShuffleOutputs
    Reencryptions <- MCReencryptions
    BallotsPerBlock = 2
    RollbackRejected = FALSE
    MaxBallots = 2
    MaxMembers = 2
INVARIANTS
    SomeoneInCharge
    StoredFormsListed
PROPERTIES
    RemovedAdminHasNoRights
CHECK_DEADLOCK FALSE
