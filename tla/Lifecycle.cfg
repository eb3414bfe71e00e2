\* One form from its creation to its result: ballots in blocks of two, rosters
\* of one and of two nodes.
SPECIFICATION CastSpec
CONSTANTS
    FormIDs = {f1}
    AdminListID = AdminListID
    NoList = NoList
    UserIDs <- NumberedUsers
    Atoi <- MCAtoi
    n1 = n1
    n2 = n2
    n3 = n3
    Nodes <- MCNodes
    Rosters <- FewNodes
    DkgIndex <- MCDkgIndex
    Indexes <- MCIndexes
    PubKeys = {key}
    NoKey = NoKey
    c1 = c1
    c2 = c2
    long = long
    Ciphervotes <- MCCiphervotes
    Chunks <- MCChunks
    Plaintext <- MCPlaintext
    BallotSizes = {29}
    ShuffleOutputs <- MCShuffleOutputs
    Reencryptions <- MCReencryptions
    BallotsPerBlock = 2
    RollbackRejected = FALSE
    MaxBallots = 4
    MaxMembers = 1
INVARIANTS
    TypeOK
    BlocksMatchCount
    DecryptOnlyAfterShuffle
    SharesRecoverSecret
    NodesRemain
PROPERTIES
    RefinesElection
CHECK_DEADLOCK FALSE
