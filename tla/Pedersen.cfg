\* Three nodes, one call of Setup, and a node that crashes at any step.
SPECIFICATION FairSpec
CONSTANTS
    Nodes = {n1, n2, n3}
    None = None
    Asked = {n1}
    Timeouts = FALSE
    MaxSetups = 1
    MaxCrashes = 1
INVARIANTS SavedTogether ReturnedKeyIsHeld
PROPERTIES SetupEnds KeyIsSaved
CHECK_DEADLOCK FALSE
