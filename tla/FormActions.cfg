\* A form of two nodes, its page opened twice, with requests that overlap.
SPECIFICATION Spec
CONSTANTS
    Rows = 2
    IsManager = TRUE
    MAX_ATTEMPTS = 2
    MaxPosts = 2
    MaxVisits = 2
INVARIANTS
    NeverAhead
    ConfirmedOnce
PROPERTIES
    OngoingEnds
CHECK_DEADLOCK FALSE
