\* Two nodes, two clicks, everything that the fetches and the polls can answer.
SPECIFICATION TableSpec
CONSTANTS
    N = 2
    MaxClicks = 2
INVARIANTS
    StatusesAgree
PROPERTIES
    SetupIsReachable
    SettingUpEnds
CHECK_DEADLOCK FALSE
