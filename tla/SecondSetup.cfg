\* Two nodes, on each of which Setup is called.
SPECIFICATION Spec
CONSTANTS
    Nodes = {n1, n2}
    None = None
    Asked = {n1, n2}
    Timeouts = FALSE
    MaxSetups = 2
    MaxCrashes = 0
INVARIANT ReturnedKeyIsHeld
CHECK_DEADLOCK FALSE
