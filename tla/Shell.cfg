\* One tab, while rights are changed and the backend is restarted.
SPECIFICATION ShellSpec
CONSTANTS
    a = a
    b = b
    f1 = f1
    UserIDs <- TwoUserIDs
    Sciper <- MCSciper
    FormIDs = {f1}
    Grants <- VoteGrants
    Sids = {s1}
    Tasks = {}
    Tabs = {w1}
    Browser = s1
    NoTask = NoTask
    NoUser = NoUser
    DEV_LOGIN = TRUE
    InitialDB <- OwnerDB
    MaxEvents = 1
INVARIANTS
    PagesWereGranted
CHECK_DEADLOCK FALSE
