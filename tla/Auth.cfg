\* Two handlers at a time; a database call fails, or the command line is used.
SPECIFICATION AuthSpec
CONSTANTS
    a = a
    b = b
    f1 = f1
    UserIDs <- TwoUserIDs
    Sciper <- MCSciper
    FormIDs = {f1}
    Grants <- VoteGrants
    Sids = {s1}
    Tasks = {t1, t2}
    NoTask = NoTask
    NoUser = NoUser
    DEV_LOGIN = TRUE
    InitialDB <- OwnerDB
    MaxEvents = 1
INVARIANTS
    NoUnsavedRight
    StoredIsInForce
PROPERTIES
    LockoutEnds
CHECK_DEADLOCK FALSE
