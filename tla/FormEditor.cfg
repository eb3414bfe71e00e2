SPECIFICATION Spec
CONSTANTS
    MaxEdits = 5
    MaxPosts = 1
    Files <- MCFiles
INVARIANTS CopiesAgree NodesTakeForms
CHECK_DEADLOCK FALSE
