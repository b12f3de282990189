SPECIFICATION LiveSpec
CONSTANTS
    c1 = c1
    c2 = c2
    NOps = 2
    NoEntry = NoEntry
    EditorPaths = {2}
    Content <- MCContent
INVARIANTS
    KeepsUserEntry
PROPERTIES
    LockReleased
    FaithfulCommitCompletes
    PreparedSettles
    RestoreCompletes
CHECK_DEADLOCK FALSE
