SPECIFICATION LiveSpec
CONSTANTS
    c1 = c1
    c2 = c2
    NOps = 2
    NoEntry = NoEntry
    EditorPaths = {2}
    Content <- MCContent
INVARIANTS
    StatusTracksTree
CHECK_DEADLOCK FALSE
