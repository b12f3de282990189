SPECIFICATION PowerSpec
CONSTANTS
    c1 = c1
    c2 = c2
    NOps = 2
    NoEntry = NoEntry
    EditorPaths = {}
    Content <- MCContent
SYMMETRY Symmetry
INVARIANTS
    BaselineRecoverable
    JournalAhead
    CommittedInPlace
CHECK_DEADLOCK FALSE
