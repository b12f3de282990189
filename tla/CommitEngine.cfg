SPECIFICATION Spec
CONSTANTS
    c1 = c1
    c2 = c2
    NOps = 2
    NoEntry = NoEntry
    EditorPaths = {2}
    Content <- MCContent
SYMMETRY Symmetry
INVARIANTS
    TypeOK
    BaselineRecoverable
    JournalAhead
    SettledMeansBaseline
    AuditTruthful
PROPERTIES
    CommittedMeansStaged
    ImplementsAtomicCommit
CHECK_DEADLOCK FALSE
