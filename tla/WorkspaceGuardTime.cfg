SPECIFICATION Spec
CONSTANTS
    a = a
    b = b
    old = old
    new = new
    lenient = lenient
    strict = strict
    NoEntry = NoEntry
    None = None
    Tx = {t1}
    Plan = {p1}
    Commit = {k1}
    Policy <- TwoPolicies
    Caller <- MCCaller
    Path <- MCPath
    Content <- MCContent
    Start <- MCStart
    Results <- RemovalOnly
    Edits <- NoEdit
    Evaluate <- MCEvaluate
    PlanTTL = 2
    TokenTTL = 1
    MaxClock = 2
SYMMETRY Symmetry
INVARIANTS
    Authorized
CHECK_DEADLOCK FALSE
