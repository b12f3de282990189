SPECIFICATION Spec
CONSTANTS
    a = a
    b = b
    old = old
    new = new
    lenient = lenient
    strict = strict
    NoEntry = NoEntry
    None = None
    Tx = {t1}
    Plan = {p1}
    Commit = {k1, k2}
    Policy <- OnePolicy
    Caller <- MCCaller
    Path <- MCPath
    Content <- MCContent
    Start <- MCStart
    Results <- OneResult
    Edits <- NoEdit
    Evaluate <- MCEvaluate
    PlanTTL = 1
    TokenTTL = 1
    MaxClock = 0
SYMMETRY Symmetry
INVARIANTS
    PlanConsumedOnce
CHECK_DEADLOCK FALSE
