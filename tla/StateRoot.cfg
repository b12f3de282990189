SPECIFICATION Spec
CONSTANTS
    b1 = b1
    b2 = b2
    t1 = t1
    t2 = t2
    t3 = t3
    Broker <- MCBroker
    Thread <- MCThread
    Owner <- MCOwner
    Key = {k1, k2}
    NoKey = NoKey
    NoFile = NoFile
    Nobody = Nobody
    MaxRows = 4
SYMMETRY Symmetry
INVARIANTS
    TypeOK
    OneKey
    SoundChain
    AckedStays
CHECK_DEADLOCK FALSE
