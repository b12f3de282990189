SPECIFICATION Spec
CONSTANTS
    a = a
    d = d
    b = b
    r = r
    Root = r
    Path <- MCPath
    Parent <- MCParent
    DirMode = {dir}
    FileMode = {plain}
    Data = {d1, d2}
    Absent = Absent
    Unread = Unread
    MaxWrites = 2
INVARIANTS
    TypeOK
    AcceptedIsSnapshot
PROPERTIES
    QuietIsAccepted
CHECK_DEADLOCK FALSE
