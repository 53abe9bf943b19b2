SPECIFICATION FairSpec
CONSTANTS
    Subjects = {s1}
    Keys = {k1, k2}
    Users = {u1, u2}
    Admins = {a1, a2}
    Clients = {c1}
    MaxTime = 2
    Nobody = Nobody
INVARIANTS
    HistoryIsContiguous
    RecordsAreAttributable
PROPERTIES
    ImplementsDirectory
    EveryAssignmentEnds
CHECK_DEADLOCK FALSE
