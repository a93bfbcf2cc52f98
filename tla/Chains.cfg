SPECIFICATION Spec
CONSTANTS
    Requests = {r1, r2}
    Identities = {qe, early, qe3}
    Tcbs = {tcb}
    Version3 = {qe3}
    qe = qe
    qe3 = qe3
    tcb = tcb
    Files <- FileSet
    MaxStarts = 3
    KeyOf <- NewKey
    RootOf <- NewRootKey
    None = none
SYMMETRY RequestSymmetry
INVARIANTS
    TypeOK
    CheckedIsServable
    RefreshHeals
PROPERTY
    ServableStays
