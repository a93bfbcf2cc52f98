SPECIFICATION Spec
SYMMETRY Symmetric
CONSTANTS
    Regs = {g1, g2}
    Posts = {p1, p2, p3}
    Gets = {c1, c2}
    None = none
    Sqlite = TRUE
INVARIANTS
    TypeOK
    NoRegistrationLost
    HandedOnce
    NothingForgotten
    ConfirmedIsCached
