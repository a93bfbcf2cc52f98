SPECIFICATION Spec
CONSTANTS
    Puts = {q1, q2, q3}
    Ids = {i1, i2}
    Fmspcs = {f1, f2}
    None = none
    Sqlite = FALSE
INVARIANTS
    TypeOK
    OneDefault
    UnsetsTheDefault
