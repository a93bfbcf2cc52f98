SPECIFICATION Spec
SYMMETRY Symmetric
CONSTANTS
    Regs = {g1, g2}
    Posts = {p1, p2}
    Gets = {c1, c2}
    None = none
    Sqlite = FALSE
INVARIANT
    NoRegistrationLost
