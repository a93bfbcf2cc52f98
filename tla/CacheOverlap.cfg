SPECIFICATION Spec
SYMMETRY Symmetric
CONSTANTS
    Requests = {r1, r2, r3}
    Tcbs <- TwoTcbs
    Offered <- GrowShrink
    Withheld <- NeverLacks
INVARIANTS
    EntriesStayBest
