SPECIFICATION Spec
SYMMETRY Symmetric
CONSTANTS
    Requests = {r1, r2, r3}
    Tcbs <- TwoTcbs
    Offered <- ThenNone
    Withheld <- FirstLacks
INVARIANTS
    TypeOK
    PresenceMeansCached
    GetFindsCached
    ServedFits
    EntriesAreBest
    RefreshRenews
