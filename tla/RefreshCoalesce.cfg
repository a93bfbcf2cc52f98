SPECIFICATION Spec
CONSTANTS
    f1 = f1
    p1 = p1
    Requests = {r1, r2, r3}
    CronJobs = {}
    Handlers = {}
    Fmspcs = {f1}
    Platforms = {p1}
    FmspcOf <- OneFmspcOf
    Crls = {}
    Tcbs = {t1, t3}
    Identities = {i1}
    Version3 = {t3}
    CachedCrls = {}
    RootCrl = root_crl
    Chain = chain
    Collateral = collateral
    AllFmspcs = all_fmspcs
    FmspcList = fmspc_list
    None = none
    Sqlite = FALSE
    MaxStamp = 2
INVARIANT
    OneFlightPerKey
    FlightsRegistered
    FetchedIsNewest
    ToldIsFresh
PROPERTY
    ImplementsFlights
SYMMETRY Callers
