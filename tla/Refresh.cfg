SPECIFICATION FairSpec
CONSTANTS
    f1 = f1
    p1 = p1
    Requests = {r1, cron}
    CronJobs = {cron}
    Handlers = {h1}
    Fmspcs = {f1}
    Platforms = {p1}
    FmspcOf <- OneFmspcOf
    Crls = {}
    Tcbs = {t1}
    Identities = {}
    Version3 = {}
    CachedCrls = {}
    RootCrl = root_crl
    Chain = chain
    Collateral = collateral
    AllFmspcs = all_fmspcs
    FmspcList = fmspc_list
    None = none
    Sqlite = TRUE
    MaxStamp = 2
INVARIANTS
    TypeOK
    TurnsInQueue
    RefreshesTakeTurns
PROPERTY
    NeverRegress
    ImplementsFlights
    EveryCallAnswered
