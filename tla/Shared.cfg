CONSTANTS
    Flight = {f1, f2, f3}
    Caller = {c1, c2, c3}
    Key = {k1}
    NoKey = nokey
    Options <- MCOptions
    pop = pop  news = news  sport = sport
    Call = {l1, l2}
    Query = {q}
    MixChoices <- MCMix
    Home = home
    Ttl = 1
    HomeTtl = 1
    StaleTtl = 2
    Hour = 2
    CacheSize = 2
    MaxTime = 3
    Device = {d1, d2}
    Session = {h1}
    RouteClass = {"extract"}
    Max <- MCMax
    Window <- MCWindow
    TicksPerSecond = 2
    TrustProxy = TRUE
    Proxy = proxy
    Junk = junk
    MaxClock = 4
    Process = {p1, p2}
    Version = {v1, v2}
    Nobody = nobody
    MaxUpgrades = 1
    MaxDamage = 2
    Releases = 3
    Path = {s1, s2}
    Client = {tab}
    MaxPuts = 1
SYMMETRY MCSymmetry
SPECIFICATION SharedSpec
INVARIANTS Accounted SingleFlight AnswersHonest LimitHolds RefusalEarned OkIsOfficial ShellComplete
PROPERTIES ImplementsPool NeverGoesBack NeverWorse
CHECK_DEADLOCK FALSE
