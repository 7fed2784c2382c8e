SPECIFICATION Spec
CONSTANTS
    here = here
    away = away
    t1 = t1
    t2 = t2
    t3 = t3
    t4 = t4
    h1 = h1
    h2 = h2
    pa = pa
    pb = pb
    Stock = "stock"
    Nodes = {here}
    Patches = {pa, pb}
    Contents = {"honest", "better"}
    Changes <- MCChanges
    Speed <- MCSpeed
    Prompts = {t1, t2, t3, t4}
    HeldOut = {h1, h2}
    Knife = {}
    KnownUnstable = {}
    Shipped = {t1, t2, t3, t4}
    Repeats = 3
    BenchPairs = 1
    HeldPairs = 1
    GRID = 100
    PCT = 1
    FLOOR = 95
    TOLERANCE = 50
    MaxPromotions = 2
    MaxRecords = 4
    MaxBaselines = 1
    MaxRunning = 1
    MaxIncidents = 0
INVARIANTS
    HeadlineIsReal
