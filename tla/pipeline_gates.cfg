SPECIFICATION Spec
CONSTANTS
    here = here
    away = away
    t1 = t1
    t2 = t2
    t3 = t3
    t4 = t4
    h1 = h1
    h2 = h2
    pa = pa
    pb = pb
    Stock = "stock"
    Nodes = {here, away}
    Patches = {pa, pb}
    Contents = {"narrow", "drifts", "alters"}
    Changes <- MCChanges
    Speed <- MCSpeed
    Prompts = {t1, t2, t3, t4}
    HeldOut = {h1, h2}
    Knife = {t3, t4, h2}
    KnownUnstable = {t4}
    Shipped = {t1, t2, t4}
    Repeats = 3
    BenchPairs = 2
    HeldPairs = 1
    GRID = 100
    PCT = 1
    FLOOR = 95
    TOLERANCE = 50
    MaxPromotions = 1
    MaxRecords = 2
    MaxBaselines = 1
    MaxRunning = 1
    MaxIncidents = 1
SYMMETRY Alike
INVARIANTS
    TypeOK
    PromotionsAreBacked
    PromotedGeneralizes
    PromotedKeepsTokens
    IdentityIsToBaseline
    HonestIsIdentical
PROPERTIES
    NeverUnexamined
