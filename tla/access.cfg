SPECIFICATION Spec
CONSTANTS
    g1 = g1
    g2 = g2
    r1 = r1
    r2 = r2
    h1 = h1
    h2 = h2
    Keys = {k1, k2}
    NameOrder <- MCNameOrder
    Accounts = {a1}
    Editors = {e1}
    Budgets = {0, 1}
    MaxEdits = 2
    PartnerKeys = {k1}
    Provisioned = {k1}
    Reqs = {r1, r2}
    Rotations = {t1, t2}
    Quotas = {0, 2}
    Est = 1
    Charges = {1, 2}
    MaxSends = 2
    MaxSecrets = 2
    NoGroup = global
    Bearers = {bt, b1, b2}
    Toml = bt
    Absent = none
    Rotators = {o1, o2}
    GraceWindow = 2
    MaxClock = 3
    MaxRotations = 2
    MaxBoots = 1
    Callers = {c1, c2}
    Watched = c1
    Arrivals = {w1, w2}
    RPS = 1
    Burst = 2
    IdleEviction = 4
    LockLag = 1
    MaxSeconds = 5
    MaxAdmitted = 4
    Files <- TheFiles
    Puts <- ThePuts
    Tariffs <- TheTariffs
    Handlers = {h1, h2}
    MaxPuts = 2
    MaxSnapshots = 3
    MaxReboots = 1
    Observations <- TheObservations
    CostRules <- TheCostRules
    Postings <- ThePostings
    BatchIds = {b1, b2}
    NewBatches <- TheBatches
    Repricing = {30}
    Fallback = 12
    MarkupTenths = 18
    MaxDecisions = 3
    MaxPriceClock = 2
    MaxBatchWrites = 3
SYMMETRY MCSymmetry
INVARIANTS AdmittedAtAnInstant OverspendBounded ConfinementExplained GroupSpendKept RotationSafe RateBounded ServedAsStored PricesOnRecord FeedBillsRight FloorSound
CHECK_DEADLOCK FALSE
