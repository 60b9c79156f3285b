CONSTANTS
    p1 = p1
    p2 = p2
    k1 = k1
    b1 = b1
    b2 = b2
    soul = soul
    kling = kling
    MaxTime = 4
    MaxRestarts = 1
    Payers = {a1}
    RetryWindow = 2
    MaxRetriesPerWindow = 2
    NoBudget = NoBudget
    Deals = {p1, p2, k1}
    DealKind <- TheKinds
    Deadline <- TheDeadlines
    NearExpiry = 2
    MutedWindow = 2
    DeepDiscountPct = 40
    Offers <- TheOffers
    NoDeal = NoDeal
    Spenders = {s1, s2}
    MonthDays = 2
    PruneDays = 4
    FloorH = 0
    RelativePct = 50
    MaxSpent = 1
    Refreshers = {ticker, trigger}
    FailLimitR = 2
    MaxStreak = 2
    Reports <- TheReports
    Stock = {r1, r2}
    Conditions <- TheConditions
    CreditFloor = 2
    ExhaustionPct = 50
    PlanEndingDays = 2
    PlanEndingThreshold = 0
    MinUnlimPool = 1
    DedupWindow = 2
    Lossy = {"S3:grace"}
    Models <- TheModels
    ImageModels = {"flux", "seedream", "soul", "z_image"}
    SampleSize = 2
    Concurrency = 2
    Probers = {loop, manual}
    MaxProbes = 7
    MaxLost = 1
SPECIFICATION Spec
SYMMETRY UpkeepSymmetry
INVARIANTS InvoiceBudgetKept PromoAlertsBounded ReconWarnsOnce RefreshExplained SampleRotates
PROPERTIES ColumnsAdvance AlertsKept
CHECK_DEADLOCK FALSE
