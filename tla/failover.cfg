CONSTANTS
    a1 = a1
    a2 = a2
    r1 = r1
    r2 = r2
    Accounts = {a1, a2}
    Reporters = {r1, r2}
    CfgFailLimit = 0
    FallbackFailLimit = 2
    FailLimitOverride <- StrictA1
    JudgeCount = 1
    EvictCount = 2
    OutageLimit = 1
    Faults = {"event", "count", "mark", "guard", "reset"}
    MaxInputs = 3
SPECIFICATION Spec
INVARIANTS GuardSlack IsolationExplained
SYMMETRY ReporterSymmetry
