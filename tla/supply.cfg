SPECIFICATION Spec
CONSTANTS
    g1 = g1
    b1 = b1
    b2 = b2
    soul = soul
    kling = kling
    Regs = {1}
    Flows = {f1, f2}
    Requests = {q1}
    Loop = loop
    MaxRetries = 1
    MaxFaults = 1
    MaxStarts = 2
    GiftIds = {g1}
    Grants <- TheGrants
INVARIANTS SupplyExplained
PROPERTIES SuccessKept PendingTakenUp GrantsGetClaimed
CHECK_DEADLOCK FALSE
