SPECIFICATION Spec
CONSTANTS
    g1 = g1
    b1 = b1
    b2 = b2
    soul = soul
    kling = kling
    Regs = {1, 2}
    Flows = {f1, f2}
    Requests = {q1}
    Loop = loop
    MaxRetries = 1
    MaxFaults = 1
    MaxStarts = 2
    GiftIds = {g1}
    Grants <- TheGrants
INVARIANT OneFlowPerRow
CHECK_DEADLOCK FALSE
