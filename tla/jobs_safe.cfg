CONSTANTS
    j1 = j1
    j2 = j2
    a1 = a1
    Worker = Worker
    Jobs = {j1, j2}
    AsyncJobs = {j2}
    Accounts = {a1}
    AccountCap = 1
    Outcomes <- TwoOutcomes
    Faults = {}
    Leavers = {j1}
    MaxRestarts = 1
SPECIFICATION Spec
INVARIANTS CasWinsExplained SlotAccounting
PROPERTIES ImplementsLedger
