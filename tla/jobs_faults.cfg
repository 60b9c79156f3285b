CONSTANTS
    j1 = j1
    j2 = j2
    a1 = a1
    Worker = Worker
    Jobs = {j1}
    AsyncJobs = {}
    Accounts = {a1}
    AccountCap = 2
    Outcomes <- TwoOutcomes
    Faults = {"create_row", "cas", "update", "release", "insert", "key", "group", "get_account", "reset"}
    Leavers = {j1}
    MaxRestarts = 1
SPECIFICATION Spec
INVARIANTS EffectsOwned BillingConserved
