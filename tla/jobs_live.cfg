CONSTANTS
    j1 = j1
    j2 = j2
    a1 = a1
    Worker = Worker
    Jobs = {j1}
    AsyncJobs = {}
    Accounts = {a1}
    AccountCap = 1
    Outcomes <- MixedOutcomes
    Faults = {}
    Leavers = {j1}
    MaxRestarts = 2
SPECIFICATION FairSpec
PROPERTIES RowsSettle SlotsDrain JobsAccounted
