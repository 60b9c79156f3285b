CONSTANTS
    a1 = a1  a2 = a2  g1 = g1  g2 = g2  k1 = k1  k2 = k2  m1 = m1  m2 = m2
    r1 = r1  r2 = r2
    Accounts = {a1, a2}
    Groups = {g1, g2}
    Keys = {k1, k2}
    Models = {m1, m2}
    Requests = {r1, r2}
    AccountRow <- TheAccounts
    GroupRow <- TheGroups
    KeyRow <- TheKeys
    PluginCalls <- ThePluginCalls
    ModelSpec <- TheModels
    Settings <- TheSettings
    DefaultAccountCap = 0
    BalanceValues = {1, 3}
    MinCost = 1
    MaxCharge = 1
    Faults = {}
    MaxStarts = 1
    MaxChanges = 0
    MaxMonths = 1
SPECIFICATION Spec
SYMMETRY RequestSymmetry
INVARIANT BudgetIsMonthly
CHECK_DEADLOCK FALSE
