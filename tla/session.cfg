CONSTANTS
    c1 = c1
    c2 = c2
    a1 = a1
    Calls = {c1, c2}
    Accounts = {a1}
    Op <- TheOps
    AccountOf <- TheAccounts
    Timed = {"create_job"}
    SlackSeconds = 2
    Lifetime = 2
    Drift <- TheDrift
    MaxTime = 2
    MaxUpsets = 1
    MaxMints = 3
    Nobody = Nobody
    NoToken = NoToken
SPECIFICATION FairSpec
INVARIANTS TokensAccounted
PROPERTIES ImplementsAtMostOnce CallsEnd
CHECK_DEADLOCK FALSE
