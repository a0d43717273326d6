\* A plan and a pause; the daemon dies once.
SPECIFICATION FairSpec
CONSTANTS
    c1 = c1
    c2 = c2
    None = None
    Clients = {c1}
    Ids = {1, 2}
    Requests <- PlanFirst
    MaxCalls = 2
    MaxDeaths = 1
PROPERTIES
    RestartSettles
