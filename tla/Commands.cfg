\* Two clients submit three requests under two ids; two deaths.
SPECIFICATION FairSpec
CONSTANTS
    c1 = c1
    c2 = c2
    None = None
    Clients = {c1, c2}
    Ids = {1, 2}
    Requests <- Mixed
    MaxCalls = 4
    MaxDeaths = 2
INVARIANTS
    AcceptedStands
    SettledAudited
PROPERTIES
    NoEffectAfterOutcome
    OutcomeStays
    InboxDrains
