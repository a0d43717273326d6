\* Runs lost to crashes and outages, found, recovered and settled.
SPECIFICATION FairSpec
CONSTANTS
    c1 = c1  c2 = c2  x1 = x1
    None = None
    Owners <- Order
    Runs = {c1, c2, x1}
    Recovery <- Chain
    NTasks = 2
    Confirmations = 2
    MaxRecoveries = 2
    MaxCommits = 1
    MaxFailures = 2
INVARIANTS
    ReplacedIsDead
    RecoveryRunsItsTask
    LossKept

    
