\* Submissions, retries and cancels beside the daemon and its retention, with a process death.
SPECIFICATION FairSpec
CONSTANTS
    j0 = j0  s1 = s1  s2 = s2
    r1 = r1  r2 = r2
    c1 = c1  c2 = c2
    p1 = p1  p2 = p2
    None = None
    Daemon = Daemon
    Roots = {j0}
    Jobs = {j0, s1}
    Requests = {r1}
    Successor <- OneRetry
    Callers = {c1}
    Pids = {p1}
    DaemonRuns = TRUE
    CallerOps = {"submit", "retry", "cancel"}
    MaxActive = 2
    MaxCalls = 2
    MaxCrashes = 1
    MaxPrunes = 1
    PosixGroups = FALSE
PROPERTIES
    RetentionSparesActive
    ShownJobSettles
    CancelStopsChild
    ShownIntentSpawned
