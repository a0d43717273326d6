\* A job judged never started whose child runs.
SPECIFICATION Spec
CONSTANTS
    j0 = j0  s1 = s1  s2 = s2
    r1 = r1  r2 = r2
    c1 = c1  c2 = c2
    p1 = p1  p2 = p2
    None = None
    Daemon = Daemon
    Roots = {j0}
    Jobs = {j0, s1}
    Requests = {r1}
    Successor <- OneRetry
    Callers = {c1, c2}
    Pids = {p1}
    DaemonRuns = FALSE
    CallerOps = {"submit", "reconcile"}
    MaxActive = 2
    MaxCalls = 2
    MaxCrashes = 0
    MaxPrunes = 0
    PosixGroups = FALSE
SYMMETRY Symmetry
INVARIANTS
    SafeRetryNeverRan
\* Bounded calls without the daemon: a run may end with nothing left to do.
CHECK_DEADLOCK FALSE
