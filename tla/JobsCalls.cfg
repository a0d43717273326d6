\* Two callers, two retry requests and a process death, the daemon down, process groups as on POSIX.
SPECIFICATION Spec
CONSTANTS
    j0 = j0  s1 = s1  s2 = s2
    r1 = r1  r2 = r2
    c1 = c1  c2 = c2
    p1 = p1  p2 = p2
    None = None
    Daemon = Daemon
    Roots = {j0}
    Jobs = {j0, s1, s2}
    Requests = {r1, r2}
    Successor <- TwoRetries
    Callers = {c1, c2}
    Pids = {p1, p2}
    DaemonRuns = FALSE
    CallerOps = {"submit", "retry", "cancel", "reconcile"}
    MaxActive = 2
    MaxCalls = 3
    MaxCrashes = 1
    MaxPrunes = 0
    PosixGroups = TRUE
SYMMETRY RetrySymmetry
INVARIANTS
    OneSupervisorPerRecord
    OutcomeHasEvidence
    IndexNeverAhead
    OverlapNeedsCancel
PROPERTIES
    ImplementsContract
\* Bounded calls without the daemon: a run may end with nothing left to do.
CHECK_DEADLOCK FALSE
