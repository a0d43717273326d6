\* Two tasks, every kind of work, one crash, failed write or commit beside the daemon.
SPECIFICATION Spec
CONSTANTS
    NTasks = 2
    MaxRounds = 0
    MaxFailures = 1
    Outcomes = {"complete", "ready", "dirty", "advance", "open"}
INVARIANTS
    
    TargetWaitsForPlan
    GenerationConsumed
PROPERTIES
    RunNeverReplayed
