\* Two tasks with one round of remediation each, nothing failing.
SPECIFICATION FairSpec
CONSTANTS
    NTasks = 2
    MaxRounds = 1
    MaxFailures = 0
    Outcomes = {"dirty", "open"}
PROPERTIES
    DecisionsActuated
    WorkReviewed
    HandoffsSettle
