\* Two evaluators, three failure classes, five revisions and two heads.
SPECIFICATION Spec
CONSTANTS
    e1 = e1
    e2 = e2
    None = None
    Evaluators = {e1, e2}
    Classes = {"IMPLEMENTATION_DEFECT", "RESOURCE_TRANSIENT"}
    Starts <- NewAndExhausted
    Troubles = {"none", "conflict", "no_head"}
    Budget <- OneEach
    MaxRepairs = 1
    QuotaKnown = TRUE
    MaxRev = 5
    MaxHead = 2
SYMMETRY Both
INVARIANTS
    OverlapNeedsProbe
    BoundedProblem
    EvaluatorAndGuardAgree
PROPERTIES
    AdvancesOnEvidence
