\* A run reviewed by the conversation or directly, two failures (crashes, refusals, new bindings).
SPECIFICATION FairSpec
CONSTANTS
    b1 = b1  b2 = b2
    t1 = t1  t2 = t2
    None = None
    NRuns = 1
    Bindings = {b1, b2}
    Tabs = {t1, t2}
    TabOf <- BothFirst
    MaxAttempts = 2
    MaxFailures = 2
INVARIANTS
    OneReviewer
PROPERTIES
    FailoverEnds
    AnswersConsumed
