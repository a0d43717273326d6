\* Two clients write a file back and forth, with a death and an edit by another program.
SPECIFICATION Spec
CONSTANTS
    k1 = k1
    k2 = k2
    t1 = t1
    t2 = t2
    v0 = v0
    v1 = v1
    c1 = c1
    c2 = c2
    None = None
    Clients = {c1, c2}
    Keys = {k1, k2}
    Paths = {t1}
    Contents = {v0, v1}
    Requests <- BackAndForth
    MaxCalls = 4
    MaxCrashes = 1
    MaxEdits = 1
SYMMETRY Symmetry
INVARIANTS
    ComparesBeforeSwap
    FailedNeverWrote
    
PROPERTIES
    OutcomeFinal
