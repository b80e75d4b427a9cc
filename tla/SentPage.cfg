\* One staff tab, two links, two calls.
CONSTANTS
    t1 = t1
    t2 = t2
    c1 = c1
    None = None
    Tests = {t1, t2}
    People = {c1}
    MaxLinks = 2
    RECENT_RESULTS = 1
    Errands <- MCErrands
SPECIFICATION Spec
INVARIANTS
    OwnCallsShow
PROPERTIES
    EndedStaysShown
    ResultsCatchUp
CHECK_DEADLOCK FALSE
