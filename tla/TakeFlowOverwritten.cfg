\* A failed save of an answer the candidate has since changed is tried again.
CONSTANTS
    t1 = t1
    t2 = t2
    q1 = q1
    q2 = q2
    o1 = o1
    o2 = o2
    None = None
    Tests = {t1}
    Questions = {q1}
    Options = {o1, o2}
    Tries = 2
    MaxSaves = 2
    MaxHandIns = 1
    Visits <- MCVisits
SPECIFICATION Spec
INVARIANTS
    SavedIsLastChoice
CHECK_DEADLOCK FALSE
