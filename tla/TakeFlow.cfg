\* One test of a link, on a bad connection.
CONSTANTS
    t1 = t1
    t2 = t2
    q1 = q1
    q2 = q2
    o1 = o1
    o2 = o2
    None = None
    Tests = {t1}
    Questions = {q1}
    Options = {o1, o2}
    Tries = 2
    MaxSaves = 2
    MaxHandIns = 1
    Visits <- MCVisits
SPECIFICATION Spec
INVARIANTS
    NothingDropped
    DoneIsTrue
PROPERTIES
    SavesInOrder
    HandInIsComplete
    TimerHandsIn
CHECK_DEADLOCK FALSE
