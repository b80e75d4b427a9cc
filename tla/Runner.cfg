\* A test's questions one at a time, for candidates and in the preview.
CONSTANTS
    q1 = q1
    q2 = q2
    q3 = q3
    o1 = o1
    o2 = o2
    None = None
    Questions = {q1, q2, q3}
    Options = {o1, o2}
    Visits <- MCVisits
    Replays = 1
SPECIFICATION Spec
INVARIANTS
    EveryQuestionCame
    ScoreIsOfLastHandIn
    ClipsPlayAsOften
PROPERTIES
    NoWayBack
CHECK_DEADLOCK FALSE
