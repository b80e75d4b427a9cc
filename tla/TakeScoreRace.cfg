\* An answer saved between the closing read and the closing update.
CONSTANTS
    a1 = a1
    a2 = a2
    q1 = q1
    o1 = o1
    o2 = o2
    r1 = r1
    r2 = r2
    None = None
    Offered <- MCOffered
    Duration <- MCDuration
    Grace = 1
    LinkExpiry = 2
    Attempts = {a1}
    Questions = {q1}
    Options = {o1}
    Layouts = {"L1"}
    Requests = {r1, r2}
    Lag = 1
    MaxTime = 4
SPECIFICATION Spec
INVARIANTS
    ScoreIsOfStoredAnswers
