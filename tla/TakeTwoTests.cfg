\* Two overlapping requests on a link with two tests.
CONSTANTS
    a1 = a1
    a2 = a2
    q1 = q1
    o1 = o1
    o2 = o2
    r1 = r1
    r2 = r2
    None = None
    Offered <- MCOffered
    Duration <- MCDuration
    Grace = 1
    LinkExpiry = 2
    Attempts = {a1, a2}
    Questions = {}
    Options = {o1}
    Layouts = {"L1"}
    Requests = {r1, r2}
    Lag = 1
    MaxTime = 4
SPECIFICATION Spec
SYMMETRY Symmetric
INVARIANTS
    ClockIsKept
    RepliesAreTrue
PROPERTIES
    ResultIsFinal
    ImplementsLife
