\* Two staff requests at a time on one link.
CONSTANTS
    l1 = l1
    l2 = l2
    t1 = t1
    t2 = t2
    r1 = r1
    r2 = r2
    None = None
    Contents = {"ready", "draft"}
    Sendable = {"ready"}
    Links = {l1}
    Tests = {t1}
    Requests = {r1, r2}
    Lives = {2}
    DefaultLife = 1
    Duration = 1
    Grace = 0
    MaxTokens = 3
    MaxTime = 2
SPECIFICATION Spec
SYMMETRY Symmetric
INVARIANTS
    MailTellsExpiry
    SnapshotsSendable
    ExpiredIsShut
PROPERTIES
    RevokeSticks
    ResendReopens
CHECK_DEADLOCK FALSE
