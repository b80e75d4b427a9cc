\* Staff accounts: two calls at once on one account, which only the
\* command line can invite (its owner is the only one who could be signed in).
CONSTANTS
    u1 = u1
    l1 = l1
    l2 = l2
    s1 = s1
    s2 = s2
    p1 = p1
    p2 = p2
    c1 = c1
    c2 = c2
    None = None
    Users = {u1}
    Links = {l1, l2}
    Sids = {s1, s2}
    Passwords = {p1, p2}
    RolesOffered = {}
    Calls = {c1, c2}
    InviteTTL = 1
    ResetTTL = 1
    IdleTTL = 2
    Absolute = 3
    Renew = 1
    MaxTime = 2
SYMMETRY Symmetric
SPECIFICATION Spec
INVARIANTS
    OneInvitation
    EndsInTime
PROPERTIES
    EndedStaysEnded
    ImplementsAccount
CHECK_DEADLOCK FALSE
