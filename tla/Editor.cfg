\* Every pair of overlapping edits, from every sound test of up to two questions.
CONSTANTS
    c1 = c1
    c2 = c2
    q1 = q1
    q2 = q2
    n1 = n1
    n2 = n2
    m1 = m1
    m2 = m2
    b1 = b1
    f1 = f1
    o1 = o1
    Calls = {c1, c2}
    Old = {q1, q2}
    Given = {o1}
    Minimums = {b1}
    Uploaded = {f1}
    Names = {n1, n2}
    Methods = {m1, m2}
    MaxQuestions = 3
    MaxSections = 2
    MaxRows = 2
    MaxPlace = 2
SPECIFICATION Spec
SYMMETRY Symmetry
INVARIANTS
    OptionsAreOneSave
    LimitsNearlyHold
    RecordsHaveFiles
PROPERTIES
    KeepsSound
CHECK_DEADLOCK FALSE
