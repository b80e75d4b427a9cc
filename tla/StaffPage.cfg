\* One admin's tab, three calls.
CONSTANTS
    q1 = q1
    q2 = q2
    q3 = q3
    f1 = f1
    None = None
    Ids = {q1, q2, q3}
    Edited = q1
    Fit = "fit"
    FieldsOf <- MCFieldsOf
    Values = {0, 1}
    Method = "method"
    Alignment = 0
    Place = "place"
    Sections = "sections"
    NoSection = 1
    Files = {f1}
    Errands <- MCErrands
    MaxOthers = 1
SPECIFICATION Spec
INVARIANTS
    PageIsTrue
    LastMoveShows
    NothingTypedIsLost
    ImportsWhatWasChecked
CHECK_DEADLOCK FALSE
