\* One question from the form or a document to its score.
CONSTANTS
    None = None
    MaxChoices = 3
    MaxPoints = 4
    DefaultPoints = 3
    NewChoices = 2
    NewScaleChoices = 3
    MaxValue = 4
    Weights = {0, 1, 2}
    Minimums <- MCMinimums
    Marks = {"!", "?"}
    MaxSections = 2
    MaxQuestions = 2
    Names <- MCNames
    Files = {"x", "y"}
    MaxFiles = 2
    Headers <- MCHeaders
    Pieces <- MCPieces
    MaxPieces = 2
    MaxRows = 2
    Columns <- MCColumns
    Stem <- MCStem
SPECIFICATION AuthoringSpec
INVARIANTS
    EditorAgrees
    ScoresAreFair
    LayoutsAreFair
    CopyKeepsTest
    CsvKeepsTest
CHECK_DEADLOCK FALSE
