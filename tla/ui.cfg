SPECIFICATION Spec
CONSTANTS
    Texts <- MCTexts
    MaxY = 3
    MaxX = 4
    PageKeys = 2
    SearchMargin = 2
    PromptLen = 3
    DebugLen = 4
    NcursesSize = 9
    Screens = {3, 5, 6}
    Counts = {1, 3}
    MinContentHeight = 1
    Total = 1
    MaxSaid = 2
    MaxKeys = 2
INVARIANTS
    CursorFollowed
    UserAnswers
    TilesStand
PROPERTIES
    EverythingShown
    QuitEnds
CHECK_DEADLOCK FALSE
