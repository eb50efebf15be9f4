SPECIFICATION Spec
CONSTANTS
    Family = 2
    Clerks <- OfficeOfFour
    Subordinates <- OfficeTree
    MaxUserSignals = 2
    Limit = 3
    Burst = 2
    Rounds = 2
    P = 2
    Issues = {0, 200}
INVARIANTS
    LeaveBottomUp
    AnswersOnlyWaiting
    ResultsComplete
    OneBallInPlay
PROPERTIES
    WaitersLeave
    StudentsAnswered
CHECK_DEADLOCK FALSE
