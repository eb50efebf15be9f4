SPECIFICATION Spec
CONSTANTS
    N = 3
    M = 2
    K = 3
    DataSizes = {1, 5}
    Rounds = 2
    Faces = 2
    FS_NUM = 2
    MaxRequests = 3
INVARIANTS
    LinesPrinted
    AllOrNothing
    CellsCountedOnce
    RollsOfOneRound
    SlotsBalance
    ReadsWereRequested
PROPERTY JoinsReturn
CHECK_DEADLOCK FALSE
