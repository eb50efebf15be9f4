SPECIFICATION MCFairSpec
CONSTANTS
    Workers = {w1, w2, w3}
    Main = main
    Tasks <- MCTasks
    NoTask = NoTask
    NoThread = NoThread
    Admission = "wait"
    InitialShutdown = {0}
    MaxSpurious = 1
    Commands <- MCCommands
    CommandBound = 2
    TaskBound = 4
    WorkerCounts = {1, 3}
    Kinds = {"circle", "hello"}
INVARIANTS
    TotalIsComplete
    NoUseAfterFree
PROPERTIES
    EveryCommandAnswered
    ProgramEnds
