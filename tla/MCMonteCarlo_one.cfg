SPECIFICATION MCFairSpec
CONSTANTS
    Workers = {w1}
    Main = main
    Tasks <- MCTasks
    NoTask = NoTask
    NoThread = NoThread
    Admission = "wait"
    InitialShutdown = {0}
    MaxSpurious = 0
    Commands <- MCCommands
    CommandBound = 1
    TaskBound = 2
    WorkerCounts = {1}
    Kinds = {"circle"}
PROPERTIES
    EveryCommandAnswered
CHECK_DEADLOCK FALSE
