SPECIFICATION StagesSpec
CONSTANTS
    Workers = {w1, w2, w3}
    Main = main
    Tasks <- MCTasks
    NoTask = NoTask
    NoThread = NoThread
    Admission = "try"
    InitialShutdown = {0}
    MaxSpurious = 1
    SpuriousStages = {2}
    Commands <- MCCommands
    CommandBound = 3
    TaskBound = 2
    WorkerCounts = {1}
    Kinds = {"circle", "hello"}
INVARIANTS
    TaskConservation
PROPERTIES
    AcceptedCommandAnswered
CHECK_DEADLOCK FALSE
