SPECIFICATION FairSpec
CONSTANTS
    Workers = {w1, w2, w3}
    Main = main
    Tasks = {t1, t2, t3, t4}
    NoTask = NoTask
    NoThread = NoThread
    Admission = "wait"
    InitialShutdown = {0}
    MaxSpurious = 1
INVARIANTS
    SlotAccounting
    NoLostWakeup
    NothingLostAtExit
PROPERTIES
    ImplementsWorkQueue
    EveryTaskSettled
