SPECIFICATION StagesSpec
CONSTANTS
    N = 4
    P = 2
    Swappers = {s1, s2}
    Printers = {p1}
    Nobody = Nobody
    Swaps = 3
    Prints = 1
    Budget <- MCBudget
INVARIANTS
    NothingLost
    StagesCountIsExact
    NoSwapperAfterCleanup
PROPERTIES
    LockingEnds
    ImplementsInversions
