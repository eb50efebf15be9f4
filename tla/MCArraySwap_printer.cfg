SPECIFICATION Spec
CONSTANTS
    N = 4
    P = 2
    Swappers = {s1, s2}
    Printers = {p1}
    Nobody = Nobody
    Swaps = 2
    Prints = 1
    Budget <- MCBudget
SYMMETRY Symmetry
INVARIANTS
    NoUseAfterFree
