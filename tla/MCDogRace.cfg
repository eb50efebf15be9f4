SPECIFICATION FairSpec
CONSTANTS
    Dogs = {d1, d2, d3}
    Length = 4
    MaxJump = 2
    Main = main
    Nobody = nobody
INVARIANTS
    CellExclusive
    SnapshotConsistent
    NoLockLeftBehind
    PodiumSound
PROPERTIES
    RaceEnds
    ImplementsRace
