SPECIFICATION StagesSpec
CONSTANTS
    N = 4
    Hearts = {h1, h2, h3, h4}
    Spades = {s1, s2, s3, s4}
    Cards <- MCCards
    Suit <- MCSuit
    HandSize = 2
    NoCard = NoCard
    NoPlayer = NoPlayer
SYMMETRY Symmetry
INVARIANTS
    CardsConserved
    NobodyLeftBehind
    BarrierAligned
    LobbyMatchesTable
PROPERTIES
    ImplementsCardTable
CHECK_DEADLOCK FALSE
