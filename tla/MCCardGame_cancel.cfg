SPECIFICATION CancelSpec
CONSTANTS
    N = 4
    Hearts = {h1, h2, h3, h4}
    Spades = {}
    Cards <- MCCards
    Suit <- MCSuit
    HandSize = 1
    NoCard = NoCard
    NoPlayer = NoPlayer
PROPERTIES
    SigintEndsLobby
CHECK_DEADLOCK FALSE
