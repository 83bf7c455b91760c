CONSTANTS
    root = root
    deck = deck
    cards = cards
    sealed = sealed
    nDeck = nDeck
    nCards = nCards
    nSealed = nSealed
    NULL = NULL
    Dir <- MCDir
    Name <- MCName
    Child <- MCChild
    Start = root
    Removable = {deck, cards}
    Unreadable = {}
    Unsearchable = {sealed}
    AllocOutcome = {TRUE, FALSE}
    MaxDepth = 3
SPECIFICATION Spec
INVARIANTS CacheCoherent NoResidue Bracketed
PROPERTIES PopReturnsToOwed OperationsReturn
CHECK_DEADLOCK FALSE
