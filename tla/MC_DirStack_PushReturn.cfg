CONSTANTS
    root = root
    deck = deck
    cards = cards
    sealed = sealed
    nDeck = nDeck
    nCards = nCards
    nSealed = nSealed
    NULL = NULL
    Dir <- MCDir
    Name <- MCName
    Child <- MCChild
    Start = root
    Removable = {}
    Unreadable = {}
    Unsearchable = {sealed}
    AllocOutcome = {TRUE}
    MaxDepth = 3
SPECIFICATION Spec
PROPERTY PushReportsFailure
CHECK_DEADLOCK FALSE
