CONSTANTS
    root = root
    deck = deck
    cards = cards
    sealed = sealed
    nDeck = nDeck
    nCards = nCards
    nSealed = nSealed
    note = note
    NULL = NULL
    Dir <- MCDir
    Name <- MCName
    Child <- MCChild
    FileName = {note}
    Files <- MCFiles
    Start = root
    Removable = {deck, cards}
    Unsearchable = {sealed}
    Unreadable = {}
    AllocOutcome = {TRUE}
    MaxDepth = 4
    IterateArgs = {root, deck, nSealed, note}
    Actions = {"RECURSE"}
    ReadOutcome = {TRUE}
    CallerDepth = 1
    SizeModulus = 16
SPECIFICATION WalkSpec
PROPERTIES TrueMeansRestored
CHECK_DEADLOCK FALSE
