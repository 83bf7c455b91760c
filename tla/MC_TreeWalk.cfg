CONSTANTS
    root = root
    deck = deck
    cards = cards
    sealed = sealed
    nDeck = nDeck
    nCards = nCards
    nSealed = nSealed
    note = note
    NULL = NULL
    Dir <- MCDir
    Name <- MCName
    Child <- MCChild
    FileName = {note}
    Files <- MCFiles
    Start = root
    Removable = {}
    Unsearchable = {}
    Unreadable = {}
    AllocOutcome = {TRUE}
    MaxDepth = 5
    IterateArgs = {root, deck}
    Actions = {"RECURSE", "CONTINUE", "STOP", "EXIT"}
    ReadOutcome = {TRUE, FALSE}
    CallerDepth = 1
    SizeModulus = 16
SPECIFICATION WalkSpec
INVARIANTS WalkInv CwdRestored WholeTreeVisited
PROPERTIES WalkReturns VisitedOnce
CHECK_DEADLOCK FALSE
