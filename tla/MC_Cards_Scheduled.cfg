CONSTANTS
    home = home
    root = root
    deck = deck
    cards = cards
    c1 = c1
    c2 = c2
    nRoot = nRoot
    nDeck = nDeck
    nCards = nCards
    n1 = n1
    n2 = n2
    NULL = NULL
    Garbage = Garbage
    Missing = Missing
    Dir <- MCDir
    Name <- MCName
    Child <- MCChild
    FileName = {}
    Files <- NoPlainFiles
    Start = home
    Removable = {}
    Unsearchable = {}
    Unreadable = {}
    AllocOutcome = {TRUE}
    MaxDepth = 8
    IterateArgs = {nCards}
    Actions = {"CONTINUE"}
    ReadOutcome = {TRUE}
    CallerDepth = 1
    SizeModulus = 16
    Root = root
    DeckName = nDeck
    CardsName = nCards
    CallerPaths = {deck}
    InitialFiles <- MCInitialFiles
    Moments <- MCMoments
    FileOutcome = {TRUE}
    Editable = {}
    EditorWrites = {}
    MaxEdits = 0
    MaxCalls = 2
SPECIFICATION MCSpec
INVARIANT ScheduledIsRemembered
CHECK_DEADLOCK FALSE
