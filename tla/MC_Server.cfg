SPECIFICATION ServerSpec
CONSTANTS
    NULL = NULL
    home = home
    A = A
    deck = deck
    same = same
    x = x
    y = y
    LF = LF
    CR = CR
    Missing = Missing
    Meta = Meta
    DecksMeta = DecksMeta
    Dir = {home, A, deck}
    Name = {same}
    Child <- MCChild
    Start = home
    Removable = {deck}
    Unreadable = {}
    Unsearchable = {}
    AllocOutcome = {TRUE}
    MaxDepth = 2
    GitFile = {Meta, DecksMeta}
    InitialDisk <- MCDisk
    GitOutcome = {TRUE, FALSE}
    MaxCalls = 2
    MaxChanges = 1
    MaxEvents = 3
    Client = {1, 2}
    DocumentRoots <- MCRoots
    Decks <- MCDecks
    InitialStudy <- MCStudy
    Edits <- MCEdits
    CARD_ID_MAX = 3
    LogOutcome = {TRUE, FALSE}
    MaxRequests = 2
INVARIANTS
    ServerTypeOK
    ServesItsRoot
    ExitsClean
PROPERTIES
    AnswersTheNamedLine
    RequestsEnd
CHECK_DEADLOCK FALSE
