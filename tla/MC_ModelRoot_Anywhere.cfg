SPECIFICATION ModelSpec
CONSTANTS
    NULL = NULL
    home = home
    A = A
    deck = deck
    same = same
    Meta = Meta
    DecksMeta = DecksMeta
    Dir = {home, A, deck}
    Name = {same}
    Child <- MCChild
    Start = home
    Removable = {deck}
    Unreadable = {}
    Unsearchable = {}
    AllocOutcome = {TRUE}
    MaxDepth = 2
    GitFile = {Meta, DecksMeta}
    InitialDisk <- MCDisk
    GitOutcome = {TRUE, FALSE}
    MaxCalls = 2
    MaxChanges = 0
    MaxEvents = 4
INVARIANTS
    ExistsFromAnywhere
CHECK_DEADLOCK FALSE
