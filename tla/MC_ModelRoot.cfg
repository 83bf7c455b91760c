SPECIFICATION ModelSpec
CONSTANTS
    NULL = NULL
    home = home
    A = A
    deck = deck
    same = same
    Meta = Meta
    DecksMeta = DecksMeta
    Dir = {home, A, deck}
    Name = {same}
    Child <- MCChild
    Start = home
    Removable = {deck}
    Unreadable = {}
    Unsearchable = {}
    AllocOutcome = {TRUE}
    MaxDepth = 2
    GitFile = {Meta, DecksMeta}
    InitialDisk <- MCDisk
    GitOutcome = {TRUE, FALSE}
    MaxCalls = 3
    MaxChanges = 2
    MaxEvents = 4
INVARIANTS
    GitInv
    RootIsOpenRepo
    ModelRestores
    SetOpensWhatWasNamed
    ExistsMeansBelow
PROPERTIES
    ModelReturns
CHECK_DEADLOCK FALSE
