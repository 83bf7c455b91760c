SPECIFICATION FilesSpec
CONSTANTS
    Sep = "/"
    Args <- MCArgs
    Cwds <- MCCwds
    Ext <- MCExt
    Texts <- MCTexts
    InitialTrees <- MCTrees
    Shared <- MCShared
    Sizes = {0, 2, 4, 9}
    Outcome = {TRUE, FALSE}
    MaxOps = 2
    MaxChanges = 1
INVARIANTS
    FilesInv
    CreatesWhatItSays
    PathsLeadWhereNamed
PROPERTIES
    ClimbsByOneName
    FilesReturn
CHECK_DEADLOCK FALSE
