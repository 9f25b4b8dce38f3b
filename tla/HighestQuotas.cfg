SPECIFICATION FairSpec
CONSTANTS
    ifs = ifs
    a = a
    b = b
    Names <- Components
    Lists <- SmallLists
CHECK_DEADLOCK FALSE
INVARIANTS
    ReturnsHighest
    TotalCountsOnce
    IInv
PROPERTY
    LoopsEnd
