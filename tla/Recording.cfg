SPECIFICATION FairSpec
CONSTANTS
    Calls <- Workers
    Ids <- Handles
    Values <- Claims
INVARIANTS
    OwnLabels
    NothingAfterReturn
    ObservedBeforeReturn
    IInv
PROPERTY
    RecordReturns
