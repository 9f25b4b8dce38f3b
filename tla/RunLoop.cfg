SPECIFICATION Spec
CONSTANTS
    Kinds <- OwnFlags
    Settings <- ZeroOr20
    MinTick = 5
    MaxTick = 600
    Cancellable = TRUE
    Prometheus = TRUE
CHECK_DEADLOCK FALSE
INVARIANTS
    NilOnlyWhenCancelled
    ReturnsOnlyStopped
    IInv
