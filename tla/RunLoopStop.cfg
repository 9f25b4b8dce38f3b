SPECIFICATION Spec
CONSTANTS
    Kinds <- OwnFlags
    Settings <- Allowed
    MinTick = 5
    MaxTick = 600
    Cancellable = FALSE
    Prometheus = FALSE
CHECK_DEADLOCK FALSE
INVARIANT
    ErrorsAreReturned
