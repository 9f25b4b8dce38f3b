SPECIFICATION FairSpec
CONSTANTS
    Kinds <- SharedFlag
    Settings <- Allowed
    MinTick = 5
    MaxTick = 600
    Cancellable = FALSE
    Prometheus = FALSE
CHECK_DEADLOCK FALSE
PROPERTIES
    ErrorsEndRun
    NoStarvation
    IntervalsAdopted
