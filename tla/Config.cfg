SPECIFICATION FairSpec
CONSTANTS
    Nil = Nil
    NoName = NoName
    c1 = c1
    c2 = c2
    d1 = d1
    d2 = d2
    Files <- SomeFiles
    Settings <- SomeSettings
    Drivers <- TwoDrivers
    MaxEdits = 3
INVARIANTS
    IInv
    PanicOnlyOnOverlap
    FieldsFollowFiles
    FindersAgree
PROPERTY
    ChangesAdopted
CHECK_DEADLOCK FALSE
