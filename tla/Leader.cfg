SPECIFICATION Spec
CONSTANTS
    Pods = {p1, p2, p3}
    Nobody = Nobody
    LeaseDuration = 3
    RenewDeadline = 2
INVARIANTS
    IInv
    StaleOnlyWhenEnded
