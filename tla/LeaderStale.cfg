SPECIFICATION Spec
CONSTANTS
    Pods = {p1, p2}
    Nobody = Nobody
    LeaseDuration = 3
    RenewDeadline = 2
INVARIANT
    AtMostOneLeader
