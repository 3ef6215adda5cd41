\* Three callers, a threshold of three failures, a window longer than the recovery.
SPECIFICATION FairSpec
CONSTANTS
    Callers = {c1, c2, c3}
    Threshold = 3
    Recovery = 1
    Window = 3
    MaxAttempts = 3
INVARIANTS
    TypeOK
    ClosedBelowThreshold
    CooldownHolds
PROPERTIES
    NoRequestDuringCooldown
    BreakerRecovers
