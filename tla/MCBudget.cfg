\* Three requests of one key, whose ceiling is above the worker's limit, two
\* slots, one midnight or restart of Redis, one run lost; a call costs more
\* than the micro-dollar that its truncation leaves.
SPECIFICATION Spec
CONSTANTS
    k = k
    Requests = {r1, r2, r3}
    Keys = {k}
    Ceiling <- HighCeiling
    DefaultLimit = 4
    Slots = 2
    Calls = 2
    MaxCost = 9
    Costs = {9}
    Grain = 8
    MaxDeaths = 1
    MaxResets = 1
SYMMETRY Symmetry
INVARIANTS
    TypeOK
    RevokedIsRefused
    DailyOvershootBounded
    GlobalAheadBounded
    SpendIsCounted
\* The set of requests is finite: when all are done the model stops.
CHECK_DEADLOCK FALSE
