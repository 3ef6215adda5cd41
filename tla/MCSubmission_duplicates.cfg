\* Nothing fails, yet concurrent duplicates are answered 500.
SPECIFICATION Spec
CONSTANTS
    Requests = {r1, r2, r3}
    Prospects = {p1, p2}
    WeekLength = 2
    IdempotencyTTL = 2
    NoJob = NoJob
    MaxWeeks = 0
    MaxFaults = 0
    MaxLosses = 0
SYMMETRY Symmetry
INVARIANT CreatesOrReturnsCached
\* The set of requests is finite: when all are answered the model stops.
CHECK_DEADLOCK FALSE
