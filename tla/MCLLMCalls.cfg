\* Two callers; two failures in the window open the breaker; three completions.
SPECIFICATION FairCallsSpec
CONSTANTS
    Callers = {c1, c2}
    Threshold = 2
    Recovery = 1
    Window = 2
    MaxAttempts = 3
    SchemaAttempts = 3
INVARIANTS
    CallTypes
    RequestsBounded
PROPERTIES
    ImplementsNamedCall
    CallsEnd
