\* Two jobs of three stages each, one run lost with its worker, two writes that fail.
SPECIFICATION Spec
CONSTANTS
    Jobs = {j1, j2}
    Stages = 3
    Paid = {1, 2}
    Saved = {1, 3}
    MaxTries = 2
    MaxKills = 1
    MaxFaults = 2
SYMMETRY Symmetry
INVARIANTS
    TypeOK
    CompletedIsTraced
    FileIsAhead
\* When every job is finished the model stops.
CHECK_DEADLOCK FALSE
