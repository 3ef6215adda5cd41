\* Two jobs of two domains, two fetches each; a call of Redis fails, and the overall
\* timeout may end the fetches of the first job.
SPECIFICATION Spec
CONSTANTS
    j1 = j1
    j2 = j2
    Jobs = {j1, j2}
    Types = {"news", "profile"}
    Domain <- TwoDomains
    Person <- TwoPersons
    Nothing = Nothing
    MaxFaults = 1
    Slow = {j1}
INVARIANTS
    TypeOK
    SignalsInPlace
    SavedJobsAreTraced
    OnlyReadsFailTheJob
    OnlyCollisionsLoseTheVerdict
\* When all jobs have left the stage the model stops.
CHECK_DEADLOCK FALSE
