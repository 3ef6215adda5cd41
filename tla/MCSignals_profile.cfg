\* Two people of one domain.
SPECIFICATION Spec
CONSTANTS
    j1 = j1
    j2 = j2
    Jobs = {j1, j2}
    Types = {"profile"}
    Domain <- OneDomain
    Person <- TwoPersons
    Nothing = Nothing
    MaxFaults = 0
    Slow = {}
INVARIANTS
    ProfileIsOfThePerson
\* When all jobs have left the stage the model stops.
CHECK_DEADLOCK FALSE
