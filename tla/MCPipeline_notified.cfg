\* One job, no crash, no fault: the overall timeout strikes the webhook stage.
SPECIFICATION Spec
CONSTANTS
    j1 = j1
    j2 = j2
    k1 = k1
    Jobs = {j1}
    Keys = {k1}
    KeyOf <- OneKey
    WithWebhook = {j1}
    Slots = 2
    MaxTries = 2
    KeyLimit = 6
    MaxCost = 3
    Costs = {3}
    Grain = 2
    PostAttempts = 2
    ArqFirst = FALSE
    MaxKills = 0
    MaxFaults = 0
    MaxTroubles = 2
INVARIANT NotifiedMeansCompleted
\* Every job ends, and then the model stops.
CHECK_DEADLOCK FALSE
