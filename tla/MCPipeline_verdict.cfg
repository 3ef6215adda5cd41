\* One slot for two jobs; fewer crashes than tries, no fault in a handler.
SPECIFICATION FairSpec
CONSTANTS
    j1 = j1
    j2 = j2
    k1 = k1
    Jobs = {j1, j2}
    Keys = {k1}
    KeyOf <- OneKey
    WithWebhook = {j1}
    Slots = 1
    MaxTries = 2
    KeyLimit = 6
    MaxCost = 3
    Costs = {3}
    Grain = 2
    PostAttempts = 2
    ArqFirst = FALSE
    MaxKills = 1
    MaxFaults = 0
    MaxTroubles = 2
PROPERTY EveryJobEnds
\* Every job ends, and then the model stops.
CHECK_DEADLOCK FALSE
