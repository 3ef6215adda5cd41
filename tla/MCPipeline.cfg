\* Two jobs of one key on a worker with two slots; two crashes, or one and a fault.
SPECIFICATION Spec
CONSTANTS
    j1 = j1
    j2 = j2
    k1 = k1
    Jobs = {j1, j2}
    Keys = {k1}
    KeyOf <- OneKey
    WithWebhook = {j1}
    Slots = 2
    MaxTries = 2
    KeyLimit = 5
    MaxCost = 3
    Costs = {3}
    Grain = 2
    PostAttempts = 2
    ArqFirst = TRUE
    MaxKills = 2
    MaxFaults = 1
    MaxTroubles = 2
INVARIANTS
    TypeOK
    CompletedCoherent
    OvershootBounded
    DeliveryIsOfTheResult
    NotifiedAfterPersist
    AnnouncedIsReadable
PROPERTY ImplementsWorker
\* Every job ends, and then the model stops.
CHECK_DEADLOCK FALSE
