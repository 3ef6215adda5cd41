\* Two clients, the first with a webhook, one prospect, one week boundary; a
\* fault, a loss of Redis, a run without verdict, or two workers that die.
SPECIFICATION FairServiceSpec
CONSTANTS
    Requests = {r1, r2}
    Prospects = {p1}
    WithWebhook = {r1}
    Raters = {r2}
    WeekLength = 1
    IdempotencyTTL = 1
    NoJob = NoJob
    MaxWeeks = 1
    MaxFaults = 1
    MaxLosses = 1
    MaxTries = 2
    MaxCrashes = 2
    MaxTroubles = 2
INVARIANTS
    ServiceTypes
    ReadersAgree
    RatingsAreOfCompletions
PROPERTY ClientsLearn
\* Requests and faults are finite: when all are answered the model stops.
CHECK_DEADLOCK FALSE
