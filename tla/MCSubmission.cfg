\* Three submissions, two prospects, one week boundary, one fault, one loss of Redis.
SPECIFICATION FairSpec
CONSTANTS
    Requests = {r1, r2, r3}
    Prospects = {p1, p2}
    WeekLength = 2
    IdempotencyTTL = 2
    NoJob = NoJob
    MaxWeeks = 1
    MaxFaults = 1
    MaxLosses = 1
INVARIANTS
    TypeOK
    OneJobPerProspectAndWeek
    StoresAgree
    StrandedJobsWereReported
    AcceptedStaysCachedAllWeek
PROPERTY AnsweredJobsGetQueued
\* The set of requests is finite: when all are answered the model stops.
CHECK_DEADLOCK FALSE
