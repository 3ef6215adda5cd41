----------------------------- MODULE Submission -----------------------------
(***************************************************************************)
(* POST /v1/outreach: the handler create_outreach with create_outreach_job *)
(* (app/core/outreach.py) and the idempotency cache it uses                *)
(* (app/services/cache.py).                                                *)
(*                                                                         *)
(* Any number of handlers run interleaved on the API's event loop(s).      *)
(* Between two awaits of one handler every other handler may run.  Three   *)
(* stores are written one after the other and no transaction spans them:   *)
(* the jobs table (Postgres), the idempotency cache (Redis) and the ARQ    *)
(* queue (Redis).                                                          *)
(*                                                                         *)
(* A handler creates at most one job and the ids are fresh (uuid4), so a   *)
(* job is named by the request that created it.                            *)
(***************************************************************************)
EXTENDS Integers

CONSTANTS
    Requests,       \* the HTTP requests, each handled once
    Prospects,      \* (domain, person) pairs, normalised as the key does
    WeekLength,     \* clock ticks in an ISO week
    IdempotencyTTL, \* settings.idempotency_ttl_seconds, in ticks
    NoJob,          \* Python's None for a job id
    MaxWeeks,       \* bound: weeks the clock runs through
    MaxFaults,      \* bound: awaits that raise, or handlers killed
    MaxLosses       \* bound: times Redis comes back empty

ASSUME WeekAssumption == WeekLength \in Nat \ {0}
ASSUME TTLAssumption == IdempotencyTTL \in Nat /\ IdempotencyTTL >= WeekLength
ASSUME NoJobAssumption == NoJob \notin Requests
ASSUME BoundsAssumption ==
    MaxWeeks \in Nat /\ MaxFaults \in Nat /\ MaxLosses \in Nat

VARIABLES
    week, tick,     \* the UTC clock: ISO week, tick within the week
    jobs,           \* the jobs table: rows [id, key]
    cache,          \* idempotency entries [key, job, life], life = remaining TTL
    queue,          \* ARQ jobs enqueued and not lost
    pc,             \* where each handler stands
    key,            \* the handler's idemp_key
    job,            \* the handler's job (cached_job_id until it is loaded)
    reply,          \* status code answered, 0 before the answer
    faults, losses  \* how many of each have happened

stores == <<jobs, cache, queue>>
clock == <<week, tick>>
budget == <<faults, losses>>
vars == <<clock, stores, pc, key, job, reply, budget>>

\* hash of (domain, person, ISO year, ISO week)
Keys == [prospect : Prospects, week : Nat]
NoKey == [prospect |-> NoJob, week |-> 0]

JobRow(id, k) == [id |-> id, key |-> k]
KeyTaken(k) == \E row \in jobs : row.key = k
EntriesFor(k) == {e \in cache : e.key = k}

InFlight(r) == pc[r] \notin {"idle", "done"}
Created(r) == job[r] = r
Created202(r) == reply[r] = 202
Answered(r) == reply[r] \in {200, 202}

Goto(r, label) == pc' = [pc EXCEPT ![r] = label]
Answer(r, code) ==
    /\ reply' = [reply EXCEPT ![r] = code]
    /\ Goto(r, "done")

-----------------------------------------------------------------------------
Init ==
    /\ week = 0 /\ tick = 0
    /\ jobs = {} /\ cache = {} /\ queue = {}
    /\ pc = [r \in Requests |-> "idle"]
    /\ key = [r \in Requests |-> NoKey]
    /\ job = [r \in Requests |-> NoJob]
    /\ reply = [r \in Requests |-> 0]
    /\ faults = 0 /\ losses = 0

\* compute_idempotency_key: the week is read once, before the first await
Receive(r, p) ==
    /\ pc[r] = "idle"
    /\ key' = [key EXCEPT ![r] = [prospect |-> p, week |-> week]]
    /\ Goto(r, "lookup")
    /\ UNCHANGED <<clock, stores, job, reply, budget>>

\* get_cached_job_id: one Redis GET
Lookup(r) ==
    /\ pc[r] = "lookup"
    /\ \/ /\ EntriesFor(key[r]) = {}
          /\ Goto(r, "insert")
          /\ UNCHANGED job
       \/ \E e \in EntriesFor(key[r]) :
             /\ job' = [job EXCEPT ![r] = e.job]
             /\ Goto(r, "load")
    /\ UNCHANGED <<clock, stores, key, reply, budget>>

\* SELECT the cached job; an id without a row falls through to the insert
LoadCached(r) ==
    /\ pc[r] = "load"
    /\ IF \E row \in jobs : row.id = job[r]
       THEN Goto(r, "headers") /\ UNCHANGED job
       ELSE Goto(r, "insert") /\ job' = [job EXCEPT ![r] = NoJob]
    /\ UNCHANGED <<clock, stores, key, reply, budget>>

\* Seeded fault: the column is not unique
InsertJobNotUnique(r) ==
    /\ pc[r] = "insert"
    /\ jobs' = jobs \cup {JobRow(r, key[r])}
    /\ job' = [job EXCEPT ![r] = r]
    /\ Goto(r, "remember")
    /\ UNCHANGED <<clock, cache, queue, key, reply, budget>>

\* Seeded fault: the task is enqueued before the row is committed
InsertJobAfterEnqueue(r) ==
    /\ pc[r] = "insert"
    /\ queue' = queue \cup {r}
    /\ IF KeyTaken(key[r])
       THEN Answer(r, 500) /\ UNCHANGED <<jobs, job>>
       ELSE /\ jobs' = jobs \cup {JobRow(r, key[r])}
            /\ job' = [job EXCEPT ![r] = r]
            /\ Goto(r, "remember")
            /\ UNCHANGED reply
    /\ UNCHANGED <<clock, cache, key, budget>>

\* db.add + commit.  Job.idempotency_key is unique: a second row for the key
\* raises IntegrityError, which nothing catches before the 500 handler.
InsertJob(r) ==
    /\ pc[r] = "insert"
    /\ \/ /\ KeyTaken(key[r])
          /\ Answer(r, 500)
          /\ UNCHANGED <<jobs, job>>
       \/ /\ ~KeyTaken(key[r])
          /\ jobs' = jobs \cup {JobRow(r, key[r])}
          /\ job' = [job EXCEPT ![r] = r]
          /\ Goto(r, "remember")
          /\ UNCHANGED reply
    /\ UNCHANGED <<clock, cache, queue, key, budget>>

Remember(r, life, next) ==
    /\ pc[r] = "remember"
    /\ cache' = (cache \ EntriesFor(key[r])) \cup
                {[key |-> key[r], job |-> job[r], life |-> life]}
    /\ Goto(r, next)
    /\ UNCHANGED <<clock, jobs, queue, key, job, reply, budget>>

\* Seeded faults: the TTL is a tick short of the week; the enqueue is skipped
SetIdempotencyShort(r) == Remember(r, WeekLength - 1, "enqueue")
SetIdempotencyOnly(r) == Remember(r, IdempotencyTTL, "headers")

\* set_idempotency: SETEX replaces the value and restarts the TTL
SetIdempotency(r) == Remember(r, IdempotencyTTL, "enqueue")

\* enqueue_job with _job_id "research:<id>"
Enqueue(r) ==
    /\ pc[r] = "enqueue"
    /\ queue' = queue \cup {job[r]}
    /\ Goto(r, "headers")
    /\ UNCHANGED <<clock, jobs, cache, key, job, reply, budget>>

\* get_cost_headers (one more Redis GET), then the JSON response
Respond(r) ==
    /\ pc[r] = "headers"
    /\ Answer(r, IF Created(r) THEN 202 ELSE 200)
    /\ UNCHANGED <<clock, stores, key, job, budget>>

\* Seeded fault: an error at the enqueue is swallowed
FaultSwallowed(r) ==
    /\ pc[r] = "enqueue"
    /\ faults < MaxFaults
    /\ faults' = faults + 1
    /\ Goto(r, "headers")
    /\ UNCHANGED <<clock, stores, key, job, reply, losses>>

\* The pending await raises (store unreachable) or the handler dies with its
\* process: global_exception_handler, or no answer at all.  What earlier
\* awaits wrote stays written.
Fault(r) ==
    /\ InFlight(r)
    /\ faults < MaxFaults
    /\ faults' = faults + 1
    /\ Answer(r, 500)
    /\ UNCHANGED <<clock, stores, key, job, losses>>

\* Redis restarts without its data: docker-compose gives it no volume
RedisLoss ==
    /\ losses < MaxLosses
    /\ losses' = losses + 1
    /\ cache' = {} /\ queue' = {}
    /\ UNCHANGED <<clock, jobs, pc, key, job, reply, faults>>

\* Seeded fault: an expired entry is still served for one more tick
TickLate ==
    /\ week < MaxWeeks
    /\ IF tick + 1 < WeekLength
       THEN tick' = tick + 1 /\ week' = week
       ELSE tick' = 0 /\ week' = week + 1
    /\ cache' = {[e EXCEPT !.life = @ - 1] : e \in {d \in cache : d.life > 0}}
    /\ UNCHANGED <<jobs, queue, pc, key, job, reply, budget>>

\* The clock advances and Redis counts every TTL down, dropping what expired
Tick ==
    /\ week < MaxWeeks
    /\ IF tick + 1 < WeekLength
       THEN tick' = tick + 1 /\ week' = week
       ELSE tick' = 0 /\ week' = week + 1
    /\ cache' = {[e EXCEPT !.life = @ - 1] : e \in {d \in cache : d.life > 1}}
    /\ UNCHANGED <<jobs, queue, pc, key, job, reply, budget>>

-----------------------------------------------------------------------------
Handle(r) ==
    \/ Lookup(r) \/ LoadCached(r) \/ InsertJob(r)
    \/ SetIdempotency(r) \/ Enqueue(r) \/ Respond(r)

Next ==
    \/ \E r \in Requests : Handle(r) \/ Fault(r) \/ \E p \in Prospects : Receive(r, p)
    \/ RedisLoss
    \/ Tick

Spec == Init /\ [][Next]_vars

\* The event loop never abandons a handler that can run
FairSpec == Spec /\ \A r \in Requests : WF_vars(Handle(r))

-----------------------------------------------------------------------------
(* Properties *)

\* Every variable keeps its type.
TypeOK ==
    /\ week \in Nat /\ tick \in 0 .. WeekLength - 1
    /\ jobs \in SUBSET [id : Requests, key : Keys]
    /\ cache \in SUBSET [key : Keys, job : Requests, life : 1 .. IdempotencyTTL]
    /\ queue \in SUBSET Requests
    /\ pc \in [Requests -> {"idle", "lookup", "load", "insert", "remember",
                            "enqueue", "headers", "done"}]
    /\ key \in [Requests -> Keys \cup {NoKey}]
    /\ job \in [Requests -> Requests \cup {NoJob}]
    /\ reply \in [Requests -> {0, 200, 202, 500}]
    /\ faults \in Nat /\ losses \in Nat

\* However submissions of one prospect interleave within a week, and whatever
\* fails, all the clients that get a job id get the same one and one of them
\* at most is told that it was created (create_outreach_job, the unique index
\* on Job.idempotency_key).
OneJobPerProspectAndWeek ==
    \A r, s \in Requests :
        (Answered(r) /\ Answered(s) /\ key[r] = key[s]) =>
            /\ job[r] = job[s]
            /\ (Created202(r) /\ Created202(s)) => r = s

\* The idempotency cache never names a job that the table does not hold under
\* that key: the id is published after the commit.
CacheNeverDangles ==
    \A e \in cache : JobRow(e.job, e.key) \in jobs

\* The queue never holds a job whose row the worker would not find.
QueuedJobsExist ==
    \A j \in queue : \E row \in jobs : row.id = j

\* Row, cache entry and queue entry are written in an order that leaves neither the
\* cache nor the queue ahead of the table, whatever fails between them.
StoresAgree == CacheNeverDangles /\ QueuedJobsExist

\* No job is silently stranded: a row that no worker will ever pick up belongs
\* to a handler still on its way to the queue or to a client that was told of
\* an error - unless Redis lost the queue.
StrandedJobsWereReported ==
    losses = 0 =>
        \A row \in jobs :
            \/ row.id \in queue
            \/ pc[row.id] \in {"remember", "enqueue"}
            \/ reply[row.id] = 500

\* Once a client holds a 202, every resubmission in the same ISO week finds the
\* cached id: the TTL outlives the week the key is made of, however late or
\* early in the week the entry was written.
AcceptedStaysCachedAllWeek ==
    losses = 0 =>
        \A r \in Requests :
            (Created202(r) /\ key[r].week = week) =>
                \E e \in EntriesFor(key[r]) : e.job = r

\* Without faults a job that a client was given an id for is enqueued, the
\* client that hit the cache before the creator's enqueue included.
AnsweredJobsGetQueued ==
    \A r \in Requests : Answered(r) ~> (job[r] \in queue \/ faults + losses > 0)

\* create_outreach_job's docstring, "Create a new outreach job or return cached
\* result": while nothing fails every submission is answered with a job.
CreatesOrReturnsCached ==
    \A r \in Requests : reply[r] # 500
=============================================================================
