# Formal models of the Sales Outreach API

TLA+ models of the asynchronous core of this repository: what happens between
`POST /v1/outreach`, the Redis queue, the ARQ worker, the LLM provider, the
webhook subscriber and `GET /v1/outreach/{job_id}`. TLC checks the models on
small instances, and TLAPS proves the most important safety properties for
every value of the constants. `PROJECT.json` maps each definition to the lines
it translates, and lists runs, mutants, hazards, findings and theorems.

    tlc -workers 2 -config MCPipeline.cfg MCPipeline           # one run
    tlapm Pipeline_proofs.tla                                  # one proof module

## Inventory

| Component | State | Operations | Hard part | What makes it correct |
|---|---|---|---|---|
| Submission (`core/outreach.py`, `routers/outreach.py`) | a handler's locals: key, job | look up, insert, cache, enqueue, answer | concurrent duplicates; a failure between three stores | one job per prospect and week; nobody is promised a job that is not there |
| Idempotency cache (`services/cache.py`) | Redis: key → job id, with a TTL | GET, SETEX | TTL against the ISO week; Redis has no volume | entries name rows; an accepted job is found all week |
| ARQ queue and worker (`worker/tasks.py`) | queue, tries, running jobs | start, finish, rerun after a crash | crash between a commit and ARQ's bookkeeping | every job ends; reruns leave no mixture |
| Research pipeline (`services/research.py`) | the row in `jobs` | seven stages, each with commits; four failure handlers | the overall timeout cancels any await, handlers included | results of one run; an end, and a verdict where the code gives one |
| LLM client and circuit breaker (`services/llm.py`) | breaker state, failure times, `opened_at` | `can_execute`, `record_*`, tenacity retries, schema retries | the breaker is read before an await and written after it | quiet cool-down, clean restart, recovery |
| Cost (`services/cost.py`) | Redis counters per key and day, global per day | `record_cost`, `check_key_budget`, headers | check, then act; four separate Redis calls; truncation; midnight | what rows report was counted, up to truncation; bounded overshoot |
| Webhook (`services/webhook.py`) | none | sign, POST up to three times | a timeout after the subscriber processed the payload | the flag is about the result in the row; what was sent is persisted |
| Job reading (`core/outreach.py`) | none | build the result of a completed row | the row changes under its readers | `ResultBoard` |
| Signal cache and fetcher (`services/fetcher.py`, `services/cache.py`) | Redis: (domain, signal) → text | three concurrent fetches | one shared session; the key has no person in it | a signal is about its subject; siblings that share a session lose no work |
| Tracer (`tracing/tracer.py`) | trace rows, a JSONL file | trace per stage | swallowed errors; a cancelled stage; three stores that hold the same cost | a completed job is traced; the file is ahead of the tables |
| Auth and admission (`security/auth.py`, `dependencies.py`) | API key rows | validate, revoke, check the budget | revocation and spend change after the check | a revoked key is out; overshoot is bounded; limits agree |
| Feedback (`core/feedback.py`, `routers/feedback.py`) | feedback rows | check the status, insert | a rerun replaces the result between the two | a rating is of a completion |
| Dashboard (`dashboard/dashboard.py`) | none | sums over the JSONL file | reads a file that the worker writes | its costs are not below those of GET |
| Health, sanitizer, URL validation, config, scripts, prompts | none of their own | pure functions, reads, clients | none that a state model reaches | not modelled |

The API handlers and the worker share three stores: Postgres (rows of `jobs`),
the Redis database of the application (idempotency entries, signals, spend) and
the ARQ queue, also in Redis. No transaction spans them. The worker processes up
to ten jobs on one event loop; they share the LLM client with its breaker, and
the spend counters. The subscriber and the provider are outside: requests to
them fail, time out, or are processed without an answer.

## Modules

| Module | Models |
|---|---|
| `Submission` | `create_outreach`, `create_outreach_job`, `CacheService.get_cached_job_id` / `set_idempotency`, the unique index on `Job.idempotency_key` |
| `CircuitBreaker` | `CircuitBreaker` and `LLMClient._call_llm`, any number of concurrent callers |
| `Pipeline` | `run_research_pipeline`, `ResearchPipeline.run` and `_run_pipeline`, `record_cost`, `check_key_budget`, `_call_with_schema_validation` as one step, `_deliver` / `deliver_webhook`, ARQ's slots, tries and reruns |
| `Signals` | `_fetch_with_cache` with its three concurrent fetches, `get_cached_signal` / `set_cached_signal`, `WebFetcher`, the traces the fetches write to their common session, the overall timeout of the stage |
| `Budget` | `validate_api_key`, `revoke_api_key`, `check_cost_budget`, `record_cost` and `check_key_budget` with several keys, midnights and restarts of Redis, the worker's check, the costs in the rows |
| `LLMCalls` | `_call_with_schema_validation` around `_call_llm` and the breaker; extends `CircuitBreaker` |
| `Outreach` | the service end to end: `Submission`, the queue, workers as `Worker`, `get_outreach_status`, the webhook, `submit_feedback`; extends `Submission` |
| `Traces` | `Tracer.trace_stage`, `_write_jsonl`, `_write_db`, the job's `total_cost_usd`, the dashboard's cost per job |
| `ResultBoard` | abstract specification: what a reader of GET is promised over time |
| `Worker` | abstract specification: what the service around it relies on in a worker; extends `ResultBoard` |
| `NamedCall` | abstract specification: what `pick_hook` and `compose_message` promise the pipeline |
| `MC...` | instances for TLC: symmetry and constant functions |
| `..._proofs` | theorems of the component modules (those of `CircuitBreaker` are in `LLMCalls_proofs`) |
| `SumTheorems` | lemmas about sums over finite sets, used by `Pipeline_proofs` and `Budget_proofs` |

Definitions marked "Seeded fault" in the component modules are plausible bugs of
the definition that follows them. No specification uses them; substituting one
for its original must violate the property that `PROJECT.json` pairs it with.

### Submission

A handler's `pc` names the await it stands at. `Receive` computes the key
(prospect and ISO week, read once). `Lookup` is the Redis GET, `LoadCached` the
SELECT of a hit, `InsertJob` the commit with the unique index, `SetIdempotency`
the SETEX, `Enqueue` the ARQ call, `Respond` the Redis GET of the cost headers
with the answer. `Fault` makes the pending await raise, or kills the handler:
what it wrote stays. `RedisLoss` empties the cache and the queue. `Tick` moves
the UTC clock and counts every TTL down; `week` and `tick` are the ISO week and
the position in it. The id of a job is the request that created it (uuid4: ids
are fresh). The branch of `LoadCached` for an id without a row is in the code and
in the model; `CacheNeverDangles`, half of `StoresAgree`, says that it never runs.

### CircuitBreaker

The breaker's `state`, `failures` and `opened_at`; the last two are kept as ages
that `Tick` advances, capped where no comparison tells them apart, so the state
space is finite without a bound on time. `opened_at` compares with `>`, the
window with `<`. `Admit` is `can_execute` and the sending of a request, for a
first attempt and for one after a backoff; `Succeed`, `FailRetryable` (429,
connection error, 5xx) and `FailSilently` (any other error, a cancellation) end
it. `via` remembers the breaker state that admitted the pending request. One
request stands for one `create` call, the SDK's own internal retries included.

### LLMCalls

Each action is an action of `CircuitBreaker` together with what it means for the
call it belongs to: `Reject` is a `Succeed` whose completion does not fit the schema,
`Accept` one that does, `Drop` one without choices or content, `FailAttempt` a retryable
failure. `asked` counts completions that did not fit, `sent` and `billed` are ghosts,
`stats` is what `total_stats` held when the call returned. The code asks again without
awaiting; here others may step in between, so the model has more interleavings than
the code. Since every step is one of the breaker's, its theorems carry over
(`RefinesBreaker`). `NamedCall` is the step `CallLLM` of `Pipeline` seen from outside: a
call returns a result with the statistics of all its completions, or raises with
none.

### Pipeline

One action per await of the body, in program order; the stage a job stands at is
`pc[j]`. The write of an await is durable when its action has happened. The
overall timeout (`Timeout`), an error of Redis (`RedisFault`) or Postgres
(`PostgresFault`) and the death of the worker (`Kill`) may come before the next
step, so also "after the write, before its acknowledgement"; `completed` is the
point after the durable COMPLETED commit and before its acknowledgement.

What an interrupted await does depends on the store. An AsyncSession whose
connection failed or was cancelled in an await needs a rollback before it can be
used again, and the code never asks for one: the failure handlers' own commits
raise, and so does the SELECT of the timeout handler. `PostgresFault` is that
case, an error or the overall timeout in an await on Postgres: the run leaves
with the row as it is, and ARQ does not repeat it. Elsewhere (Redis, the
provider, the subscriber, a backoff) the handlers do their work. `RedisStages`,
`OtherStages` and `PostgresStages` say at which stages which kind is pending.

One stage is different: while the fetches of stage 2 run, several coroutines use one
session. The overall timeout, or a failed read of the cache, ends the stage while
fetches are still committing their traces, and a handler that meets such a commit
raises. `Collide` is that outcome, in `Timeout` and in `RedisFault`: the run leaves
with its row at FETCHING, although no store failed. The other outcome, the
handler's FAILED, is there as well. `Signals` has the details.

`ArqTimeout` is ARQ's own `job_timeout`, which has its place where
`job_overall_timeout_seconds` is configured not to be below it (`ArqFirst`): the
cancellation passes every handler, and the job is over as it stands.

`Kill` and `Start` model ARQ: a job whose run was lost is started again, from the
beginning, up to `MaxTries` times; `GiveUp` is ARQ discarding it after that.

`row` holds what the properties tell apart: status, the try that wrote the hook,
the try that wrote the message, `webhook_delivered`, and in `shows` what GET makes of
the hook that was saved: the schema of the LLM's answer takes any confidence and an
empty text, that of the API's answer does not take the first and shows nothing for
the second. `call` is what the latest LLM call cost until it is charged; `ChargeKey`
adds what the truncation to micro-dollars leaves of it (`Counted`: the product is a
float, so a whole number of micro-dollars may come out as one less) to `keySpend`,
the Redis counters of one day. The days, the restarts of Redis and the costs in the
rows are `Budget`'s. A POST has two sides: `answered` are the runs with a POST
answered below 400, which is what the code counts as delivered (httpx follows no
redirect, so a 302 is among them), `received` those with a POST that the subscriber
processed, which the sender does not know; either may happen without the other.
Texts, signals, traces, timestamps and `error_message` are left out. The global
budget only logs, so it has no action.

### Signals

The fetch stage that `Pipeline` takes in one step. `main[j]` is where the run of a
job stands, `at[j][t]` where its fetch of signal `t` does; both alternate freely.
`Hit` / `Miss` / `ReadFault` are the Redis GET, `Fetch` / `FetchNothing` the fetch
with its own retries and timeout, `Store` / `StoreFault` the SETEX, `Trace` and
`Traced` the two ends of the commit of its trace. The session is modelled as the
unit of work it is: `added` waits for a flush, a commit takes all of it along
(`flushing`) and makes it durable (`stored`); a commit that begins while another is
in flight raises and leaves what it added to the next one, and the commit in flight,
when it was met in its flush, raises too and leaves what it had flushed to whichever
commit ends the transaction (`RefuseCommit`; `refused` keeps the run's own commits). Its members
are the traces, by signal, and the assignments `"signals"` and `"failed"` of the
run. `Fail` is the first exception coming out of `gather`: the other fetches go on
and may be in a commit just then, so that the handler's own commit is refused.
`TimeOut` is the overall timeout: it cancels the fetches that are not over (`cut`), each
of which still writes its trace, but for one whose commit it cuts in two: that reaches
Postgres or not, and its session is of no more use (`torn`). `FailTimedOut` is the
handler in `run`, its SELECT and commit taken as one use of the session.
`Close` expunges what was not flushed; what a commit in flight had flushed may or
may not survive. A content is what it is about: type, domain and, for a profile,
the person. TTLs are left to `Expire`, which takes an entry at any time, and the
cache starts with what earlier jobs for the same people left in it.

A Redis that stops answering shows the stage at its worst: reads fail at about the
same time, the first trace is being committed when the second exception
reaches the handler, the commit of FAILED is refused, and the job is left
without a verdict. The overall timeout does the same with no store failing: the first
cancelled fetch ends `gather`, the handler's SELECT meets the commit of the next.
`OnlyCollisionsLoseTheVerdict` says that collisions on the session are the only way.

### Budget

A request goes through `Receive`, the SELECT of its key (`Authenticate`), the commit
of `last_used_at` (`Touch`: that column only, as SQLAlchemy writes what changed) and
`Admit`, which reads the spend of the UTC day against the key's own ceiling. A
POST that queued its job may still be answered 500, because the cost headers read
the counters again. The job, under the name of its request, starts when a slot is
free, checks the *worker's* limit, and charges each LLM call in two steps that
both ask for the day. Only the counters of today are ever read, and these cannot
expire, for every charge renews their 25 hours; so `keySpend` and `allSpend` are
today's, `Midnight` starts them anew between any two steps, and `RedisLoss` does the
same and empties the queue: Redis has no volume. Costs are in a unit finer than the
micro-dollar, `Counted` drops what does not fill one, and `Save` adds the untruncated
cost to the row. `counted` and `charges` are ghosts: what was ever counted for a key,
and how often. `Revoke` may be called at any time, though the repository has no caller
of `revoke_api_key` yet. `late` is a ghost: the key was revoked when the request came in.
Stages that do not touch spend are left out, `Abort` is any error or timeout, and
`Kill` hands the run back to the queue.

### Outreach

The composition, as two or more clients of one API key see it. The steps of
`Submission` are taken as they are, its queue feeds the workers, and a worker keeps to
`Worker`, the abstraction that `Pipeline` implements: the board, with the stages in
between that others can observe (`Pay`, `Notify`). `Complete` may leave a row that GET
cannot show: with an empty hook it answers the status without a result, with a
confidence outside 0 to 1 it answers 500 at every poll (a job with a webhook fails
instead, where its payload is built). `completion` keeps the run and what GET makes of
it; the board shows results only. `Crash` returns a job to a queue that may have been lost with
Redis; `Vanish` is a run that ends without verdict. `blocked` is the key's daily limit
as both POST and GET see it: the key's own jobs may reach it, midnight and a loss of
Redis lift it. A client that created its job with a webhook waits to be told; one that
was answered from the cache has no webhook, because the code drops its URL, and
polls like those without. `CheckRated` and `InsertRating` are the two awaits of
`submit_feedback`; the check is of the status alone, as in the code, and `of` is the run
that the rated row was completed by. Clients are those of `scripts/curl_walkthrough.sh`,
fair to themselves.

### Traces

A run alternates between `inside` a stage, the `commit` of its trace, and what is
`between` two stages. `LeaveStage` is the end of the body with the line of the JSONL
file, `CommitTrace` / `CommitFails` is `_write_db`. A failed commit is swallowed, but it
leaves a session whose next use raises, handlers included, so the run is over; that is
why `CompletedIsTraced` holds. `held` is what the LLM client reported and the row does
not have yet; `Proceed` adds it after the stages in `Saved`. A stage that the timeout cuts
short is recorded as a success, as in the code. `missed` is a ghost for lines that
could not be written, which is only logged.

### ResultBoard

Each job shows nothing, a result made of exactly one run, or a failure; a result
is published onto an empty board by the run that made it. `Pipeline!Shown` is its
refinement mapping: status COMPLETED shows the *set* of tries that the hook and
the message come from, which must be the singleton of the current try. Statuses
on the way show an empty board, so the rerun of a completed job first withdraws
its result: readers see a completed job go back to work. That is what the code
does, and the strongest promise it keeps.

### Worker

`ResultBoard` with the order of what else can be seen: the row is taken back before
anything is paid, the subscriber hears of the job after the message was saved and
before the job is completed, and a job without webhook has no subscriber. It is the
seam between the two descriptions of a worker: `Pipeline` implements it
(`ImplementsWorker`, with `Phase` as the mapping), and the workers of `Outreach` take
its steps, with one omission: `Stumble`, which `Outreach` takes together with `FailRun`.
In `Pipeline` the first POST that the subscriber processes, or the end of the delivery, moves a job from `paid` to `notified`; the other
POSTs are stutters. A completion without a showable result leaves the board open and
ends the run all the same.

## Runs

| Run | Instance | Shows |
|---|---|---|
| `submission` | 3 requests, 2 prospects, 1 week boundary, 1 fault, 1 Redis loss, fair | `OneJobPerProspectAndWeek`, `StoresAgree`, `StrandedJobsWereReported`, `AcceptedStaysCachedAllWeek`, `AnsweredJobsGetQueued` |
| `submission_duplicates` | 3 requests, no fault | finding 1: a concurrent duplicate is answered 500 |
| `breaker` | 3 callers, threshold 3, 3 attempts, fair | `ClosedBelowThreshold`, `CooldownHolds`, `NoRequestDuringCooldown`, `BreakerRecovers` |
| `llm_calls` | 2 callers, threshold 2, 3 attempts × 3 completions, fair | `RequestsBounded`, `ImplementsNamedCall`, `CallsEnd` |
| `pipeline` | 2 jobs of one key, 2 slots, 2 tries, two troubles (2 kills, or one and a fault: Redis, Postgres or ARQ's timeout), the overall timeout at will | `CompletedCoherent`, `OvershootBounded`, `DeliveryIsOfTheResult`, `NotifiedAfterPersist`, `AnnouncedIsReadable`, `ImplementsWorker`: Pipeline implements Worker |
| `pipeline_verdict` | 2 jobs on 1 slot, 1 kill, no fault, the overall timeout at will, fair | `EveryJobEnds` |
| `pipeline_notified` | 1 job, no crash, no fault | finding 2: told of a completion that never happens |
| `signals` | 2 jobs of 2 domains, 2 fetches each, 1 failing call of Redis, the overall timeout for one job | `SignalsInPlace`, `SavedJobsAreTraced`, `OnlyReadsFailTheJob`, `OnlyCollisionsLoseTheVerdict` |
| `signals_profile` | 2 people of one domain | finding 3: written to from another person's profile |
| `budget` | 3 requests of 1 key, 2 slots, 2 calls a job, 1 midnight or restart of Redis, 1 lost run | `RevokedIsRefused`, `DailyOvershootBounded`, `GlobalAheadBounded`, `SpendIsCounted` |
| `outreach` | 2 clients (1 webhook) of 1 prospect, 1 week boundary, 2 tries; one of: fault, Redis loss, run without verdict, or up to 2 crashes; completions that GET cannot show; fair | `ReadersAgree`, `RatingsAreOfCompletions`, `ClientsLearn` |
| `traces` | 2 jobs, 3 stages (2 paid, 2 saved), 2 tries, 1 kill, 2 failing writes | `CompletedIsTraced`, `FileIsAhead` |

**Bounds.** Three requests let one create, one lose the race and one come after
both; two prospects catch a mix-up of keys; two ticks a week put an entry at the
start and at the end of a week, with the TTL running out in the next one, and the
TTL is exactly one week, the least that `AcceptedStaysCachedAllWeek` allows. Three
callers let one trip the breaker while the second probes and the third's old
request comes back late; the recovery time is shorter than the window, as in the
shipped settings (30 s and 60 s), so failures survive into the half-open state.
Two jobs of one key on two slots make the check of the budget race with the
charge; two kills use up all tries of a job, or one of each, and a run that fails in
another way meets the crash of its rerun or of the other job. An LLM call costs three
units, of which two make a micro-dollar, so every charge truncates, and the limit of
five is reached by the calls of two runs. Two POSTs keep the product small; the
constants appear in the properties, whose theorems are for all values. In `Signals` two
fetches that share a session meet one another's commits, and the handler of a failed
read or of the overall timeout meets those of the fetch that is left, in every order
(the third fetch adds interleavings, and the theorems are for any number). One
timeout, for the first job (`Slow`), is enough, because sessions are not shared between
jobs; two jobs of two domains catch a mix-up of keys, and jobs of the
same domain meet through the cache's initial contents. In
`Budget` the third request comes late, after a revocation or the spend of two jobs
in flight, and one midnight, or one restart of Redis, falls between any two steps; its
passing run has one key, whose ceiling lies above the worker's limit, a call costs one
unit more than a micro-dollar (of 8), and a single charge reaches the limit, so that
any overshoot is of runs that passed their check. Two callers in `LLMCalls` are enough
for one call to open the breaker under the other between any two of its requests. In `Outreach` the second client is the
concurrent duplicate, the cache hit, or the one that comes in the next week; two
crashes use up the two tries of a job, so the worker that dies at every try is there, and
a fault, a loss of Redis or a run without verdict weighs as much as two crashes
(`MaxTroubles`); only the second client rates (`Raters`); in `Traces` a killed run
and its rerun meet a write that fails at any stage of each, and the stages
before, between and after the paid ones differ. Every run ends when its requests or
jobs do, so `CHECK_DEADLOCK` is on for `breaker` and `llm_calls` only, which never stop.

**Fairness.** `Submission!FairSpec` and `Pipeline!FairSpec` ask that the event
loop does not abandon a coroutine that can run, and that ARQ polls its queue:
weak fairness of one handler's steps, and of the start of a job. `AnsweredJobsGetQueued`
excuses the runs in which a fault or a loss of Redis happened: after one of those an
answered job may stay out of the queue. Every external
call on the way has a timeout or ends in an error that is a step too. (Weak
fairness is enough for the slot: in `pipeline_verdict` the slot becomes free for
good when the other job has used its tries.) `CircuitBreaker!FairSpec` asks that
time passes, that a pending request is answered when the provider stays up, and
that callers keep calling; nothing is asked of failures. `BreakerRecovers` needs
the callers: a breaker that nobody consults stays half-open. `LLMCalls!FairCallsSpec`
asks that a pending request is answered or fails and that backoffs end;
`Outreach!FairServiceSpec` that handlers and workers run and that a client who was not
promised a webhook polls again until it reads a verdict. `ClientsLearn` is about keys
whose daily limit does not block them for ever. It leaves a client waiting in the cases
in which the code does: its row is one on which GET answers 500, its worker died at
every try (fewer deaths are no excuse, which is why the run has as many crashes as
tries), a store failed, Redis was lost, or a run ended without verdict. A client that
was promised a webhook and is not told by it is excused when its job failed or was
completed without a delivery. `EveryJobEnds` lets a row stay at FETCHING, where the overall
timeout may collide with the traces of the fetches; at no other working status.

## Findings

The runs marked as findings exhibit, in the fewest steps, where the code and a
statement about it disagree; `PROJECT.json` quotes the lines.

1. **Concurrent duplicates get a 500** (`CreatesOrReturnsCached`). Two submissions
   of a prospect that both miss the cache both insert; the loser's IntegrityError
   is not caught. The same happens all week when the creator failed between its
   commit and its cache write.
2. **Told of a completion that does not happen** (`NotifiedMeansCompleted`). The
   webhook precedes the COMPLETED commit; a timeout in between ends in FAILED.
3. **A profile of somebody else** (`ProfileIsOfThePerson`). The cache key of a
   profile has no person in it.

More behaviours of the code that a reader may not expect are in the models, where
the properties hold with them and no run singles them out:

- The job's id is cached before the job is enqueued: if the enqueue fails, the rest of
  the week is answered 200 with a job that nothing runs (`Fault` in `Submission`;
  `StrandedJobsWereReported` and `ClientsLearn` say what remains true).
- A half-open breaker admits every caller, where the comment in `can_execute` speaks of
  one request (`Admits`).
- Admission compares with the key's own ceiling, the worker with a setting: jobs that
  were queued in time overspend a lower ceiling, and a higher one is never reached
  (`CheckBudget` and `Admit` in `Budget`).
- A job without webhook whose hook has a confidence outside 0 to 1 completes, and GET of
  it is answered 500; with an empty hook text it completes, and GET has no result
  (`shows` in `Pipeline`, `Page` in `Outreach`); feedback on either is accepted, because only
  the status is checked (`CheckRated`).
- A cached answer drops the `webhook_url` that came with the request, though the route
  offers "or provide a webhook_url to be notified on completion"
  (`app/routers/outreach.py:26`): that client has to poll (`Subscribed` in `Outreach`).
- A stage that is cancelled is traced with `success` set and without cost (`Entry` in
  `Traces`), and a completed rerun keeps the costs of the runs before it.
- A FAILED job stays cached for the rest of the week; a new submission gets the failure
  (`Lookup` does not look at the status).
- `scripts/curl_walkthrough.sh` posts feedback to `/v1/outreach/{id}/feedback`, the router
  listens on `/v1/feedback/{id}/feedback`.
- After a failing or cancelled await on Postgres the failure handlers of the
  pipeline fail as well; the exception ends the job for ARQ, which does not try it
  again, and its row stays in a working status (`PostgresFault`).
- A call of the LLM client that raises after billed completions drops their
  statistics, so that spend is never recorded (`CallLLM`).
- Each charge is truncated to micro-dollars, so the counters fall behind the costs in the
  rows (`Counted`; `SpendIsCounted` bounds by how much).
- A webhook answered with a redirect counts as delivered though nothing processed it
  (`Post`), so `webhook_delivered` says what was answered, not what was received.
- The overall timeout during the fetches can leave a job at FETCHING for good although no
  store failed (`Collide` in `Pipeline`, `FailTimedOut` in `Signals`).
- GET is behind the same budget check as POST: a key that is out of budget cannot
  read what it paid for until midnight (`Admit`).
- The three fetches commit to one session: a commit that finds another in flight
  raises, the tracer swallows it, and the trace is written by a later commit
  (`RefuseCommit`, and what `SavedJobsAreTraced` says of it).

## Theorems

All proofs follow one argument: an inductive invariant `IInv` that contains the
type invariant, shown by `Init => IInv` and `IInv /\ [Next]_vars => IInv'` with one
step per action, and implications from it. They hold for every value of the
constants that satisfies the named assumptions of the component module, so for
any number of requests, callers, jobs, tries, faults and kills. The assumptions are the
types of the constants and what settings guarantee (`TTLAssumption`); the sums of
`Pipeline` and `Budget` are over sets of jobs, requests and keys that are finite, as a
queue and a table are (`FinitenessAssumption`).

| Theorem | States |
|---|---|
| `Submission_proofs!TypeCorrect` | `Spec => []TypeOK` |
| `Submission_proofs!OneJobPerKey` | `OneJobPerProspectAndWeek` |
| `Submission_proofs!StoresInOrder` | `StoresAgree` |
| `Submission_proofs!NoSilentStranding` | `StrandedJobsWereReported` |
| `Submission_proofs!CachedForTheWeek` | `AcceptedStaysCachedAllWeek`, from `TTLAssumption` |
| `LLMCalls_proofs!TypeCorrect`, `Closed`, `Cooldown` | `TypeOK`, `ClosedBelowThreshold`, `CooldownHolds` |
| `LLMCalls_proofs!NoRequests` | the action property `NoRequestDuringCooldown` |
| `LLMCalls_proofs!RefinesBreaker`, `NoCallDuringCooldown` | `CallsSpec => CircuitBreaker!Spec`, and with it `NoRequestDuringCooldown` for whole calls |
| `LLMCalls_proofs!CallTypesCorrect`, `Requests` | `CallTypes`, `RequestsBounded` |
| `LLMCalls_proofs!RefinesNamedCall` | `CallsSpec => NamedCall!Spec` |
| `Pipeline_proofs!TypeCorrect`, `Coherence`, `Delivered`, `Notified`, `Announced` | `TypeOK`, `CompletedCoherent`, `DeliveryIsOfTheResult`, `NotifiedAfterPersist`, `AnnouncedIsReadable` |
| `Signals_proofs!TypeCorrect`, `InPlace`, `Traces`, `ReadsOnly`, `Verdicts` | `TypeOK`, `SignalsInPlace`, `SavedJobsAreTraced`, `OnlyReadsFailTheJob`, `OnlyCollisionsLoseTheVerdict` |
| `Pipeline_proofs!Overshoot` | `OvershootBounded` |
| `Budget_proofs!TypeCorrect`, `RevokedIsRefusedAlways` | `TypeOK`, `RevokedIsRefused` |
| `Budget_proofs!DailyOvershootBoundedAlways`, `GlobalAheadBoundedAlways`, `SpendIsCountedAlways` | `DailyOvershootBounded`, `GlobalAheadBounded`, `SpendIsCounted` |
| `Pipeline_proofs!RefinesWorker`, `Refinement` | `Spec => Worker!WorkerSpec`, `Spec => ResultBoard!Spec` |
| `Outreach_proofs!RefinesSubmission`, `ServiceRefinesWorker`, `ServiceRefinesBoard` | `ServiceSpec => Submission!Spec`, `ServiceSpec => Worker!WorkerSpec`, `ServiceSpec => ResultBoard!Spec` |
| `Outreach_proofs!ServiceTypesCorrect`, `Readers`, `Ratings` | `ServiceTypes`, `ReadersAgree`, `RatingsAreOfCompletions` |
| `Traces_proofs!TypeCorrect`, `Completeness`, `FileFirst` | `TypeOK`, `CompletedIsTraced`, `FileIsAhead` |

Why the strengthenings are needed. *Submission*: the answer a client holds is tied
to the stores only through where its handler stands, so `IInv` says of every stage
which of row, cache entry and queue entry exist; for the TTL it says that an entry
written in a week lives at least to the end of that week (`life + tick` is at
least the week's length). *CircuitBreaker*: `ClosedBelowThreshold` is inductive only
together with the range of the ages; `CooldownHolds` because the single way into
HALF_OPEN is past the recovery time and only HALF_OPEN leads to CLOSED.
*Pipeline*: a row that shows COMPLETED is coherent because every stage after
`save_hook` carries "the hook is that of the current try", every stage after
`save_message` the same of the message, and a status other than COMPLETED was
written before the first save of a run. What was received or answered belongs to tries
up to the current one; a run is not among the answered before its delivery, so the flag
it writes at the end, set or reset, is about its own POSTs.

*Signals*: while the run waits in `gather`, the trace of a fetch that is over is in `added`, `flushing` or `stored` as
long as the session is open, at most one commit is in flight (else one commit would
end another's), and the signals are flushed together with all that is left in
`added`. *Budget*: a late request is stuck before the lookup or done, because the
key's row stays inactive: `Touch` does not write it.

*Counters.* None of the four statements about spend is inductive: they compare stores
that are written in different steps, so the invariants add what is under way between
the two. `AheadInv` (`Budget`): the global counter with the calls halfway through
`record_cost` stays within the sum of the keys' counters and one call for each slot; a reset
empties both sides while at most one call per slot is halfway, and that is where the
bound comes from. `CountedInv` (`Budget`): the rows with the calls that are charged and
not saved stay within what was counted and one micro-dollar for each charge.
`OvershootInv` (`Pipeline` and `Budget`): what a key has spent, with what its runs that passed
the check may still add (`Due`), stays below the limit plus `Slots` times a run's spend; a run
passes the check below the limit, and at most `Slots` are running (`SlotsKept`), so the
bound holds at the check, and no later step adds to the sum. At midnight, or a restart of
Redis, a run that was checked before keeps its claim on the new counter. A step moves the
summand of one job, and `SumTheorems` says what that does to the sum: the library defines
sums by recursion over subsets, and its lemmas follow from an induction over finite sets
(`SubsetInduction`, from the well-foundedness of the subset ordering).

*Refinements.* `Pipeline` implements `Worker` action by action: `Moves`, `BoardMoves` and
`TellMoves` say which changes of `Phase`, `Shown` and `received` are steps of `Worker`, and what
remains of each action is where it leaves its job. `MovesOn` is the part of `WorkerNext` that
says that a step takes its job to another stage. That `Worker` implies `ResultBoard` gives
`Refinement`.

*LLMCalls*: inside a call, what was billed are the completions that did not fit the
schema so far, and the attempts of `_call_llm` start anew after every one of them. *Outreach*: the invariants of `Submission` come with
`RefinesSubmission`; beyond them, a page that was read, or a completion that was rated, is still that of the
row unless a run of that job began after it, which takes a crash (`RowFits`: until then a
settled row is left alone). *Traces*: the stages before the
one a run is in are traced as successes, a failed line is the last of its run, and the
cost of the row together with what is held is at most that of the lines; the last is
an equation of cardinalities, one line at a time.

**Only model-checked.** The liveness properties (`AnsweredJobsGetQueued`,
`BreakerRecovers`, `EveryJobEnds`, `CallsEnd`, `ClientsLearn`): liveness under
fairness is beyond the prover. Every invariant, action property and refinement of a
passing run is the statement of a theorem. The runs that end in a violation are
counterexamples, which need no proof.

## Not modelled

Health probes, sanitizer, URL validation, configuration and prompts keep no state of
the system; evaluation and seeding are clients of it, and of the dashboard only the cost
per job is modelled. Requests that carry no key or an unknown one are answered 401
without touching anything. `Budget` and `Outreach` both have admission, the first with
its counters, the second with one flag; they are not composed, and neither are
`Signals` and `Traces` with `Pipeline`, whose steps `FetchSignals` and traces they refine.
`rate_limit_per_minute` is a column that no code reads. The counters of past days, which
nothing reads, are left out of `Budget`, the warning of the global budget out of both
modules with counters, the text of the traces out of `Signals` and
`Traces`; a line of the JSONL file torn by a kill in mid-write is not modelled (the
dashboard skips it). `HookResult.normalize_evidence`, `error_message`, and the
signature of a webhook are left out. `Job` rows are never deleted by this code.

## Plan

Done: `Submission`, `CircuitBreaker`, `Pipeline` with `Worker` and `ResultBoard`, `Budget`,
`Signals`, `LLMCalls` with `NamedCall`, `Outreach`, `Traces`, each with its runs and proofs.
Next, in order of importance:

1. The key's limit in `Worker`: `blocked` in `Outreach` is what the counters of `Pipeline`
   say, which `Worker` leaves out.
2. `Signals` implements the step `FetchSignals` of `Pipeline`.
3. `error_message` in the row of `Pipeline`.
