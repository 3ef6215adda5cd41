------------------------------ MODULE Pipeline ------------------------------
(***************************************************************************)
(* The ARQ worker: run_research_pipeline (app/worker/tasks.py) and         *)
(* ResearchPipeline.run (app/services/research.py), with the spend         *)
(* counters of CostService and the delivery loop of WebhookService.        *)
(*                                                                         *)
(* Several jobs run interleaved on the worker's event loop.  A job is run  *)
(* again, from the start, when its worker dies before ARQ recorded the end *)
(* of the run; every run writes the same row.  Each step below ends at the *)
(* await it models, and its write is durable from then on: a cancellation, *)
(* an error or a crash that hits the await after the write is the one that *)
(* comes before the next step.                                             *)
(*                                                                         *)
(* What a run produces is named by the number of its try.  The counters    *)
(* are those of one day without a restart of Redis; days, restarts and the *)
(* costs in the rows are in Budget.  Texts, signals and traces are left    *)
(* out.                                                                    *)
(***************************************************************************)
EXTENDS Integers, FiniteSets, Functions

CONSTANTS
    Jobs,            \* the jobs in the ARQ queue
    Keys,            \* API keys
    KeyOf,           \* the key that each job was submitted with
    WithWebhook,     \* the jobs that have a webhook_url
    Slots,           \* WorkerSettings.max_jobs
    MaxTries,        \* WorkerSettings.max_tries
    KeyLimit,        \* settings.per_key_daily_cost_limit_usd
    MaxCost,         \* no LLM call costs more
    Costs,           \* bound: what an LLM call may cost, in a unit of which ...
    Grain,           \* ... so many make the micro-dollar of the counters
    PostAttempts,    \* stop_after_attempt of _deliver
    ArqFirst,        \* WorkerSettings.job_timeout is not above job_overall_timeout_seconds
    MaxKills,        \* bound: runs lost with their worker
    MaxFaults,       \* bound: awaits on Redis that raise, sessions lost, ARQ's timeouts
    MaxTroubles      \* bound: both together

ASSUME KeysAssumption == KeyOf \in [Jobs -> Keys] /\ WithWebhook \subseteq Jobs
ASSUME FinitenessAssumption == IsFiniteSet(Jobs) /\ IsFiniteSet(Keys)
ASSUME LimitsAssumption ==
    /\ Slots \in Nat \ {0} /\ MaxTries \in Nat \ {0} /\ KeyLimit \in Nat
    /\ MaxCost \in Nat /\ Costs \subseteq 0 .. MaxCost /\ Grain \in Nat \ {0}
    /\ PostAttempts \in Nat \ {0}
    /\ ArqFirst \in BOOLEAN
    /\ MaxKills \in Nat /\ MaxFaults \in Nat /\ MaxTroubles \in Nat

VARIABLES
    arq,       \* what ARQ knows of each job: "queued", "running", "finished"
    tries,     \* job_try, incremented at every start
    pc,        \* where the running pipeline of each job stands
    call,      \* cost of its latest LLM call, until it is charged
    posts,     \* POSTs of its current delivery that are retried
    row,       \* its row in the jobs table
    received,  \* ghost: the runs with a POST that the subscriber processed
    answered,  \* ghost: the runs with a POST that was answered below 400
    keySpend,  \* the day's Redis counter of each key
    kills, faults

arqVars == <<arq, tries>>
runVars == <<pc, call, posts>>
subscriber == <<received, answered>>
budget == <<kills, faults>>
vars == <<arqVars, runVars, row, subscriber, keySpend, budget>>

Statuses == {"PENDING", "VALIDATING", "FETCHING", "REASONING", "COMPOSING",
             "DELIVERING_WEBHOOK", "COMPLETED", "FAILED"}
Stages == {"idle", "load", "validate", "fetch", "signals", "reason", "budget",
           "pick_hook", "charge_key", "charge_all", "save_hook", "compose",
           "compose_message", "charge_key2", "charge_all2", "save_message",
           "deliver", "post", "delivered", "undelivered", "complete", "completed",
           "failing", "timed_out", "return"}

\* Where the pending await, or the one whose end is awaited, is on Redis; on
\* Redis, HTTP or a sleep; on Postgres
RedisStages == {"signals", "budget", "pick_hook", "charge_key", "charge_all", "save_hook",
                "charge_key2", "charge_all2", "save_message"}
OtherStages == RedisStages \cup {"compose_message", "post", "delivered", "undelivered"}
PostgresStages == Stages \ {"idle", "charge_all", "charge_all2", "return"}

Running == {j \in Jobs : arq[j] = "running"}

-----------------------------------------------------------------------------
\* What GET makes of the saved hook of a COMPLETED row: the result; nothing, when
\* its text is empty; an error, when OutreachResult refuses its confidence
Renderings == {"result", "nothing", "error"}

NewRow == [status |-> "PENDING", hook |-> 0, shows |-> "nothing", message |-> 0,
           delivered |-> FALSE]

Init ==
    /\ arq = [j \in Jobs |-> "queued"] /\ tries = [j \in Jobs |-> 0]
    /\ pc = [j \in Jobs |-> "idle"]
    /\ call = [j \in Jobs |-> 0] /\ posts = [j \in Jobs |-> 0]
    /\ row = [j \in Jobs |-> NewRow]
    /\ received = [j \in Jobs |-> {}] /\ answered = [j \in Jobs |-> {}]
    /\ keySpend = [k \in Keys |-> 0]
    /\ kills = 0 /\ faults = 0

Goto(j, from, to) == pc[j] \in from /\ pc' = [pc EXCEPT ![j] = to]

\* A run leaves the worker: what it held in memory is gone
Leave(j, verdict) ==
    /\ arq' = [arq EXCEPT ![j] = verdict]
    /\ pc' = [pc EXCEPT ![j] = "idle"]
    /\ call' = [call EXCEPT ![j] = 0] /\ posts' = [posts EXCEPT ![j] = 0]

-----------------------------------------------------------------------------
(* ARQ: start a queued job, or give it up when its tries are used *)

Start(j) ==
    /\ arq[j] = "queued" /\ tries[j] < MaxTries
    /\ Cardinality(Running) < Slots
    /\ arq' = [arq EXCEPT ![j] = "running"]
    /\ tries' = [tries EXCEPT ![j] = @ + 1]
    /\ Goto(j, {"idle"}, "load")
    /\ UNCHANGED <<call, posts, row, subscriber, keySpend, budget>>

GiveUp(j) ==
    /\ arq[j] = "queued" /\ tries[j] = MaxTries
    /\ arq' = [arq EXCEPT ![j] = "finished"]
    /\ UNCHANGED <<tries, runVars, row, subscriber, keySpend, budget>>

-----------------------------------------------------------------------------
(* The body of _run_pipeline *)

\* SELECT the job; its row is committed before the job is enqueued
Load(j) ==
    /\ Goto(j, {"load"}, "validate")
    /\ UNCHANGED <<arqVars, call, posts, row, subscriber, keySpend, budget>>

\* _update_job_status: assign, commit
SetStatus(j, from, status, to) ==
    /\ Goto(j, {from}, to)
    /\ row' = [row EXCEPT ![j].status = status]
    /\ UNCHANGED <<arqVars, call, posts, subscriber, keySpend, budget>>

Validate(j) == SetStatus(j, "validate", "VALIDATING", "fetch")
EnterFetching(j) == SetStatus(j, "fetch", "FETCHING", "signals")
EnterReasoning(j) == SetStatus(j, "reason", "REASONING", "budget")
EnterComposing(j) == SetStatus(j, "compose", "COMPOSING", "compose_message")

\* _fetch_with_cache: a fetch that fails or times out yields None
FetchSignals(j) ==
    /\ Goto(j, {"signals"}, "reason")
    /\ UNCHANGED <<arqVars, call, posts, row, subscriber, keySpend, budget>>

\* check_key_budget; check_global_budget is only logged
Blocked(k) == KeyLimit > 0 /\ keySpend[k] >= KeyLimit

CheckBudget(j) ==
    /\ IF Blocked(KeyOf[j]) THEN Goto(j, {"budget"}, "failing")
                            ELSE Goto(j, {"budget"}, "pick_hook")
    /\ UNCHANGED <<arqVars, call, posts, row, subscriber, keySpend, budget>>

\* _call_with_schema_validation: a valid result, for what its completions cost
\* together; or out of attempts, or the provider fails, or the breaker is open.
\* The stats of a call that raises are lost.
CallLLM(j, from, to) ==
    /\ \/ Goto(j, {from}, to) /\ \E c \in Costs : call' = [call EXCEPT ![j] = c]
       \/ Goto(j, {from}, "failing") /\ UNCHANGED call
    /\ UNCHANGED <<arqVars, posts, row, subscriber, keySpend, budget>>

PickHook(j) == CallLLM(j, "pick_hook", "charge_key")
ComposeMessage(j) == CallLLM(j, "compose_message", "charge_key2")

\* int(cost_usd * 1_000_000): whole micro-dollars, the rest is dropped.  The
\* product is a float: a whole one may come out as just less.
Counted(c) == {n \in 0 .. c : n % Grain = 0 /\ c <= n + Grain}

\* Seeded fault: each retry of the schema is charged again
ChargeKeyTwice(j, from, to) ==
    /\ Goto(j, {from}, to)
    /\ \E n \in Counted(call[j]) : keySpend' = [keySpend EXCEPT ![KeyOf[j]] = @ + 2 * n]
    /\ call' = [call EXCEPT ![j] = 0]
    /\ UNCHANGED <<arqVars, posts, row, subscriber, budget>>

\* record_cost: the key's counter, then the global one, which is only logged here
ChargeKey(j, from, to) ==
    /\ Goto(j, {from}, to)
    /\ \E n \in Counted(call[j]) : keySpend' = [keySpend EXCEPT ![KeyOf[j]] = @ + n]
    /\ call' = [call EXCEPT ![j] = 0]
    /\ UNCHANGED <<arqVars, posts, row, subscriber, budget>>

ChargeAll(j, from, to) ==
    /\ Goto(j, {from}, to)
    /\ UNCHANGED <<arqVars, call, posts, row, subscriber, keySpend, budget>>

\* Seeded fault: a rerun keeps the hook it finds in the row
SaveHookOnce(j) ==
    /\ Goto(j, {"save_hook"}, "compose")
    /\ \E shows \in Renderings :
          row' = [row EXCEPT ![j].hook = IF @ = 0 THEN tries[j] ELSE @,
                             ![j].shows = IF row[j].hook = 0 THEN shows ELSE @]
    /\ UNCHANGED <<arqVars, call, posts, subscriber, keySpend, budget>>

\* HookResult takes any text and any float
SaveHook(j) ==
    /\ Goto(j, {"save_hook"}, "compose")
    /\ \E shows \in Renderings :
          row' = [row EXCEPT ![j].hook = tries[j], ![j].shows = shows]
    /\ UNCHANGED <<arqVars, call, posts, subscriber, keySpend, budget>>

\* Seeded fault: a rerun keeps the message it finds in the row
SaveMessageOnce(j) ==
    /\ Goto(j, {"save_message"}, "deliver")
    /\ row' = [row EXCEPT ![j].message = IF @ = 0 THEN tries[j] ELSE @]
    /\ UNCHANGED <<arqVars, call, posts, subscriber, keySpend, budget>>

SaveMessage(j) ==
    /\ Goto(j, {"save_message"}, "deliver")
    /\ row' = [row EXCEPT ![j].message = tries[j]]
    /\ UNCHANGED <<arqVars, call, posts, subscriber, keySpend, budget>>

\* Seeded fault: the payload is sent as it is
EnterDeliveryUnchecked(j) ==
    \/ /\ j \in WithWebhook
       /\ SetStatus(j, "deliver", "DELIVERING_WEBHOOK", "post")
    \/ /\ j \notin WithWebhook
       /\ Goto(j, {"deliver"}, "complete")
       /\ UNCHANGED <<arqVars, call, posts, row, subscriber, keySpend, budget>>

\* Seeded fault: every job is delivered
EnterDeliveryToAll(j) ==
    SetStatus(j, "deliver", "DELIVERING_WEBHOOK",
              IF row[j].shows # "error" THEN "post" ELSE "failing")

\* Stage 6 is entered by the jobs with a webhook only.  Building the payload
\* raises when the confidence is not between 0 and 1.
EnterDelivery(j) ==
    \/ /\ j \in WithWebhook
       /\ SetStatus(j, "deliver", "DELIVERING_WEBHOOK",
                    IF row[j].shows # "error" THEN "post" ELSE "failing")
    \/ /\ j \notin WithWebhook
       /\ Goto(j, {"deliver"}, "complete")
       /\ UNCHANGED <<arqVars, call, posts, row, subscriber, keySpend, budget>>

\* Seeded fault: the stop condition counts the retries, not the POSTs
PostOneMore(j) ==
    /\ \/ /\ Goto(j, {"post"}, "delivered")
          /\ answered' = [answered EXCEPT ![j] = @ \cup {tries[j]}]
          /\ posts' = [posts EXCEPT ![j] = 0]
       \/ /\ Goto(j, {"post"}, "undelivered")
          /\ posts' = [posts EXCEPT ![j] = 0] /\ UNCHANGED answered
       \/ /\ posts[j] < PostAttempts
          /\ Goto(j, {"post"}, "post")
          /\ posts' = [posts EXCEPT ![j] = @ + 1] /\ UNCHANGED answered
    /\ received' \in {received, [received EXCEPT ![j] = @ \cup {tries[j]}]}
    /\ UNCHANGED <<arqVars, call, row, keySpend, budget>>

\* One POST of _deliver.  It is answered below 400, which counts as delivered
\* although a redirect is not followed; or it is answered 4xx, or meets an error
\* that is not retried, or it was the last; or it meets a 5xx, a timeout or a
\* connection error, and is retried.  Whatever the sender learns, the subscriber
\* processed it or not.
Post(j) ==
    /\ \/ /\ Goto(j, {"post"}, "delivered")
          /\ answered' = [answered EXCEPT ![j] = @ \cup {tries[j]}]
          /\ posts' = [posts EXCEPT ![j] = 0]
       \/ /\ Goto(j, {"post"}, "undelivered")
          /\ posts' = [posts EXCEPT ![j] = 0] /\ UNCHANGED answered
       \/ /\ posts[j] + 1 < PostAttempts
          /\ Goto(j, {"post"}, "post")
          /\ posts' = [posts EXCEPT ![j] = @ + 1] /\ UNCHANGED answered
    /\ received' \in {received, [received EXCEPT ![j] = @ \cup {tries[j]}]}
    /\ UNCHANGED <<arqVars, call, row, keySpend, budget>>

\* Seeded fault: a rerun leaves the flag that an earlier delivery set
RecordDeliveryOnce(j) ==
    /\ Goto(j, {"delivered", "undelivered"}, "complete")
    /\ row' = [row EXCEPT ![j].delivered = @ \/ pc[j] = "delivered"]
    /\ UNCHANGED <<arqVars, call, posts, subscriber, keySpend, budget>>

\* webhook_delivered reaches the row with the commit of the stage's trace
RecordDelivery(j) ==
    /\ Goto(j, {"delivered", "undelivered"}, "complete")
    /\ row' = [row EXCEPT ![j].delivered = (pc[j] = "delivered")]
    /\ UNCHANGED <<arqVars, call, posts, subscriber, keySpend, budget>>

Complete(j) == SetStatus(j, "complete", "COMPLETED", "completed")

\* The commit is acknowledged: nothing is awaited any more
Acknowledge(j) ==
    /\ Goto(j, {"completed"}, "return")
    /\ UNCHANGED <<arqVars, call, posts, row, subscriber, keySpend, budget>>

-----------------------------------------------------------------------------
(* Failure handlers, and the end of the run *)

\* The bounds on what goes wrong
OneMoreFault ==
    /\ faults < MaxFaults /\ kills + faults < MaxTroubles
    /\ faults' = faults + 1 /\ UNCHANGED kills

OneMoreKill ==
    /\ kills < MaxKills /\ kills + faults < MaxTroubles
    /\ kills' = kills + 1 /\ UNCHANGED faults

\* Seeded fault: the timeout is logged and nothing else
FailBodyOnly(j) == SetStatus(j, "failing", "FAILED", "return")

\* The three except clauses of _run_pipeline, and the one of run
Fail(j) ==
    \/ SetStatus(j, "failing", "FAILED", "return")
    \/ SetStatus(j, "timed_out", "FAILED", "return")

\* ARQ records the end of the run
Return(j) ==
    /\ pc[j] = "return"
    /\ Leave(j, "finished")
    /\ UNCHANGED <<tries, row, subscriber, keySpend, budget>>

\* The fetches that the end of their stage cut, or left running, commit their
\* traces on the job's session.  A handler that meets such a commit raises, and the
\* error leaves the task (Signals has the details; a refused verdict that a later
\* trace takes along is like one that is not refused).
Collide(j) ==
    /\ pc[j] = "signals"
    /\ Leave(j, "finished")
    /\ UNCHANGED <<tries, row, subscriber, keySpend>>

\* wait_for cancels the body in an await that is not on Postgres (an LLM request
\* cancelled before its answer counts as not billed)
Timeout(j) ==
    /\ \/ Goto(j, OtherStages, "timed_out") /\ UNCHANGED <<arqVars, call, posts, row,
                                                           subscriber, keySpend>>
       \/ Collide(j)
    /\ UNCHANGED budget

\* ARQ cancels the task: CancelledError passes every handler, and ARQ, which sees
\* a TimeoutError, records the end of the job
ArqTimeout(j) ==
    /\ ArqFirst /\ arq[j] = "running"
    /\ OneMoreFault
    /\ Leave(j, "finished")
    /\ UNCHANGED <<tries, row, subscriber, keySpend>>

\* Redis raises in the body: the last except clause takes over
RedisFault(j) ==
    /\ OneMoreFault
    /\ \/ Goto(j, RedisStages, "failing") /\ UNCHANGED <<arqVars, call, posts, row,
                                                         subscriber, keySpend>>
       \/ Collide(j)

\* An await on Postgres raises, or the overall timeout cancels it.  The session
\* would now need a rollback; nothing asks for it, so the commits of the failure
\* handlers raise as well, the error leaves the task, and ARQ, which retries
\* other errors only, records the end of the job.  (A trace's commit swallows
\* its error; the next use of the session raises it.)
PostgresFault(j) ==
    /\ OneMoreFault
    /\ pc[j] \in PostgresStages
    /\ pc[j] = "post" => posts[j] = 0
    /\ Leave(j, "finished")
    /\ UNCHANGED <<tries, row, subscriber, keySpend>>

\* The worker dies or is shut down: ARQ (retry_jobs) will run the job again
Kill(j) ==
    /\ arq[j] = "running"
    /\ OneMoreKill
    /\ Leave(j, "queued")
    /\ UNCHANGED <<tries, row, subscriber, keySpend>>

-----------------------------------------------------------------------------
Work(j) ==
    \/ Load(j) \/ Validate(j) \/ EnterFetching(j) \/ FetchSignals(j)
    \/ EnterReasoning(j) \/ CheckBudget(j) \/ PickHook(j)
    \/ ChargeKey(j, "charge_key", "charge_all") \/ ChargeAll(j, "charge_all", "save_hook")
    \/ SaveHook(j) \/ EnterComposing(j) \/ ComposeMessage(j)
    \/ ChargeKey(j, "charge_key2", "charge_all2")
    \/ ChargeAll(j, "charge_all2", "save_message")
    \/ SaveMessage(j) \/ EnterDelivery(j) \/ Post(j) \/ RecordDelivery(j)
    \/ Complete(j) \/ Acknowledge(j) \/ Fail(j) \/ Return(j)

Next ==
    \E j \in Jobs :
        \/ Start(j) \/ GiveUp(j) \/ Work(j)
        \/ Timeout(j) \/ ArqTimeout(j) \/ RedisFault(j) \/ PostgresFault(j) \/ Kill(j)

Spec == Init /\ [][Next]_vars

\* ARQ polls its queue, and the event loop abandons no coroutine
FairSpec ==
    Spec /\ \A j \in Jobs : WF_vars(Start(j)) /\ WF_vars(GiveUp(j)) /\ WF_vars(Work(j))

-----------------------------------------------------------------------------
(* Properties *)

\* Every variable keeps its type.
TypeOK ==
    /\ arq \in [Jobs -> {"queued", "running", "finished"}]
    /\ tries \in [Jobs -> 0 .. MaxTries]
    /\ pc \in [Jobs -> Stages]
    /\ call \in [Jobs -> 0 .. MaxCost]
    /\ posts \in [Jobs -> 0 .. (PostAttempts - 1)]
    /\ row \in [Jobs -> [status : Statuses, hook : 0 .. MaxTries,
                         shows : Renderings, message : 0 .. MaxTries,
                         delivered : BOOLEAN]]
    /\ received \in [Jobs -> SUBSET (1 .. MaxTries)]
    /\ answered \in [Jobs -> SUBSET (1 .. MaxTries)]
    /\ keySpend \in [Keys -> Nat]
    /\ kills \in Nat /\ faults \in Nat

\* A completed job shows the hook and the message of one and the same run,
\* however many runs of it died before or after they wrote theirs.
CompletedCoherent ==
    \A j \in Jobs :
        row[j].status = "COMPLETED" => row[j].hook > 0 /\ row[j].hook = row[j].message

\* The check before the LLM calls is not atomic with the charge after them, but
\* a key overshoots its limit by no more than what the runs in flight at that
\* moment can spend, reruns included.
OvershootBounded ==
    KeyLimit > 0 =>
        \A k \in Keys : keySpend[k] < KeyLimit + Slots * 2 * MaxCost

\* webhook_delivered of a completed job tells of the result in its row: whether a
\* POST of the very run that wrote it was answered below 400, not one of a run that
\* died and whose result was replaced.
DeliveryIsOfTheResult ==
    \A j \in WithWebhook :
        row[j].status = "COMPLETED" => (row[j].delivered <=> row[j].message \in answered[j])

\* README, "Persist result, emit webhook, mark complete": what a subscriber was sent
\* by a run is in the row until a later run replaces it.
NotifiedAfterPersist ==
    \A j \in Jobs : \A t \in received[j] : row[j].hook >= t /\ row[j].message >= t

\* A job that announces its completion never completes with a result on which GET
\* fails: the payload and the reader's answer are the same schema, and the payload
\* is built first, in every run.
AnnouncedIsReadable ==
    \A j \in WithWebhook : row[j].status = "COMPLETED" => row[j].shows # "error"

\* What a reader of GET sees is the board of ResultBoard; an answer without result,
\* or an error, leaves it open.
Shown(j) ==
    CASE row[j].status = "COMPLETED" /\ row[j].shows = "result" ->
            [kind |-> "result", from |-> {row[j].hook, row[j].message}]
      [] row[j].status = "FAILED" -> [kind |-> "failed", from |-> {}]
      [] OTHER -> [kind |-> "open", from |-> {}]

Board == INSTANCE ResultBoard WITH attempt <- tries, board <- [j \in Jobs |-> Shown(j)]

\* The worker implements the promise to readers: a result is that of one run,
\* replaced only after it was withdrawn, through crashes, timeouts and reruns.
ImplementsBoard == Board!Spec

\* The stage of Worker that a job is at: a run has paid when its message is saved,
\* and has notified with the first POST that is processed, or the last that is not.
PhaseAt ==
    [stage \in Stages |->
        CASE stage \in {"load", "validate"} -> "begun"
          [] stage \in {"deliver", "post"} -> "paid"
          [] stage \in {"delivered", "undelivered", "complete"} -> "notified"
          [] stage \in {"failing", "timed_out"} -> "failing"
          [] stage \in {"completed", "return"} -> "ended"
          [] OTHER -> "running"]

Phase(j) ==
    IF pc[j] = "idle" THEN IF arq[j] = "queued" THEN "idle" ELSE "finished"
    ELSE IF pc[j] = "post" /\ tries[j] \in received[j] THEN "notified"
    ELSE IF pc[j] = "complete" /\ j \notin WithWebhook THEN "paid"
    ELSE PhaseAt[pc[j]]

Service ==
    INSTANCE Worker WITH attempt <- tries, board <- [j \in Jobs |-> Shown(j)],
                         phase <- [j \in Jobs |-> Phase(j)],
                         told <- {j \in Jobs : received[j] # {}}

\* The worker keeps to the order that the rest of the service relies on: a job is
\* taken back before it is paid for again, its subscriber - of a job with a webhook
\* only - hears of it once the messages are saved and before it is completed, and
\* its readers see the board; whatever times out, fails or crashes on the way.
ImplementsWorker == Service!WorkerSpec

\* Every job ends for good, and with a verdict, COMPLETED or FAILED, or at FETCHING,
\* where the overall timeout may cost it its verdict; whatever times out or crashes -
\* unless workers die as often as there are tries, ARQ's timeout comes before the
\* pipeline's, Redis fails, or an await on Postgres fails or is cancelled.
EveryJobEnds ==
    \A j \in Jobs :
        <>[](arq[j] = "finished" /\ row[j].status \in {"COMPLETED", "FAILED", "FETCHING"})

\* WebhookPayload's docstring, "Payload delivered to webhook URL on job
\* completion" (its status is "completed"): a subscriber told of a completion
\* can read a completed job.
NotifiedMeansCompleted ==
    \A j \in Jobs :
        (received[j] # {} /\ arq[j] = "finished") => row[j].status = "COMPLETED"
=============================================================================
