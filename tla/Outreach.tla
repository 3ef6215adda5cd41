------------------------------ MODULE Outreach ------------------------------
(***************************************************************************)
(* The service end to end, as its clients see it: POST /v1/outreach        *)
(* (module Submission), the workers that run the enqueued jobs, GET        *)
(* /v1/outreach/{job_id} (app/routers/outreach.py), the webhook, and       *)
(* POST /v1/feedback/{job_id}/feedback (app/routers/feedback.py,           *)
(* app/core/feedback.py).                                                  *)
(*                                                                         *)
(* A worker is taken by what others see of it: it keeps to module Worker,  *)
(* which Pipeline implements, and to the board of ResultBoard.  The        *)
(* clients hold one API key; as in scripts/curl_walkthrough.sh each        *)
(* submits, polls until it reads a verdict, and may rate.                  *)
(***************************************************************************)
EXTENDS Submission

CONSTANTS
    WithWebhook,  \* the requests that give a webhook_url, or whose key has one
    Raters,       \* the requests whose clients rate what they learn
    MaxTries,     \* WorkerSettings.max_tries
    MaxCrashes,   \* bound: runs lost with their worker, and as many without verdict
    MaxTroubles   \* bound: all of what goes wrong together

ASSUME ServiceAssumption ==
    /\ WithWebhook \subseteq Requests /\ Raters \subseteq Requests
    /\ MaxTries \in Nat \ {0} /\ MaxCrashes \in Nat /\ MaxTroubles \in Nat

VARIABLES
    tries, board,  \* ResultBoard's: runs of each job, and what its row shows
    phase,         \* where the run of each job stands
    completion,    \* the run that completed each job, 0 for none, and what GET makes of it
    told,          \* jobs whose subscriber has processed a payload
    blocked,       \* today's spend of the key has reached its limit
    seen,          \* what each client read last, if only that there is nothing yet
    rating,        \* where its feedback handler stands, and the completion it checked
    feedback,      \* the feedback table: rows [job, by, of], of = the run checked
    crashes, vanished  \* how many of each have happened

boardVars == <<tries, board>>
rowVars == <<boardVars, completion>>
clientVars == <<seen, rating, feedback>>
lostRuns == <<crashes, vanished>>
serviceVars == <<rowVars, phase, told, blocked, clientVars, lostRuns>>
svars == <<vars, serviceVars>>

Board == INSTANCE ResultBoard WITH Jobs <- Requests, attempt <- tries

\* GET answers a completed job with its result, with none (an empty hook), or with
\* 500 (the confidence fails OutreachResult)
Renderings == {"result", "nothing", "error"}
NotCompleted == [of |-> 0, shows |-> "nothing"]
Completed(j) == completion[j].of # 0
Unreadable(j) == Completed(j) /\ completion[j].shows = "error"

\* What GET answers of a row, or of its absence
Empty(n) == [kind |-> "empty", from |-> {n}]
ServerError == [kind |-> "500", from |-> {}]
NotFound == [kind |-> "404", from |-> {}]
Page(j) ==
    CASE Unreadable(j) -> ServerError
      [] Completed(j) /\ completion[j].shows = "nothing" -> Empty(completion[j].of)
      [] OTHER -> board[j]
Pages ==
    {Board!Open, Board!Failure, ServerError}
    \cup {Board!Result(n) : n \in 1 .. MaxTries} \cup {Empty(n) : n \in 1 .. MaxTries}
\* The status says that the job is over
Verdict(page) == page.kind \in {"result", "empty", "failed"}

NoRating == [at |-> "none", of |-> 0]

ServiceInit ==
    /\ Init
    /\ Board!Init
    /\ phase = [j \in Requests |-> "idle"]
    /\ completion = [j \in Requests |-> NotCompleted]
    /\ told = {} /\ blocked = FALSE
    /\ seen = [r \in Requests |-> Board!Open]
    /\ rating = [r \in Requests |-> NoRating]
    /\ feedback = {}
    /\ crashes = 0 /\ vanished = 0

-----------------------------------------------------------------------------
(* POST, behind check_cost_budget; the counters go with Redis and midnight *)

Submit ==
    /\ \E r \in Requests :
          Handle(r) \/ Fault(r) \/ (~blocked /\ \E p \in Prospects : Receive(r, p))
    /\ UNCHANGED serviceVars

NewCounters ==
    /\ RedisLoss \/ Tick
    /\ blocked' = FALSE
    /\ UNCHANGED <<rowVars, phase, told, clientVars, lostRuns>>

-----------------------------------------------------------------------------
(* The worker *)

Step(j, from, to) == phase[j] \in from /\ phase' = [phase EXCEPT ![j] = to]

StartRun(j) ==
    /\ j \in queue
    /\ Step(j, {"idle"}, "begun")
    /\ Board!Begin(j)
    /\ UNCHANGED <<vars, completion, told, blocked, clientVars, lostRuns>>

\* The row's status is the run's from its first stage on
Withdraw(j) ==
    /\ Step(j, {"begun"}, "running")
    /\ Board!Withdraw(j)
    /\ completion' = [completion EXCEPT ![j] = NotCompleted]
    /\ UNCHANGED <<vars, told, blocked, clientVars, lostRuns>>

\* The LLM calls, unless the key is over its limit, and their charges
Pay(j) ==
    /\ Step(j, {"running"}, "paid")
    /\ ~blocked /\ blocked' \in BOOLEAN
    /\ UNCHANGED <<vars, rowVars, told, clientVars, lostRuns>>

\* Seeded fault: jobs without a webhook_url are not told apart
NotifyAll(j) ==
    /\ Step(j, {"paid"}, "notified")
    /\ told' \in {told, told \cup {j}}
    /\ UNCHANGED <<vars, rowVars, blocked, clientVars, lostRuns>>

\* deliver_webhook: delivered, or given up
Notify(j) ==
    /\ j \in WithWebhook
    /\ Step(j, {"paid"}, "notified")
    /\ told' \in {told, told \cup {j}}
    /\ UNCHANGED <<vars, rowVars, blocked, clientVars, lostRuns>>

\* The row is COMPLETED.  A payload that fails OutreachResult fails a job with a
\* webhook instead
Complete(j) ==
    /\ Step(j, IF j \in WithWebhook THEN {"notified"} ELSE {"paid"}, "ended")
    /\ \E shows \in Renderings :
          /\ j \in WithWebhook => shows # "error"
          /\ completion' = [completion EXCEPT ![j] = [of |-> tries[j], shows |-> shows]]
          /\ IF shows = "result" THEN Board!Publish(j) ELSE UNCHANGED boardVars
    /\ UNCHANGED <<vars, told, blocked, clientVars, lostRuns>>

FailRun(j) ==
    /\ Step(j, {"begun", "running", "paid", "notified"}, "ended")
    /\ Board!Fail(j)
    /\ completion' = [completion EXCEPT ![j] = NotCompleted]
    /\ UNCHANGED <<vars, told, blocked, clientVars, lostRuns>>

\* ARQ records the end of the run, or gives up a job whose tries are used
EndRun(j) ==
    /\ \/ Step(j, {"ended"}, "finished")
       \/ j \in queue /\ tries[j] = MaxTries /\ Step(j, {"idle"}, "finished")
    /\ UNCHANGED <<vars, rowVars, told, blocked, clientVars, lostRuns>>

Active == {"begun", "running", "paid", "notified", "ended"}

\* The worker dies: the job is run again, if Redis still holds it
Crash(j) ==
    /\ crashes < MaxCrashes
    /\ crashes' = crashes + 1
    /\ Step(j, Active, IF j \in queue THEN "idle" ELSE "finished")
    /\ UNCHANGED <<vars, rowVars, told, blocked, clientVars, vanished>>

\* The run ends without a verdict: an await on Postgres fails, ARQ's timeout, or the
\* handler of an error or of the overall timeout meets the commit of a fetch's trace
Vanish(j) ==
    /\ vanished < MaxCrashes
    /\ vanished' = vanished + 1
    /\ Step(j, Active, "finished")
    /\ UNCHANGED <<vars, rowVars, told, blocked, clientVars, crashes>>

-----------------------------------------------------------------------------
(* The clients *)

\* A client that created a job with a webhook_url waits for it; others poll
Subscribed(r) == r \in WithWebhook /\ reply[r] = 202

Told(r) == Subscribed(r) /\ job[r] \in told
Informed(r) == Verdict(seen[r]) \/ Told(r)

Row(r) == {row \in jobs : row.id = job[r]}

\* get_outreach_status, behind check_cost_budget too; a 500 says nothing of the job.
\* A client whose webhook came need not poll any more
Poll(r) ==
    /\ Answered(r) /\ ~Informed(r)
    /\ ~blocked
    /\ seen' = [seen EXCEPT ![r] = IF Row(r) = {} THEN NotFound ELSE Page(job[r])]
    /\ UNCHANGED <<vars, rowVars, phase, told, blocked, rating, feedback, lostRuns>>

\* Seeded fault: the status is not looked at
CheckRatedUnchecked(r) ==
    /\ r \in Raters /\ rating[r].at = "none" /\ Informed(r)
    /\ Row(r) # {}
    /\ rating' = [rating EXCEPT ![r] = [at |-> "checked", of |-> completion[job[r]].of]]
    /\ UNCHANGED <<vars, rowVars, phase, told, blocked, seen, feedback, lostRuns>>

\* submit_feedback up to its check of the status: 404 and 400 change nothing
CheckRated(r) ==
    /\ r \in Raters /\ rating[r].at = "none" /\ Informed(r)
    /\ Row(r) # {} /\ Completed(job[r])
    /\ rating' = [rating EXCEPT ![r] = [at |-> "checked", of |-> completion[job[r]].of]]
    /\ UNCHANGED <<vars, rowVars, phase, told, blocked, seen, feedback, lostRuns>>

\* submit_outreach_feedback: the row references the job, not the result
InsertRating(r) ==
    /\ rating[r].at = "checked"
    /\ rating' = [rating EXCEPT ![r].at = "done"]
    /\ feedback' = feedback \cup {[job |-> job[r], by |-> r, of |-> rating[r].of]}
    /\ UNCHANGED <<vars, rowVars, phase, told, blocked, seen, lostRuns>>

-----------------------------------------------------------------------------
Run(j) == StartRun(j) \/ Withdraw(j) \/ Pay(j) \/ Notify(j) \/ Complete(j) \/ FailRun(j)
          \/ EndRun(j)

ServiceStep ==
    \/ Submit \/ NewCounters
    \/ \E j \in Requests : Run(j) \/ Crash(j) \/ Vanish(j)
    \/ \E r \in Requests : Poll(r) \/ CheckRated(r) \/ InsertRating(r)

\* A worker that dies counts half of what a store or a handler does
ServiceNext ==
    ServiceStep /\ crashes' + 2 * (faults' + losses' + vanished') <= MaxTroubles

ServiceSpec == ServiceInit /\ [][ServiceNext]_svars

\* Handlers and workers run, and clients poll, a little longer than the script's
\* minute
FairServiceSpec ==
    /\ ServiceSpec
    /\ \A r \in Requests :
          /\ WF_svars(Handle(r) /\ UNCHANGED serviceVars)
          /\ WF_svars(Run(r))
          /\ WF_svars(~Subscribed(r) /\ Poll(r))

-----------------------------------------------------------------------------
(* Properties *)

\* Every variable keeps its type.
ServiceTypes ==
    /\ tries \in [Requests -> 0 .. MaxTries]
    /\ board \in [Requests -> Pages]
    /\ completion \in [Requests -> [of : 0 .. MaxTries, shows : Renderings]]
    /\ phase \in [Requests -> Active \cup {"idle", "finished"}]
    /\ told \subseteq WithWebhook /\ blocked \in BOOLEAN
    /\ seen \in [Requests -> Pages \cup {NotFound}]
    /\ rating \in [Requests -> [at : {"none", "checked", "done"}, of : 0 .. MaxTries]]
    /\ feedback \subseteq [job : Requests, by : Requests, of : 0 .. MaxTries]
    /\ crashes \in 0 .. MaxCrashes /\ vanished \in 0 .. MaxCrashes

\* From POST to GET: a client that was given an id never reads 404, whatever is
\* lost or fails; and all the clients of a prospect and week that read a verdict
\* read the same one, a completion without a result included - only the death of a
\* worker can let two of them read the results of two runs.
ReadersAgree ==
    \A r \in Requests :
        /\ seen[r] # NotFound
        /\ crashes = 0 =>
              \A s \in Requests :
                  (key[r] = key[s] /\ Verdict(seen[r]) /\ Verdict(seen[s])) =>
                      <<job[r], seen[r]>> = <<job[s], seen[s]>>

\* Between the check of submit_feedback and its insert the job may be run again: a
\* rating is still of a completion, whether GET could show its result or not, and
\* while no worker died the job is completed by that very run.
RatingsAreOfCompletions ==
    \A f \in feedback :
        /\ f.of \in 1 .. tries[f.job]
        /\ crashes = 0 => completion[f.job].of = f.of

\* A subscriber whose webhook will not come; its row says why
Untold(r) ==
    /\ Subscribed(r)
    /\ board[job[r]].kind = "failed" \/ (Completed(job[r]) /\ ~Told(r))

\* Polling will not tell: GET answers 500, or every try was lost with its worker
Hopeless(r) ==
    /\ Answered(r)
    /\ Unreadable(job[r]) \/ (tries[job[r]] = MaxTries /\ crashes >= MaxTries)

\* Every client learns what became of its prospect, the one that hit the cache of
\* another's job and the one whose worker died before its last try included: by
\* polling, or by its webhook, unless the job failed or the delivery did.  What it
\* takes to keep a client waiting: workers die at every try, the model's confidence
\* makes GET answer 500, a store fails, Redis is lost, the handler of a failed run
\* gives no verdict, or the key's own jobs use up its daily limit for good.
ClientsLearn ==
    \A r \in Requests :
        <>[]~blocked =>
            (Answered(r) ~>
                \/ Informed(r) \/ Untold(r) \/ Hopeless(r)
                \/ faults + losses + vanished > 0)
=============================================================================
