------------------------------- MODULE Budget -------------------------------
(***************************************************************************)
(* API keys and what they may spend: validate_api_key and revoke_api_key   *)
(* (app/security/auth.py), the dependency check_cost_budget                *)
(* (app/dependencies.py) in front of the outreach routes, CostService      *)
(* (app/services/cost.py) and the worker's own check                       *)
(* (app/services/research.py).                                             *)
(*                                                                         *)
(* Requests and jobs run interleaved.  Every call of CostService reads the *)
(* UTC day anew, and only the counters of that day are ever read: those of *)
(* a day gone by are as good as expired, and those of today cannot expire, *)
(* for every charge renews their 25 hours.  A request that was admitted is *)
(* answered at once, and the job of an admitted POST goes by the name of   *)
(* its request.  Costs are integers in a unit finer than the micro-dollar. *)
(***************************************************************************)
EXTENDS Integers, FiniteSets, Functions

CONSTANTS
    Requests,      \* the HTTP requests, each handled once
    Keys,          \* API keys
    Ceiling,       \* ApiKey.daily_cost_limit_usd of each key
    DefaultLimit,  \* settings.per_key_daily_cost_limit_usd
    Slots,         \* WorkerSettings.max_jobs
    Calls,         \* LLM calls of a job
    MaxCost,       \* no LLM call costs more
    Costs,         \* bound: what an LLM call may cost, in a unit of which ...
    Grain,         \* ... so many make the micro-dollar of the counters
    MaxDeaths,     \* bound: runs lost with their worker
    MaxResets      \* bound: days that end, and times Redis comes back empty

ASSUME LimitsAssumption ==
    Ceiling \in [Keys -> Nat] /\ DefaultLimit \in Nat /\ Slots \in Nat \ {0}
ASSUME CallsAssumption ==
    /\ Calls \in Nat \ {0} /\ MaxCost \in Nat /\ Costs \subseteq 0 .. MaxCost
    /\ Grain \in Nat \ {0}
ASSUME FinitenessAssumption == IsFiniteSet(Requests) /\ IsFiniteSet(Keys)
ASSUME BoundsAssumption == MaxDeaths \in Nat /\ MaxResets \in Nat

VARIABLES
    active,    \* ApiKey.is_active
    revoked,   \* ghost: revoke_api_key was called
    keySpend,  \* today's Redis counters cost:<key>:<day>
    allSpend,  \* today's Redis counter cost:global:<day>
    counted,   \* ghost: what was ever counted for each key ...
    charges,   \* ... and how often
    queue,     \* the jobs that ARQ's queue in Redis holds until they are done
    pc,        \* where each request, and then its job, stands
    key,       \* its API key
    late,      \* ghost: the key had been revoked when the request came in
    reply,     \* status code answered, 0 before the answer
    calls,     \* LLM calls that the current run of its job has saved
    cost,      \* what its latest LLM call cost, until it is saved
    micro,     \* what of that was counted, until it is counted globally
    total,     \* total_cost_usd in the row of the job
    deaths, resets

counters == <<keySpend, allSpend>>
ghosts == <<counted, charges>>
identity == <<key, late>>
run == <<calls, cost, micro>>
bounds == <<deaths, resets>>
vars == <<active, revoked, counters, ghosts, queue, pc, identity, reply, run, total, bounds>>

RequestStages == {"lookup", "touch", "admission"}
RunStages == {"check", "call", "charge_key", "charge_all", "save"}

Running == {r \in Requests : pc[r] \in RunStages}

Goto(r, from, to) == pc[r] = from /\ pc' = [pc EXCEPT ![r] = to]
Reply(r, from, code, to) ==
    /\ Goto(r, from, to)
    /\ reply' = [reply EXCEPT ![r] = code]

-----------------------------------------------------------------------------
Init ==
    /\ active = [k \in Keys |-> TRUE] /\ revoked = [k \in Keys |-> FALSE]
    /\ keySpend = [k \in Keys |-> 0] /\ allSpend = 0
    /\ counted = [k \in Keys |-> 0] /\ charges = [k \in Keys |-> 0]
    /\ queue = {}
    /\ pc = [r \in Requests |-> "idle"]
    /\ key \in [Requests -> Keys]
    /\ late = [r \in Requests |-> FALSE]
    /\ reply = [r \in Requests |-> 0]
    /\ calls = [r \in Requests |-> 0]
    /\ cost = [r \in Requests |-> 0] /\ micro = [r \in Requests |-> 0]
    /\ total = [r \in Requests |-> 0]
    /\ deaths = 0 /\ resets = 0

-----------------------------------------------------------------------------
(* Admission *)

Receive(r) ==
    /\ Goto(r, "idle", "lookup")
    /\ late' = [late EXCEPT ![r] = revoked[key[r]]]
    /\ UNCHANGED <<active, revoked, counters, ghosts, queue, key, reply, run, total, bounds>>

\* validate_api_key: SELECT the row of the key
Authenticate(r) ==
    /\ \/ active[key[r]] /\ Goto(r, "lookup", "touch") /\ UNCHANGED reply
       \/ ~active[key[r]] /\ Reply(r, "lookup", 403, "done")
    /\ UNCHANGED <<active, revoked, counters, ghosts, queue, identity, run, total, bounds>>

\* Seeded fault: the commit writes the row back as it was read
TouchWholeRow(r) ==
    /\ Goto(r, "touch", "admission")
    /\ active' = [active EXCEPT ![key[r]] = TRUE]
    /\ UNCHANGED <<revoked, counters, ghosts, queue, identity, reply, run, total, bounds>>

\* It commits last_used_at, and that column only
Touch(r) ==
    /\ Goto(r, "touch", "admission")
    /\ UNCHANGED <<active, revoked, counters, ghosts, queue, identity, reply, run, total,
                   bounds>>

\* check_key_budget: a limit of 0 never blocks
Blocked(k, limit) == limit > 0 /\ keySpend[k] >= limit

\* check_cost_budget, then the handler of the route: a GET is answered from the
\* row, as is a POST that hits its idempotency key; another POST queues a job, and
\* still reads the counters again for the cost headers, which may fail
Admit(r) ==
    /\ \/ /\ Blocked(key[r], Ceiling[key[r]])
          /\ Reply(r, "admission", 429, "done") /\ UNCHANGED queue
       \/ /\ ~Blocked(key[r], Ceiling[key[r]])
          /\ \/ Reply(r, "admission", 200, "done") /\ UNCHANGED queue
             \/ /\ queue' = queue \cup {r}
                /\ \E code \in {202, 500} : Reply(r, "admission", code, "queued")
    /\ UNCHANGED <<active, revoked, counters, ghosts, identity, run, total, bounds>>

\* revoke_api_key (the repository has no caller of it)
Revoke(k) ==
    /\ active' = [active EXCEPT ![k] = FALSE]
    /\ revoked' = [revoked EXCEPT ![k] = TRUE]
    /\ UNCHANGED <<counters, ghosts, queue, pc, identity, reply, run, total, bounds>>

-----------------------------------------------------------------------------
(* The job *)

Start(r) ==
    /\ r \in queue
    /\ Cardinality(Running) < Slots
    /\ Goto(r, "queued", "check")
    /\ calls' = [calls EXCEPT ![r] = 0]
    /\ UNCHANGED <<active, revoked, counters, ghosts, queue, identity, reply, cost, micro,
                   total, bounds>>

\* Seeded fault: the check at admission is relied upon
CheckBudgetSkipped(r) ==
    /\ Goto(r, "check", "call")
    /\ UNCHANGED <<active, revoked, counters, ghosts, queue, identity, reply, run, total,
                   bounds>>

\* The worker compares with its setting, whatever the key's own limit
CheckBudget(r) ==
    /\ Goto(r, "check", IF Blocked(key[r], DefaultLimit) THEN "done" ELSE "call")
    /\ UNCHANGED <<active, revoked, counters, ghosts, queue, identity, reply, run, total,
                   bounds>>

\* A call that raises instead leaves nothing to charge: Abort
CallLLM(r) ==
    /\ Goto(r, "call", "charge_key")
    /\ \E c \in Costs : cost' = [cost EXCEPT ![r] = c]
    /\ UNCHANGED <<active, revoked, counters, ghosts, queue, identity, reply, calls, micro,
                   total, bounds>>

\* Seeded fault: int(cost_usd) * 1_000_000
CountedInDollars(c) == {0}

\* int(cost_usd * 1_000_000): whole micro-dollars, the rest is dropped.  The
\* product is a float: a whole one may come out as just less.
Counted(c) == {n \in 0 .. c : n % Grain = 0 /\ c <= n + Grain}

\* Seeded fault: SET where INCRBY is meant
ChargeKeyBySet(r) ==
    /\ Goto(r, "charge_key", "charge_all")
    /\ \E n \in Counted(cost[r]) :
          /\ keySpend' = [keySpend EXCEPT ![key[r]] = n]
          /\ counted' = [counted EXCEPT ![key[r]] = @ + n]
          /\ micro' = [micro EXCEPT ![r] = n]
    /\ charges' = [charges EXCEPT ![key[r]] = @ + 1]
    /\ UNCHANGED <<active, revoked, allSpend, queue, identity, reply, calls, cost, total,
                   bounds>>

\* record_cost: INCRBY of the key's counter of the day ...
ChargeKey(r) ==
    /\ Goto(r, "charge_key", "charge_all")
    /\ \E n \in Counted(cost[r]) :
          /\ keySpend' = [keySpend EXCEPT ![key[r]] = @ + n]
          /\ counted' = [counted EXCEPT ![key[r]] = @ + n]
          /\ micro' = [micro EXCEPT ![r] = n]
    /\ charges' = [charges EXCEPT ![key[r]] = @ + 1]
    /\ UNCHANGED <<active, revoked, allSpend, queue, identity, reply, calls, cost, total,
                   bounds>>

\* ... and of the global one, maybe of the next day
ChargeAll(r) ==
    /\ Goto(r, "charge_all", "save")
    /\ allSpend' = allSpend + micro[r]
    /\ micro' = [micro EXCEPT ![r] = 0]
    /\ UNCHANGED <<active, revoked, keySpend, ghosts, queue, identity, reply, calls, cost,
                   total, bounds>>

\* Seeded fault: the stages go round once more
SaveOneMore(r) ==
    /\ Goto(r, "save", IF calls[r] + 1 <= Calls THEN "call" ELSE "done")
    /\ total' = [total EXCEPT ![r] = @ + cost[r]]
    /\ calls' = [calls EXCEPT ![r] = @ + 1]
    /\ cost' = [cost EXCEPT ![r] = 0]
    /\ UNCHANGED <<active, revoked, counters, ghosts, queue, identity, reply, micro, bounds>>

\* total_cost_usd is added to, untruncated, and committed with the result of the call
Save(r) ==
    /\ Goto(r, "save", IF calls[r] + 1 < Calls THEN "call" ELSE "done")
    /\ total' = [total EXCEPT ![r] = @ + cost[r]]
    /\ calls' = [calls EXCEPT ![r] = @ + 1]
    /\ cost' = [cost EXCEPT ![r] = 0]
    /\ UNCHANGED <<active, revoked, counters, ghosts, queue, identity, reply, micro, bounds>>

\* What a run held in memory is gone
Forget(r, to) ==
    /\ pc' = [pc EXCEPT ![r] = to]
    /\ cost' = [cost EXCEPT ![r] = 0] /\ micro' = [micro EXCEPT ![r] = 0]

\* A request meets an error of a store; a run fails or times out
Abort(r) ==
    /\ pc[r] \in RequestStages \cup RunStages
    /\ Forget(r, "done")
    /\ reply' = [reply EXCEPT ![r] = IF @ = 0 THEN 500 ELSE @]
    /\ UNCHANGED <<active, revoked, counters, ghosts, queue, identity, calls, total, bounds>>

\* The worker of a run dies, and ARQ runs the job again, if its queue still has it
Kill(r) ==
    /\ deaths < MaxDeaths
    /\ r \in queue
    /\ pc[r] \in RunStages
    /\ deaths' = deaths + 1
    /\ Forget(r, "queued")
    /\ UNCHANGED <<active, revoked, counters, ghosts, queue, identity, reply, calls, total,
                   resets>>

-----------------------------------------------------------------------------
(* The counters start anew *)

Reset ==
    /\ resets < MaxResets
    /\ resets' = resets + 1
    /\ keySpend' = [k \in Keys |-> 0] /\ allSpend' = 0
    /\ UNCHANGED <<active, revoked, ghosts, pc, identity, reply, run, total, deaths>>

Midnight == Reset /\ UNCHANGED queue

\* Redis restarts without its data: docker-compose gives it no volume
RedisLoss == Reset /\ queue' = {}

-----------------------------------------------------------------------------
Next ==
    \/ \E r \in Requests :
          \/ Receive(r) \/ Authenticate(r) \/ Touch(r) \/ Admit(r)
          \/ Start(r) \/ CheckBudget(r) \/ CallLLM(r) \/ ChargeKey(r) \/ ChargeAll(r)
          \/ Save(r) \/ Abort(r) \/ Kill(r)
    \/ \E k \in Keys : Revoke(k)
    \/ Midnight \/ RedisLoss

Spec == Init /\ [][Next]_vars

-----------------------------------------------------------------------------
(* Properties *)

\* Every variable keeps its type.
TypeOK ==
    /\ active \in [Keys -> BOOLEAN] /\ revoked \in [Keys -> BOOLEAN]
    /\ keySpend \in [Keys -> Nat] /\ allSpend \in Nat
    /\ counted \in [Keys -> Nat] /\ charges \in [Keys -> Nat]
    /\ queue \subseteq Requests
    /\ pc \in [Requests -> {"idle", "queued", "done"} \cup RequestStages \cup RunStages]
    /\ key \in [Requests -> Keys]
    /\ late \in [Requests -> BOOLEAN]
    /\ reply \in [Requests -> {0, 200, 202, 403, 429, 500}]
    /\ calls \in [Requests -> 0 .. Calls]
    /\ cost \in [Requests -> 0 .. MaxCost] /\ micro \in [Requests -> 0 .. MaxCost]
    /\ total \in [Requests -> Nat]
    /\ deaths \in 0 .. MaxDeaths /\ resets \in 0 .. MaxResets

\* README, "Old key immediately returns 403": no request that comes in after the
\* revocation of its key is served, although requests that passed validation
\* before it still write to the key's row.
RevokedIsRefused ==
    \A r \in Requests : late[r] => reply[r] \in {0, 403, 500}

\* On no day does a key overshoot the worker's limit by more than the runs in
\* flight can spend, those that were checked the day before, or before a restart of
\* Redis, included.
DailyOvershootBounded ==
    DefaultLimit > 0 =>
        \A k \in Keys : keySpend[k] < DefaultLimit + Slots * Calls * MaxCost

\* The global counter is ahead of the keys' counters by no more than the runs that
\* a midnight or a restart of Redis caught between the two halves of record_cost:
\* one call for each slot, however many halves are lost with their runs.
GlobalAheadBounded ==
    allSpend <= SumFunctionOnSet(keySpend, Keys) + Slots * MaxCost

\* What the rows of a key report was counted for it before, but for less than a
\* micro-dollar, or the float's loss of one, at each charge: whatever dies, is run
\* again or is reset between the two.
SpendIsCounted ==
    \A k \in Keys :
        SumFunctionOnSet(total, {r \in Requests : key[r] = k})
            <= counted[k] + Grain * charges[k]
=============================================================================
