--------------------------- MODULE CircuitBreaker ---------------------------
(***************************************************************************)
(* The circuit breaker of app/services/llm.py and the calls that share it: *)
(* LLMClient._call_llm with its tenacity retries.  One worker process has  *)
(* one breaker; up to WorkerSettings.max_jobs calls are in flight at once  *)
(* on its event loop, and every await of one lets the others run.  A call  *)
(* reads the breaker before its request and writes to it after the answer, *)
(* by when the breaker may have opened, half-opened or closed.             *)
(*                                                                         *)
(* Timestamps are kept as ages, which Tick advances and caps as soon as no *)
(* comparison can tell them apart.                                         *)
(***************************************************************************)
EXTENDS Integers, Sequences

CONSTANTS
    Callers,     \* the concurrent users of the LLM client
    Threshold,   \* settings.cb_failure_threshold
    Recovery,    \* settings.cb_recovery_timeout_seconds, in ticks
    Window,      \* settings.cb_expected_exception_window_seconds, in ticks
    MaxAttempts  \* stop_after_attempt of _call_llm

ASSUME ThresholdAssumption == Threshold \in Nat \ {0}
ASSUME TimesAssumption == Recovery \in Nat /\ Window \in Nat \ {0}
ASSUME AttemptsAssumption == MaxAttempts \in Nat \ {0}

VARIABLES
    state,     \* "CLOSED", "OPEN" or "HALF_OPEN"
    failures,  \* ages of the recorded failures, oldest first
    openAge,   \* time since opened_at (Recovery + 1: longer ago, or never)
    up,        \* the provider answers every request with a completion
    pc,        \* where each caller stands
    attempt,   \* requests its current call has sent
    via        \* breaker state its pending request was admitted in

breaker == <<state, failures, openAge>>
calls == <<pc, attempt, via>>
vars == <<breaker, up, calls>>

Finish(c, label, n) ==
    /\ pc' = [pc EXCEPT ![c] = label]
    /\ attempt' = [attempt EXCEPT ![c] = n]
    /\ via' = [via EXCEPT ![c] = "none"]

-----------------------------------------------------------------------------
Init ==
    /\ state = "CLOSED" /\ failures = <<>> /\ openAge = Recovery + 1
    /\ up = TRUE
    /\ pc = [c \in Callers |-> "idle"]
    /\ attempt = [c \in Callers |-> 0]
    /\ via = [c \in Callers |-> "none"]

\* can_execute, and the state it leaves behind
CooledDown == openAge > Recovery

\* Seeded fault: one probe, and nothing that ever lets another through
AdmitsOneProbe == state = "CLOSED" \/ (state = "OPEN" /\ CooledDown)

Admits == state = "OPEN" => CooledDown
Checked == IF state = "OPEN" THEN "HALF_OPEN" ELSE state

\* Seeded fault: the breaker is consulted by the first attempt only
AdmitFirstOnly(c) ==
    /\ \/ pc[c] = "idle" /\ Admits /\ state' = Checked
       \/ pc[c] = "backoff" /\ UNCHANGED state
    /\ pc' = [pc EXCEPT ![c] = "inflight"]
    /\ attempt' = [attempt EXCEPT ![c] = @ + 1]
    /\ via' = [via EXCEPT ![c] = state']
    /\ UNCHANGED <<failures, openAge, up>>

\* The first request of a call, or the next one when its backoff is over
Admit(c) ==
    /\ pc[c] \in {"idle", "backoff"}
    /\ Admits
    /\ state' = Checked
    /\ pc' = [pc EXCEPT ![c] = "inflight"]
    /\ attempt' = [attempt EXCEPT ![c] = @ + 1]
    /\ via' = [via EXCEPT ![c] = Checked]
    /\ UNCHANGED <<failures, openAge, up>>

\* CircuitBreakerOpen is not retried: the call ends.  (Refused at its first
\* attempt, a caller is back where it was.)
Refuse(c) ==
    /\ pc[c] = "backoff"
    /\ ~Admits
    /\ Finish(c, "idle", 0)
    /\ UNCHANGED <<breaker, up>>

\* Seeded faults: any success closes the breaker; the old failures stay
RecordSuccessAnyState ==
    /\ state' = "CLOSED" /\ failures' = <<>>
    /\ UNCHANGED openAge
RecordSuccessKeepsFailures ==
    /\ state' = IF state = "HALF_OPEN" THEN "CLOSED" ELSE state
    /\ UNCHANGED <<failures, openAge>>

\* record_success
RecordSuccess ==
    /\ IF state = "HALF_OPEN"
       THEN state' = "CLOSED" /\ failures' = <<>>
       ELSE UNCHANGED <<state, failures>>
    /\ UNCHANGED openAge

\* The first n ages are the ones that have left the window
Expired(f, n) ==
    /\ \A i \in 1 .. n : f[i] >= Window
    /\ \A i \in n + 1 .. Len(f) : f[i] < Window

\* record_failure.  Failures are appended in time order, so those that
\* _clean_old_failures drops come first.
RecordFailure ==
    LET recorded == Append(failures, 0)
    IN  \E n \in 0 .. Len(recorded) :
            /\ Expired(recorded, n)
            /\ failures' = SubSeq(recorded, n + 1, Len(recorded))
            /\ IF Len(failures') >= Threshold
               THEN state' = "OPEN" /\ openAge' = 0
               ELSE UNCHANGED <<state, openAge>>

\* The request is answered with a completion
Succeed(c) ==
    /\ pc[c] = "inflight"
    /\ RecordSuccess
    /\ Finish(c, "idle", 0)
    /\ UNCHANGED up

\* Seeded fault: one retry too many
FailRetryableOnceMore(c) ==
    /\ pc[c] = "inflight" /\ ~up
    /\ RecordFailure
    /\ IF attempt[c] <= MaxAttempts THEN Finish(c, "backoff", attempt[c])
                                    ELSE Finish(c, "idle", 0)
    /\ UNCHANGED up

\* Rate limit, connection error or 5xx: retried with backoff, then raised
FailRetryable(c) ==
    /\ pc[c] = "inflight" /\ ~up
    /\ RecordFailure
    /\ IF attempt[c] < MaxAttempts THEN Finish(c, "backoff", attempt[c])
                                   ELSE Finish(c, "idle", 0)
    /\ UNCHANGED up

\* Any other APIError, or the job's timeout cancelling the call in its request
\* or in its backoff: the breaker hears nothing of it
FailSilently(c) ==
    /\ \/ pc[c] = "inflight"
       \/ pc[c] = "backoff"
    /\ ~up
    /\ Finish(c, "idle", 0)
    /\ UNCHANGED <<breaker, up>>

\* The provider goes down or comes back
Provider == up' = ~up /\ UNCHANGED <<breaker, calls>>

Older(age, cap) == IF age < cap THEN age + 1 ELSE cap

Tick ==
    /\ failures' = [i \in 1 .. Len(failures) |-> Older(failures[i], Window)]
    /\ openAge' = Older(openAge, Recovery + 1)
    /\ UNCHANGED <<state, up, calls>>

-----------------------------------------------------------------------------
Next ==
    \/ \E c \in Callers :
          Admit(c) \/ Refuse(c) \/ Succeed(c) \/ FailRetryable(c) \/ FailSilently(c)
    \/ Provider
    \/ Tick

Spec == Init /\ [][Next]_vars

\* Time passes, requests are answered, and callers keep calling
FairSpec ==
    /\ Spec
    /\ WF_vars(Tick)
    /\ \A c \in Callers : WF_vars(Admit(c)) /\ WF_vars(Succeed(c))

-----------------------------------------------------------------------------
(* Properties *)

\* Every variable keeps its type, and no call sends more than its attempts.
TypeOK ==
    /\ state \in {"CLOSED", "OPEN", "HALF_OPEN"}
    /\ failures \in Seq(0 .. Window)
    /\ openAge \in 0 .. Recovery + 1
    /\ up \in BOOLEAN
    /\ pc \in [Callers -> {"idle", "inflight", "backoff"}]
    /\ attempt \in [Callers -> 0 .. MaxAttempts]
    /\ via \in [Callers -> {"none", "CLOSED", "HALF_OPEN"}]

\* A closed breaker never sits on enough failures to be open: the failures of
\* the outage it recovered from were cleared, however many late answers of
\* that outage arrive after it closed (record_failure, record_success).
ClosedBelowThreshold == state = "CLOSED" => Len(failures) < Threshold

\* For the whole recovery time after the last opening the breaker is OPEN,
\* whatever answers to requests sent before it opened come in late.
CooldownHolds == ~CooledDown => state = "OPEN"

\* No request reaches the provider during the cool-down, neither of a new call
\* nor of a call whose backoff ends then: every attempt consults can_execute.
NoRequestDuringCooldown ==
    [][\A c \in Callers :
          pc[c] # "inflight" /\ pc'[c] = "inflight" => CooledDown]_vars

\* A provider that recovers for good, with callers that keep calling, finds the
\* breaker closed for good: a probe that was cancelled or refused by the
\* provider does not wedge it.
BreakerRecovers == <>[]up => <>[](state = "CLOSED")
=============================================================================
