------------------------------ MODULE LLMCalls ------------------------------
(***************************************************************************)
(* LLMClient._call_with_schema_validation (app/services/llm.py): a call    *)
(* asks for completions until one fits the schema, each of them through    *)
(* _call_llm with its retries and the breaker that all callers share.      *)
(*                                                                         *)
(* The steps are those of CircuitBreaker, each with what it means for the  *)
(* call it belongs to.  Nothing is awaited between a completion that does  *)
(* not fit and the next request; two steps here, so that every behaviour   *)
(* is one of CircuitBreaker, with more interleavings than the code has.    *)
(***************************************************************************)
EXTENDS CircuitBreaker

CONSTANT SchemaAttempts  \* max_schema_retries + 1

ASSUME SchemaAssumption == SchemaAttempts \in Nat \ {0}

VARIABLES
    asked,   \* completions of the current call that did not fit the schema
    sent,    \* ghost: requests of the current call
    billed,  \* ghost: completions the provider billed for the latest call
    stats    \* completions in the total_stats that call returned, 0 before that

callVars == <<asked, sent, billed, stats>>
allVars == <<vars, callVars>>

CallsInit ==
    /\ Init
    /\ asked = [c \in Callers |-> 0] /\ sent = [c \in Callers |-> 0]
    /\ billed = [c \in Callers |-> 0] /\ stats = [c \in Callers |-> 0]

InCall(c) == pc[c] # "idle" \/ asked[c] > 0

\* The call leaves _call_with_schema_validation
End(c) == asked' = [asked EXCEPT ![c] = 0] /\ sent' = [sent EXCEPT ![c] = 0]
Raise(c) == End(c) /\ UNCHANGED stats
Bill(c) == billed' = [billed EXCEPT ![c] = @ + 1]

-----------------------------------------------------------------------------
BeginCall(c) ==
    /\ ~InCall(c)
    /\ Admit(c)
    /\ sent' = [sent EXCEPT ![c] = 1]
    /\ billed' = [billed EXCEPT ![c] = 0] /\ stats' = [stats EXCEPT ![c] = 0]
    /\ UNCHANGED asked

\* A request that asks again: after a backoff, or with the validation error
Ask(c) ==
    /\ InCall(c)
    /\ Admit(c)
    /\ sent' = [sent EXCEPT ![c] = @ + 1]
    /\ UNCHANGED <<asked, billed, stats>>

\* Seeded fault: the call waits for the breaker to let it ask again
RefuseWaiting(c) ==
    /\ Refuse(c)
    /\ Raise(c)
    /\ UNCHANGED billed

\* CircuitBreakerOpen, out of _call_llm and of the loop: what was billed so far
\* is dropped with total_stats
RefuseCall(c) ==
    /\ InCall(c)
    /\ Refuse(c) \/ (pc[c] = "idle" /\ ~Admits /\ UNCHANGED vars)
    /\ Raise(c)
    /\ UNCHANGED billed

\* Seeded fault: one attempt too many
RejectOnceMore(c) ==
    /\ Succeed(c)
    /\ Bill(c)
    /\ IF asked[c] < SchemaAttempts
       THEN asked' = [asked EXCEPT ![c] = @ + 1] /\ UNCHANGED <<sent, stats>>
       ELSE Raise(c)

\* The completion does not fit the schema: a success to the breaker, and asked
\* again, or SchemaViolationError
Reject(c) ==
    /\ Succeed(c)
    /\ Bill(c)
    /\ IF asked[c] + 1 < SchemaAttempts
       THEN asked' = [asked EXCEPT ![c] = @ + 1] /\ UNCHANGED <<sent, stats>>
       ELSE Raise(c)

\* Seeded fault: the statistics are those of the last completion
AcceptLast(c) ==
    /\ Succeed(c)
    /\ Bill(c)
    /\ End(c)
    /\ stats' = [stats EXCEPT ![c] = 1]

\* It fits: returned with the sum of all completions
Accept(c) ==
    /\ Succeed(c)
    /\ Bill(c)
    /\ End(c)
    /\ stats' = [stats EXCEPT ![c] = asked[c] + 1]

\* A completion without content or choices: an error that nothing catches
Drop(c) ==
    /\ Succeed(c)
    /\ Bill(c)
    /\ Raise(c)

\* Seeded fault: the schema loop goes on when the attempts are used up
FailAttemptSwallowed(c) ==
    /\ FailRetryable(c)
    /\ UNCHANGED callVars

\* The request fails and is retried, or its attempts are used up
FailAttempt(c) ==
    /\ FailRetryable(c)
    /\ IF attempt[c] < MaxAttempts THEN UNCHANGED <<asked, sent, stats>> ELSE Raise(c)
    /\ UNCHANGED billed

\* An error that is not retried, or the job's timeout
FailCall(c) ==
    /\ FailSilently(c)
    /\ Raise(c)
    /\ UNCHANGED billed

-----------------------------------------------------------------------------
Proceed(c) == Ask(c) \/ RefuseCall(c)
Answer(c) == Reject(c) \/ Accept(c) \/ Drop(c) \/ FailAttempt(c) \/ FailCall(c)

CallsNext ==
    \/ \E c \in Callers : BeginCall(c) \/ Proceed(c) \/ Answer(c)
    \/ (Provider \/ Tick) /\ UNCHANGED callVars

CallsSpec == CallsInit /\ [][CallsNext]_allVars

\* Requests are answered, or fail; backoffs end
FairCallsSpec ==
    CallsSpec /\ \A c \in Callers : WF_allVars(Proceed(c)) /\ WF_allVars(Answer(c))

-----------------------------------------------------------------------------
(* Properties *)

\* Every variable keeps its type.
CallTypes ==
    /\ asked \in [Callers -> 0 .. SchemaAttempts - 1]
    /\ sent \in [Callers -> Nat]
    /\ billed \in [Callers -> 0 .. SchemaAttempts]
    /\ stats \in [Callers -> 0 .. SchemaAttempts]

\* The retries of _call_llm are nested in those of the schema: whatever the
\* provider and the other callers do, a call sends MaxAttempts requests for each
\* completion it may ask for, and never more.
RequestsBounded ==
    \A c \in Callers : sent[c] <= MaxAttempts * asked[c] + attempt[c]

\* The breaker is not bypassed: with the calls around it, it is CircuitBreaker.
ImplementsBreaker == Spec

\* For the pipeline a call is a step of NamedCall: the statistics it returns are
\* those of all the completions billed for it, however many retries of both
\* kinds, probes and refusals of the breaker lie between them.
Promise == INSTANCE NamedCall WITH open <- {c \in Callers : InCall(c)}
ImplementsNamedCall == Promise!Spec

\* Every call ends, also when the breaker opens under it, the provider comes and
\* goes, and answers keep failing the schema.
CallsEnd == \A c \in Callers : InCall(c) ~> ~InCall(c)
=============================================================================
