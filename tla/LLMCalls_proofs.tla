-------------------------- MODULE LLMCalls_proofs ---------------------------
(***************************************************************************)
(* The circuit breaker and the LLM calls built on it, for any number of    *)
(* concurrent callers and any threshold, recovery time, window and number  *)
(* of attempts and completions: the breaker's own guarantees; then that a  *)
(* validated call respects the breaker, makes a bounded number of          *)
(* requests, and may be taken by the pipeline as one step.                 *)
(***************************************************************************)
EXTENDS LLMCalls, SequenceTheorems, TLAPS

-----------------------------------------------------------------------------
(* The breaker: its inductive invariant *)

\* A backoff is only entered with an attempt left, and a call that waits or
\* rests has used what its stage says.
AttemptsLeft ==
    \A c \in Callers :
        /\ pc[c] = "backoff" => attempt[c] < MaxAttempts
        /\ pc[c] = "idle" => attempt[c] = 0

IInv ==
    /\ TypeOK
    /\ AttemptsLeft
    /\ ClosedBelowThreshold
    /\ CooldownHolds

-----------------------------------------------------------------------------
(* What the breaker's own operations do *)

\* Recording a failure keeps the types, opens at the threshold and starts the
\* cool-down when it opens; below it nothing but the list changes.
LEMMA RecordFailureEffect ==
    ASSUME TypeOK, ClosedBelowThreshold, CooldownHolds, RecordFailure
    PROVE  /\ state' \in {"CLOSED", "OPEN", "HALF_OPEN"}
           /\ failures' \in Seq(0 .. Window)
           /\ openAge' \in 0 .. Recovery + 1
           /\ ClosedBelowThreshold'
           /\ CooldownHolds'
<1> DEFINE recorded == Append(failures, 0)
<1>1. recorded \in Seq(0 .. Window)
    BY TimesAssumption DEF TypeOK
<1>2. PICK n \in 0 .. Len(recorded) :
          /\ failures' = SubSeq(recorded, n + 1, Len(recorded))
          /\ IF Len(failures') >= Threshold
             THEN state' = "OPEN" /\ openAge' = 0
             ELSE UNCHANGED <<state, openAge>>
    BY DEF RecordFailure
<1>3. failures' \in Seq(0 .. Window) /\ Len(failures') \in Nat
    <2>1. \A i \in n + 1 .. Len(recorded) : recorded[i] \in 0 .. Window
        <3> HIDE DEF recorded
        <3>1. Len(recorded) \in Nat
            BY <1>1, LenProperties
        <3>2. n \in Nat
            BY <3>1
        <3>3. \A i \in 1 .. Len(recorded) : recorded[i] \in 0 .. Window
            BY <1>1, ElementOfSeq
        <3> QED BY <3>1, <3>2, <3>3
    <2>2. Len(recorded) \in Int /\ n + 1 \in Int
        <3> HIDE DEF recorded
        <3> QED BY <1>1, LenProperties
    <2>3. SubSeq(recorded, n + 1, Len(recorded)) \in Seq(0 .. Window)
        <3> HIDE DEF recorded
        <3> QED BY <2>1, <2>2, SubSeqProperties
    <2>4. failures' \in Seq(0 .. Window)
        BY <1>2, <2>3
    <2> QED BY <2>4, LenProperties
<1> QED BY <1>2, <1>3, ThresholdAssumption, TimesAssumption
        DEF TypeOK, ClosedBelowThreshold, CooldownHolds, CooledDown

\* A success closes a half-open breaker with an empty list and is without
\* effect in the other states.
LEMMA RecordSuccessEffect ==
    ASSUME TypeOK, ClosedBelowThreshold, CooldownHolds, RecordSuccess
    PROVE  /\ state' \in {"CLOSED", "OPEN", "HALF_OPEN"}
           /\ failures' \in Seq(0 .. Window)
           /\ openAge' \in 0 .. Recovery + 1
           /\ ClosedBelowThreshold'
           /\ CooldownHolds'
<1> USE ThresholdAssumption
    DEF TypeOK, ClosedBelowThreshold, CooldownHolds, CooledDown, RecordSuccess
<1>1. CASE state = "HALF_OPEN"
    <2>1. failures' = <<>> /\ state' = "CLOSED" /\ openAge' = openAge
        BY <1>1
    <2>2. failures' \in Seq(0 .. Window) /\ Len(failures') = 0
        BY <2>1, EmptySeq
    <2> QED BY <1>1, <2>1, <2>2
<1>2. CASE state # "HALF_OPEN"
    BY <1>2
<1> QED BY <1>1, <1>2

-----------------------------------------------------------------------------
(* The invariant is inductive *)

\* The breaker starts closed with nothing recorded and nobody calling.
LEMMA InitIInv == Init => IInv
BY ThresholdAssumption, TimesAssumption, AttemptsAssumption
DEF Init, IInv, TypeOK, AttemptsLeft, ClosedBelowThreshold, CooldownHolds, CooledDown

\* Every admission, answer, refusal, cancellation and tick preserves it.
LEMMA NextIInv == IInv /\ [Next]_vars => IInv'
<1> SUFFICES ASSUME IInv, [Next]_vars PROVE IInv'
    OBVIOUS
<1> USE AttemptsAssumption DEF IInv, TypeOK, AttemptsLeft, breaker, calls, Finish
<1>1. ASSUME NEW c \in Callers, Admit(c) PROVE IInv'
    <2>1. state' \in {"CLOSED", "HALF_OPEN"}
        BY <1>1 DEF Admit, Checked
    <2>2. ClosedBelowThreshold' /\ CooldownHolds'
        BY <1>1 DEF Admit, Admits, Checked, ClosedBelowThreshold, CooldownHolds, CooledDown
    <2>3. attempt[c] < MaxAttempts
        BY <1>1 DEF Admit
    <2>4. AttemptsLeft'
        BY <1>1 DEF Admit
    <2> QED BY <1>1, <2>1, <2>2, <2>3, <2>4 DEF Admit, Checked
<1>2. ASSUME NEW c \in Callers, Refuse(c) PROVE IInv'
    BY <1>2 DEF Refuse, ClosedBelowThreshold, CooldownHolds, CooledDown
<1>3. ASSUME NEW c \in Callers, Succeed(c) PROVE IInv'
    BY <1>3, RecordSuccessEffect DEF Succeed
<1>4. ASSUME NEW c \in Callers, FailRetryable(c) PROVE IInv'
    <2>1. /\ state' \in {"CLOSED", "OPEN", "HALF_OPEN"}
          /\ failures' \in Seq(0 .. Window) /\ openAge' \in 0 .. Recovery + 1
          /\ ClosedBelowThreshold' /\ CooldownHolds' /\ up' = up
        BY <1>4, RecordFailureEffect DEF FailRetryable
    <2>2. CASE attempt[c] < MaxAttempts /\ Finish(c, "backoff", attempt[c])
        BY <2>1, <2>2
    <2>3. CASE Finish(c, "idle", 0)
        BY <2>1, <2>3
    <2> QED BY <1>4, <2>2, <2>3 DEF FailRetryable
<1>5. ASSUME NEW c \in Callers, FailSilently(c) PROVE IInv'
    BY <1>5 DEF FailSilently, ClosedBelowThreshold, CooldownHolds, CooledDown
<1>6. CASE Provider
    BY <1>6 DEF Provider, ClosedBelowThreshold, CooldownHolds, CooledDown
<1>7. CASE Tick
    <2>1. failures' \in Seq(0 .. Window) /\ Len(failures') = Len(failures)
        BY <1>7, TimesAssumption DEF Tick, Older
    <2>2. openAge' \in 0 .. Recovery + 1 /\ (CooledDown => CooledDown')
        BY <1>7, TimesAssumption DEF Tick, Older, CooledDown
    <2> QED BY <1>7, <2>1, <2>2 DEF Tick, ClosedBelowThreshold, CooldownHolds
<1>8. CASE UNCHANGED vars
    BY <1>8 DEF vars, ClosedBelowThreshold, CooldownHolds, CooledDown
<1> QED BY <1>1, <1>2, <1>3, <1>4, <1>5, <1>6, <1>7, <1>8 DEF Next

\* While the cool-down lasts no step puts a request in flight.
LEMMA CooldownStep ==
    ASSUME IInv, [Next]_vars, NEW c \in Callers, pc[c] # "inflight", pc'[c] = "inflight"
    PROVE  CooledDown
<1>1. Admit(c)
    BY DEF Next, vars, calls, breaker, Admit, Refuse, Succeed, FailRetryable,
           FailSilently, Provider, Tick, Finish, IInv, TypeOK
<1> QED BY <1>1 DEF Admit, Admits, IInv, CooldownHolds

-----------------------------------------------------------------------------
(* The theorems *)

\* The invariant holds in every reachable state.
THEOREM Invariance == Spec => []IInv
BY InitIInv, NextIInv, PTL DEF Spec

\* Types hold, and no call exceeds its attempts.
THEOREM TypeCorrect == Spec => []TypeOK
<1>1. IInv => TypeOK
    BY DEF IInv
<1> QED BY <1>1, Invariance, PTL

\* A closed breaker is below its threshold, whatever late failures arrive.
THEOREM Closed == Spec => []ClosedBelowThreshold
<1>1. IInv => ClosedBelowThreshold
    BY DEF IInv
<1> QED BY <1>1, Invariance, PTL

\* No late success ends a cool-down early.
THEOREM Cooldown == Spec => []CooldownHolds
<1>1. IInv => CooldownHolds
    BY DEF IInv
<1> QED BY <1>1, Invariance, PTL

\* No attempt, first or repeated, is sent during a cool-down.
THEOREM NoRequests == Spec => NoRequestDuringCooldown
<1>1. IInv /\ [Next]_vars =>
          [\A c \in Callers :
              pc[c] # "inflight" /\ pc'[c] = "inflight" => CooledDown]_vars
    BY CooldownStep
<1> QED BY <1>1, Invariance, PTL DEF Spec, NoRequestDuringCooldown

-----------------------------------------------------------------------------
(* The calls are built from the breaker's steps *)

\* Each step of a call is one of CircuitBreaker, or leaves its variables alone.
LEMMA StepIsBreakers == [CallsNext]_allVars => [Next]_vars
<1> SUFFICES ASSUME [CallsNext]_allVars PROVE Next \/ UNCHANGED vars
    OBVIOUS
<1>1. ASSUME NEW c \in Callers, BeginCall(c) \/ Proceed(c) \/ Answer(c)
      PROVE  Next \/ UNCHANGED vars
    <2>1. \/ Admit(c) \/ Refuse(c) \/ Succeed(c) \/ FailRetryable(c) \/ FailSilently(c)
          \/ UNCHANGED vars
        BY <1>1 DEF BeginCall, Proceed, Ask, RefuseCall, Answer, Reject, Accept, Drop,
                    FailAttempt, FailCall
    <2> QED BY <2>1 DEF Next
<1>2. CASE UNCHANGED allVars
    BY <1>2 DEF allVars
<1> QED BY <1>1, <1>2 DEF CallsNext, Next

\* The calls keep to the breaker.
THEOREM RefinesBreaker == CallsSpec => ImplementsBreaker
<1>1. CallsInit => Init
    BY DEF CallsInit
<1> QED BY <1>1, StepIsBreakers, PTL DEF CallsSpec, ImplementsBreaker, Spec

\* No request of any call, first, retried or asked for again, goes out during a
\* cool-down of the breaker.
THEOREM NoCallDuringCooldown == CallsSpec => NoRequestDuringCooldown
BY RefinesBreaker, NoRequests, PTL DEF ImplementsBreaker

-----------------------------------------------------------------------------
(* The calls: their inductive invariant *)

\* In a call the completions billed are those that did not fit the schema; the
\* requests sent are those of their attempts and of the current one.
CallFits(c) ==
    /\ InCall(c) => billed[c] = asked[c] /\ stats[c] = 0
    /\ sent[c] <= MaxAttempts * asked[c] + attempt[c]

CInv == IInv /\ CallTypes /\ \A c \in Callers : CallFits(c)

\* No call has begun.
LEMMA InitCInv == CallsInit => CInv
<1> SUFFICES ASSUME CallsInit PROVE CInv
    OBVIOUS
<1>1. IInv
    BY InitIInv DEF CallsInit
<1>2. CallTypes
    BY SchemaAssumption DEF CallsInit, CallTypes
<1>3. ASSUME NEW c \in Callers PROVE CallFits(c)
    BY <1>3, AttemptsAssumption DEF CallsInit, Init, CallFits, InCall
<1> QED BY <1>1, <1>2, <1>3 DEF CInv

\* The attempts of one completion more.
LEMMA OneMore ==
    ASSUME NEW n \in Nat
    PROVE  MaxAttempts * n \in Nat /\ MaxAttempts * (n + 1) = MaxAttempts * n + MaxAttempts
BY AttemptsAssumption

\* One request more, for one attempt more.
LEMMA OneSent ==
    ASSUME NEW p \in Nat, NEW a \in Nat, NEW s \in Nat, NEW t \in Nat,
           s <= p + a, t <= s + 1
    PROVE  t <= p + (a + 1)
OBVIOUS

\* What the invariant says of a caller is about that caller alone.
LEMMA CallFrame ==
    ASSUME CInv, IInv', CallTypes', NEW c \in Callers, CallFits(c)',
           \A d \in Callers \ {c} :
               /\ pc'[d] = pc[d] /\ attempt'[d] = attempt[d] /\ asked'[d] = asked[d]
               /\ sent'[d] = sent[d] /\ billed'[d] = billed[d] /\ stats'[d] = stats[d]
    PROVE  CInv'
<1> SUFFICES ASSUME NEW d \in Callers PROVE CallFits(d)'
    BY DEF CInv
<1>1. CASE d = c
    BY <1>1
<1>2. CASE d # c
    BY <1>2 DEF CInv, CallFits, InCall
<1> QED BY <1>1, <1>2

\* A request goes out.
LEMMA AskStep ==
    ASSUME CInv, IInv', NEW c \in Callers, BeginCall(c) \/ Ask(c)
    PROVE  CInv'
<1> USE SchemaAssumption DEF CInv, IInv, TypeOK, CallTypes
<1>1. CallTypes'
    <2>1. CASE BeginCall(c)
        BY <2>1 DEF BeginCall
    <2>2. CASE Ask(c)
        BY SMTT(30), <2>2 DEF Ask
    <2> QED BY <2>1, <2>2
<1>2. /\ pc'[c] = "inflight" /\ attempt'[c] = attempt[c] + 1
      /\ asked'[c] = asked[c] /\ billed'[c] = asked'[c] /\ stats'[c] = 0
      /\ sent'[c] <= sent[c] + 1
    BY DEF BeginCall, Ask, Admit, InCall, CallFits
<1>3. CallFits(c)'
    <2>1. sent[c] <= MaxAttempts * asked[c] + attempt[c]
        BY DEF CallFits
    <2>2. MaxAttempts * asked[c] \in Nat /\ attempt[c] \in Nat /\ sent[c] \in Nat
        BY OneMore, AttemptsAssumption
    <2>3. sent'[c] \in Nat
        BY <1>1
    <2>4. sent'[c] <= MaxAttempts * asked[c] + (attempt[c] + 1)
        BY ONLY <1>2, <2>1, <2>2, <2>3, OneSent
    <2>5. sent'[c] <= MaxAttempts * asked'[c] + attempt'[c]
        BY ONLY <1>2, <2>4
    <2> QED BY <1>2, <2>5 DEF CallFits
<1>4. \A d \in Callers \ {c} :
          /\ pc'[d] = pc[d] /\ attempt'[d] = attempt[d] /\ asked'[d] = asked[d]
          /\ sent'[d] = sent[d] /\ billed'[d] = billed[d] /\ stats'[d] = stats[d]
    BY SMTT(30) DEF BeginCall, Ask, Admit
<1> QED BY <1>1, <1>3, <1>4, CallFrame

\* A completion that does not fit is billed, and another one is asked for.
LEMMA RejectStep ==
    ASSUME CInv, IInv', NEW c \in Callers, Reject(c), asked[c] + 1 < SchemaAttempts
    PROVE  CInv'
<1> USE SchemaAssumption, AttemptsAssumption DEF CInv, IInv, TypeOK, CallTypes, Finish
<1>1. /\ pc[c] = "inflight" /\ billed[c] = asked[c] /\ stats[c] = 0
      /\ billed' = [billed EXCEPT ![c] = @ + 1] /\ asked' = [asked EXCEPT ![c] = @ + 1]
      /\ sent' = sent /\ stats' = stats
      /\ pc' = [pc EXCEPT ![c] = "idle"] /\ attempt' = [attempt EXCEPT ![c] = 0]
    BY DEF Reject, Succeed, Bill, CallFits, InCall
<1>2. CallTypes'
    BY SMTT(30), <1>1
<1>3. CallFits(c)'
    <2>1. sent[c] <= MaxAttempts * asked[c] + attempt[c] /\ attempt[c] \in 0 .. MaxAttempts
        BY DEF CallFits
    <2>2. sent[c] <= MaxAttempts * (asked[c] + 1)
        BY SMTT(30), <2>1, OneMore
    <2>3. /\ asked'[c] = asked[c] + 1 /\ attempt'[c] = 0 /\ sent'[c] = sent[c]
          /\ billed'[c] = asked'[c] /\ stats'[c] = 0
        BY <1>1
    <2>4. asked'[c] \in Nat
        BY <2>3
    <2> QED BY <2>2, <2>3, <2>4, OneMore DEF CallFits, InCall
<1>4. \A d \in Callers \ {c} :
          /\ pc'[d] = pc[d] /\ attempt'[d] = attempt[d] /\ asked'[d] = asked[d]
          /\ sent'[d] = sent[d] /\ billed'[d] = billed[d] /\ stats'[d] = stats[d]
    BY <1>1
<1> QED BY <1>2, <1>3, <1>4, CallFrame

\* The call ends, with a completion or without one.
LEMMA EndStep ==
    ASSUME CInv, IInv', NEW c \in Callers, End(c),
           NEW n \in {0, 1}, billed' = [billed EXCEPT ![c] = @ + n],
           InCall(c), NEW m \in 0 .. SchemaAttempts, stats' = [stats EXCEPT ![c] = m],
           pc' = [pc EXCEPT ![c] = "idle"], attempt' = [attempt EXCEPT ![c] = 0]
    PROVE  CInv'
<1> USE SchemaAssumption, AttemptsAssumption DEF CInv, IInv, TypeOK, CallTypes
<1>1. billed[c] + n \in 0 .. SchemaAttempts
    BY SMTT(30) DEF CallFits
<1>2. CallTypes'
    BY SMTT(30), <1>1 DEF End
<1>3. CallFits(c)'
    BY DEF End, CallFits, InCall
<1>4. \A d \in Callers \ {c} :
          /\ pc'[d] = pc[d] /\ attempt'[d] = attempt[d] /\ asked'[d] = asked[d]
          /\ sent'[d] = sent[d] /\ billed'[d] = billed[d] /\ stats'[d] = stats[d]
    BY DEF End
<1> QED BY <1>2, <1>3, <1>4, CallFrame

\* Every step of the calls, of the provider and of the clock preserves it.
LEMMA NextCInv == CInv /\ [CallsNext]_allVars => CInv'
<1> SUFFICES ASSUME CInv, [CallsNext]_allVars PROVE CInv'
    OBVIOUS
<1>1. IInv'
    <2>1. [Next]_vars
        BY StepIsBreakers
    <2> QED BY <2>1, NextIInv DEF CInv
<1>2. ASSUME NEW c \in Callers, BeginCall(c) \/ Ask(c) PROVE CInv'
    BY <1>1, <1>2, AskStep
<1> USE SchemaAssumption DEF IInv, TypeOK, CallTypes, Finish, Raise, Bill
<1>3. ASSUME NEW c \in Callers, RefuseCall(c) PROVE CInv'
    <2>1. /\ End(c) /\ InCall(c) /\ stats' = [stats EXCEPT ![c] = stats[c]]
          /\ billed' = [billed EXCEPT ![c] = @ + 0]
          /\ stats[c] \in 0 .. SchemaAttempts
        BY <1>3 DEF RefuseCall, CInv
    <2>2. pc' = [pc EXCEPT ![c] = "idle"] /\ attempt' = [attempt EXCEPT ![c] = 0]
        BY <1>3 DEF RefuseCall, Refuse, CInv, AttemptsLeft, vars, calls
    <2> QED BY <1>1, <2>1, <2>2, EndStep
<1>4. ASSUME NEW c \in Callers, Reject(c) PROVE CInv'
    <2>1. CASE asked[c] + 1 < SchemaAttempts
        BY <1>1, <1>4, <2>1, RejectStep
    <2>2. CASE ~(asked[c] + 1 < SchemaAttempts)
        <3>1. /\ End(c) /\ InCall(c) /\ stats' = [stats EXCEPT ![c] = stats[c]]
              /\ billed' = [billed EXCEPT ![c] = @ + 1]
              /\ stats[c] \in 0 .. SchemaAttempts
            BY <1>4, <2>2 DEF Reject, Succeed, CInv, InCall
        <3>2. pc' = [pc EXCEPT ![c] = "idle"] /\ attempt' = [attempt EXCEPT ![c] = 0]
            BY <1>4 DEF Reject, Succeed
        <3> QED BY <1>1, <3>1, <3>2, EndStep
    <2> QED BY <2>1, <2>2
<1>5. ASSUME NEW c \in Callers, Accept(c) PROVE CInv'
    <2>1. /\ End(c) /\ InCall(c) /\ stats' = [stats EXCEPT ![c] = asked[c] + 1]
          /\ billed' = [billed EXCEPT ![c] = @ + 1]
          /\ asked[c] + 1 \in 0 .. SchemaAttempts
        BY <1>5 DEF Accept, Succeed, CInv, InCall
    <2>2. pc' = [pc EXCEPT ![c] = "idle"] /\ attempt' = [attempt EXCEPT ![c] = 0]
        BY <1>5 DEF Accept, Succeed
    <2> QED BY <1>1, <2>1, <2>2, EndStep
<1>6. ASSUME NEW c \in Callers, Drop(c) PROVE CInv'
    <2>1. /\ End(c) /\ InCall(c) /\ stats' = [stats EXCEPT ![c] = stats[c]]
          /\ billed' = [billed EXCEPT ![c] = @ + 1]
          /\ stats[c] \in 0 .. SchemaAttempts
        BY <1>6 DEF Drop, Succeed, CInv, InCall
    <2>2. pc' = [pc EXCEPT ![c] = "idle"] /\ attempt' = [attempt EXCEPT ![c] = 0]
        BY <1>6 DEF Drop, Succeed
    <2> QED BY <1>1, <2>1, <2>2, EndStep
<1>7. ASSUME NEW c \in Callers, FailAttempt(c) PROVE CInv'
    <2>1. CASE attempt[c] < MaxAttempts
        <3>1. /\ pc[c] = "inflight" /\ pc' = [pc EXCEPT ![c] = "backoff"]
              /\ attempt' = [attempt EXCEPT ![c] = attempt[c]]
              /\ UNCHANGED callVars
            BY <1>7, <2>1 DEF FailAttempt, FailRetryable, callVars
        <3>2. CallTypes'
            BY <3>1 DEF callVars, CInv
        <3>3. CallFits(c)'
            BY <3>1 DEF callVars, CInv, CallFits, InCall
        <3> QED BY <1>1, <3>1, <3>2, <3>3, CallFrame DEF callVars, CInv
    <2>2. CASE ~(attempt[c] < MaxAttempts)
        <3>1. /\ End(c) /\ InCall(c) /\ stats' = [stats EXCEPT ![c] = stats[c]]
              /\ billed' = [billed EXCEPT ![c] = @ + 0]
              /\ stats[c] \in 0 .. SchemaAttempts
            BY <1>7, <2>2 DEF FailAttempt, FailRetryable, CInv, InCall
        <3>2. pc' = [pc EXCEPT ![c] = "idle"] /\ attempt' = [attempt EXCEPT ![c] = 0]
            BY <1>7, <2>2 DEF FailAttempt, FailRetryable
        <3> QED BY <1>1, <3>1, <3>2, EndStep
    <2> QED BY <2>1, <2>2
<1>8. ASSUME NEW c \in Callers, FailCall(c) PROVE CInv'
    <2>1. /\ End(c) /\ InCall(c) /\ stats' = [stats EXCEPT ![c] = stats[c]]
          /\ billed' = [billed EXCEPT ![c] = @ + 0]
          /\ stats[c] \in 0 .. SchemaAttempts
        BY <1>8 DEF FailCall, FailSilently, CInv, InCall
    <2>2. pc' = [pc EXCEPT ![c] = "idle"] /\ attempt' = [attempt EXCEPT ![c] = 0]
        BY <1>8 DEF FailCall, FailSilently
    <2> QED BY <1>1, <2>1, <2>2, EndStep
<1>9. CASE UNCHANGED <<calls, callVars>>
    BY <1>1, <1>9 DEF CInv, CallFits, InCall, calls, callVars
<1>10. (Provider \/ Tick) /\ UNCHANGED callVars => UNCHANGED <<calls, callVars>>
    BY DEF Provider, Tick, calls
<1>11. UNCHANGED allVars => UNCHANGED <<calls, callVars>>
    BY DEF allVars, vars
<1> QED BY <1>2, <1>3, <1>4, <1>5, <1>6, <1>7, <1>8, <1>9, <1>10, <1>11
        DEF CallsNext, Proceed, Answer

-----------------------------------------------------------------------------
(* The theorems about the calls *)

\* The invariant holds in every reachable state.
THEOREM CallsInvariance == CallsSpec => []CInv
BY InitCInv, NextCInv, PTL DEF CallsSpec

\* Types hold: no call is billed for more completions than it may ask for.
THEOREM CallTypesCorrect == CallsSpec => []CallTypes
<1>1. CInv => CallTypes
    BY DEF CInv
<1> QED BY <1>1, CallsInvariance, PTL

\* The requests of a call are bounded by its two kinds of retries.
THEOREM Requests == CallsSpec => []RequestsBounded
<1>1. CInv => RequestsBounded
    BY DEF CInv, CallFits, RequestsBounded
<1> QED BY <1>1, CallsInvariance, PTL

-----------------------------------------------------------------------------
(* The pipeline may take a call as one step *)

\* A step of a call is a step of NamedCall, or is not seen by the pipeline.
LEMMA CallStep == CInv /\ [CallsNext]_allVars => [Promise!Next]_(Promise!vars)
<1> SUFFICES ASSUME CInv, [CallsNext]_allVars
             PROVE  Promise!Next \/ UNCHANGED Promise!vars
    OBVIOUS
<1> DEFINE open == {c \in Callers : InCall(c)}
<1> USE SchemaAssumption DEF CInv, IInv, TypeOK, CallTypes, Finish, Raise, Bill
<1>1. ASSUME NEW c \in Callers, BeginCall(c) PROVE Promise!Begin(c)
    <2>1. open' = open \cup {c} /\ c \notin open
        BY <1>1 DEF BeginCall, Admit, InCall
    <2> QED BY <1>1, <2>1 DEF BeginCall, Promise!Begin
<1>2. ASSUME NEW c \in Callers, Ask(c) PROVE UNCHANGED Promise!vars
    <2>1. open' = open
        BY <1>2 DEF Ask, Admit, InCall
    <2> QED BY <1>2, <2>1 DEF Ask, Promise!vars
<1>3. ASSUME NEW c \in Callers, RefuseCall(c) PROVE Promise!Raise(c)
    <2>1. open' = open \ {c} /\ c \in open
        BY SMTT(30), <1>3 DEF RefuseCall, Refuse, End, InCall, vars, calls
    <2>2. billed' = [billed EXCEPT ![c] = @ + 0] /\ billed[c] + 0 <= SchemaAttempts
        BY <1>3 DEF RefuseCall
    <2> QED BY <1>3, <2>1, <2>2 DEF RefuseCall, Promise!Raise
<1>4. ASSUME NEW c \in Callers, Reject(c) PROVE Promise!Complete(c) \/ Promise!Raise(c)
    <2>1. CASE asked[c] + 1 < SchemaAttempts
        <3>1. open' = open /\ c \in open /\ billed[c] = asked[c]
            BY SMTT(30), <1>4, <2>1 DEF Reject, Succeed, InCall, CallFits
        <3> QED BY <1>4, <2>1, <3>1 DEF Reject, Promise!Complete
    <2>2. CASE ~(asked[c] + 1 < SchemaAttempts)
        <3>1. open' = open \ {c} /\ c \in open /\ billed[c] = asked[c]
            BY SMTT(30), <1>4, <2>2 DEF Reject, Succeed, End, InCall, CallFits
        <3> QED BY <1>4, <2>2, <3>1 DEF Reject, Promise!Raise
    <2> QED BY <2>1, <2>2
<1>5. ASSUME NEW c \in Callers, Accept(c) PROVE Promise!Return(c)
    <2>1. open' = open \ {c} /\ c \in open /\ billed[c] = asked[c]
        BY <1>5 DEF Accept, Succeed, End, InCall, CallFits
    <2> QED BY <1>5, <2>1 DEF Accept, Promise!Return
<1>6. ASSUME NEW c \in Callers, Drop(c) PROVE Promise!Raise(c)
    <2>1. open' = open \ {c} /\ c \in open /\ billed[c] = asked[c]
        BY <1>6 DEF Drop, Succeed, End, InCall, CallFits
    <2> QED BY <1>6, <2>1 DEF Drop, Promise!Raise
<1>7. ASSUME NEW c \in Callers, FailAttempt(c)
      PROVE  Promise!Raise(c) \/ UNCHANGED Promise!vars
    <2>1. CASE attempt[c] < MaxAttempts
        <3>1. open' = open
            BY <1>7, <2>1 DEF FailAttempt, FailRetryable, InCall
        <3> QED BY <1>7, <2>1, <3>1 DEF FailAttempt, Promise!vars
    <2>2. CASE ~(attempt[c] < MaxAttempts)
        <3>1. open' = open \ {c} /\ c \in open
            BY <1>7, <2>2 DEF FailAttempt, FailRetryable, End, InCall
        <3>2. billed' = [billed EXCEPT ![c] = @ + 0] /\ billed[c] + 0 <= SchemaAttempts
            BY <1>7 DEF FailAttempt
        <3> QED BY <1>7, <2>2, <3>1, <3>2 DEF FailAttempt, Promise!Raise
    <2> QED BY <2>1, <2>2
<1>8. ASSUME NEW c \in Callers, FailCall(c) PROVE Promise!Raise(c)
    <2>1. open' = open \ {c} /\ c \in open
        BY <1>8 DEF FailCall, FailSilently, End, InCall
    <2>2. billed' = [billed EXCEPT ![c] = @ + 0] /\ billed[c] + 0 <= SchemaAttempts
        BY <1>8 DEF FailCall
    <2> QED BY <1>8, <2>1, <2>2 DEF FailCall, Promise!Raise
<1>9. UNCHANGED <<calls, callVars>> => UNCHANGED Promise!vars
    BY DEF InCall, calls, callVars, Promise!vars
<1>10. (Provider \/ Tick) /\ UNCHANGED callVars => UNCHANGED <<calls, callVars>>
    BY DEF Provider, Tick, calls
<1>11. UNCHANGED allVars => UNCHANGED <<calls, callVars>>
    BY DEF allVars, vars
<1> QED BY <1>1, <1>2, <1>3, <1>4, <1>5, <1>6, <1>7, <1>8, <1>9, <1>10, <1>11
        DEF CallsNext, Proceed, Answer, Promise!Next

\* The validated call implements what the pipeline takes it for.
THEOREM RefinesNamedCall == CallsSpec => ImplementsNamedCall
<1>1. CallsInit => Promise!Init
    BY DEF CallsInit, Init, InCall, Promise!Init
<1> QED BY <1>1, CallStep, CallsInvariance, PTL
        DEF CallsSpec, ImplementsNamedCall, Promise!Spec
=============================================================================
