--------------------------- MODULE Budget_proofs ----------------------------
(***************************************************************************)
(* Admission and spend for any number of requests, keys, midnights and     *)
(* restarts of Redis and any limits: a revoked key stays revoked and is    *)
(* refused, whatever is in flight; a key overshoots its limit by what the  *)
(* runs in flight can spend; the global counter is ahead of the keys by    *)
(* what a reset may catch halfway; the rows report what was counted.       *)
(***************************************************************************)
EXTENDS Budget, SumTheorems, TLAPS

-----------------------------------------------------------------------------
(* Three facts about natural numbers *)

\* A smaller summand keeps a bound on the sum.
LEMMA Shrinks ==
    ASSUME NEW a \in Nat, NEW b \in Nat, NEW c \in Nat, NEW d \in Nat, NEW e \in Nat,
           a + b <= c + d, e <= b
    PROVE  a + e <= c + d
OBVIOUS

\* A bound on a summand bounds a sum with 0.
LEMMA Starts ==
    ASSUME NEW b \in Nat, NEW c \in Nat, NEW d \in Nat, b <= d
    PROVE  0 + b <= c + d
OBVIOUS

\* What one part of a sum grows by, the sum grows by.
LEMMA Grows ==
    ASSUME NEW x \in Nat, NEW y \in Nat, NEW a \in Nat, NEW b \in Nat, NEW c \in Nat,
           y + a = x + b, b = a + c
    PROVE  y = x + c
OBVIOUS

-----------------------------------------------------------------------------
(* The inductive invariant *)

\* A run has a call left to make.
CallLeft == \A r \in Requests : pc[r] \in RunStages => calls[r] < Calls

\* A request is answered when it leaves admission.
Unanswered == \A r \in Requests : pc[r] \in {"idle"} \cup RequestStages => reply[r] = 0

\* A revoked key is inactive, and a request that came in later never gets past
\* the lookup.
RevokedStaysOut ==
    /\ \A k \in Keys : revoked[k] => ~active[k]
    /\ \A r \in Requests :
          late[r] => /\ revoked[key[r]]
                     /\ pc[r] \in {"lookup", "done"}
                     /\ reply[r] \in {0, 403, 500}

IInv == TypeOK /\ CallLeft /\ Unanswered /\ RevokedStaysOut

-----------------------------------------------------------------------------
(* The invariant is inductive *)

\* At first no key is revoked and nothing was received.
LEMMA InitIInv == Init => IInv
BY LimitsAssumption, CallsAssumption, BoundsAssumption
   DEF Init, IInv, TypeOK, CallLeft, Unanswered, RevokedStaysOut, RequestStages, RunStages

\* Admission keeps it: the commit of last_used_at leaves is_active alone.
LEMMA RequestStep ==
    ASSUME IInv, NEW r \in Requests,
           Receive(r) \/ Authenticate(r) \/ Touch(r) \/ Admit(r)
    PROVE  IInv'
<1> USE DEF IInv, TypeOK, CallLeft, Unanswered, RevokedStaysOut, RequestStages, RunStages,
        Goto, Reply, counters, ghosts, identity, run, bounds
<1>1. CASE Receive(r)
    BY <1>1 DEF Receive
<1>2. CASE Authenticate(r)
    <2>1. CASE active[key[r]] /\ Goto(r, "lookup", "touch") /\ UNCHANGED reply
        <3>1. ~late[r]
            BY <2>1
        <3> QED BY <1>2, <2>1, <3>1 DEF Authenticate
    <2>2. CASE ~active[key[r]] /\ Reply(r, "lookup", 403, "done")
        BY <1>2, <2>2 DEF Authenticate
    <2> QED BY <1>2, <2>1, <2>2 DEF Authenticate
<1>3. CASE Touch(r)
    BY <1>3 DEF Touch
<1>4. CASE Admit(r)
    <2>1. ~late[r]
        BY SMTT(30), <1>4 DEF Admit
    <2>2. \E code \in {200, 202, 429, 500}, to \in {"queued", "done"} :
             Reply(r, "admission", code, to)
        BY <1>4 DEF Admit
    <2> QED BY <1>4, <2>1, <2>2 DEF Admit
<1> QED BY <1>1, <1>2, <1>3, <1>4

\* What a call counts for is at most what it cost, and less by no more than Grain.
LEMMA CountedBounds ==
    ASSUME NEW c \in Nat, NEW n \in Counted(c)
    PROVE  n \in Nat /\ n <= c /\ c <= n + Grain
BY CallsAssumption DEF Counted

\* Runs keep it: they never touch the key, and make at most Calls calls.
LEMMA RunStep ==
    ASSUME IInv, NEW r \in Requests,
           \/ Start(r) \/ CheckBudget(r) \/ CallLLM(r) \/ ChargeKey(r) \/ ChargeAll(r)
           \/ Save(r)
    PROVE  IInv'
<1> USE CallsAssumption
    DEF IInv, TypeOK, CallLeft, Unanswered, RevokedStaysOut, RequestStages, RunStages,
        Goto, counters, ghosts, identity, run, bounds
<1>1. CASE Start(r)
    BY <1>1 DEF Start
<1>2. CASE CheckBudget(r)
    BY <1>2 DEF CheckBudget
<1>3. CASE CallLLM(r)
    <2>1. cost' \in [Requests -> 0 .. MaxCost]
        BY <1>3 DEF CallLLM
    <2> QED BY <1>3, <2>1 DEF CallLLM
<1>4. CASE ChargeKey(r)
    <2>1. PICK n \in Counted(cost[r]) :
              /\ keySpend' = [keySpend EXCEPT ![key[r]] = @ + n]
              /\ counted' = [counted EXCEPT ![key[r]] = @ + n]
              /\ micro' = [micro EXCEPT ![r] = n]
        BY <1>4 DEF ChargeKey
    <2>2. n \in 0 .. MaxCost
        <3>1. cost[r] \in Nat /\ cost[r] <= MaxCost
            OBVIOUS
        <3> QED BY <2>1, <3>1, CountedBounds
    <2>3. /\ keySpend' \in [Keys -> Nat] /\ counted' \in [Keys -> Nat]
          /\ micro' \in [Requests -> 0 .. MaxCost]
        BY <2>1, <2>2
    <2>4. charges' \in [Keys -> Nat]
        BY <1>4 DEF ChargeKey
    <2> QED BY <1>4, <2>3, <2>4 DEF ChargeKey
<1>5. CASE ChargeAll(r)
    <2>1. allSpend' \in Nat
        BY <1>5 DEF ChargeAll
    <2> QED BY <1>5, <2>1 DEF ChargeAll
<1>6. CASE Save(r)
    <2>1. total' \in [Requests -> Nat]
        BY <1>6 DEF Save
    <2> QED BY <1>6, <2>1 DEF Save
<1> QED BY <1>1, <1>2, <1>3, <1>4, <1>5, <1>6

\* The faults and the clock keep it, and so does a revocation.
LEMMA OtherStep ==
    ASSUME IInv,
           \/ \E r \in Requests : Abort(r) \/ Kill(r)
           \/ \E k \in Keys : Revoke(k)
           \/ Midnight \/ RedisLoss
           \/ UNCHANGED vars
    PROVE  IInv'
<1> USE DEF IInv, TypeOK, CallLeft, Unanswered, RevokedStaysOut, RequestStages, RunStages,
        counters, ghosts, identity, run, bounds
<1>1. ASSUME NEW r \in Requests, Abort(r) PROVE IInv'
    BY <1>1, CallsAssumption DEF Abort, Forget
<1>2. ASSUME NEW r \in Requests, Kill(r) PROVE IInv'
    BY <1>2, CallsAssumption, BoundsAssumption DEF Kill, Forget
<1>3. ASSUME NEW k \in Keys, Revoke(k) PROVE IInv'
    BY <1>3 DEF Revoke
<1>4. CASE Midnight \/ RedisLoss
    <2>1. Reset /\ queue' \subseteq Requests
        BY <1>4 DEF Midnight, RedisLoss
    <2> QED BY <2>1, BoundsAssumption DEF Reset
<1>5. CASE UNCHANGED vars
    BY <1>5 DEF vars
<1> QED BY <1>1, <1>2, <1>3, <1>4, <1>5

\* Every step keeps it.
LEMMA NextIInv == IInv /\ [Next]_vars => IInv'
BY RequestStep, RunStep, OtherStep DEF Next

-----------------------------------------------------------------------------
(* What it shows *)

\* Every reachable state satisfies the inductive invariant.
LEMMA Invariance == Spec => []IInv
BY InitIInv, NextIInv, PTL DEF Spec

\* Every variable of the model keeps its type.
THEOREM TypeCorrect == Spec => []TypeOK
<1>1. IInv => TypeOK
    BY DEF IInv
<1> QED BY <1>1, Invariance, PTL

\* validate_api_key: a request that comes in after revoke_api_key committed is
\* never served, however many requests of the key are still in flight.
THEOREM RevokedIsRefusedAlways == Spec => []RevokedIsRefused
<1>1. IInv => RevokedIsRefused
    BY DEF IInv, RevokedStaysOut, RevokedIsRefused
<1> QED BY <1>1, Invariance, PTL

-----------------------------------------------------------------------------
(* What a key can still be charged by the runs in flight *)

RunsOf(k) == {r \in Requests : key[r] = k}

\* The calls that a run which passed its check has still to charge to its key.
ChargesLeft(r) ==
    CASE pc[r] \in {"call", "charge_key"} -> Calls - calls[r]
      [] pc[r] \in {"charge_all", "save"} -> Calls - calls[r] - 1
      [] OTHER -> 0
Due(r) == ChargesLeft(r) * MaxCost
DueOf(k) == SumFunctionOnSet([r \in Requests |-> Due(r)], RunsOf(k))
DueBound == Slots * Calls * MaxCost

SlotsKept == Cardinality(Running) <= Slots

\* Today's spend of a key and what its runs may add stay below the bound.
OvershootInv ==
    \A k \in Keys : DefaultLimit > 0 => keySpend[k] + DueOf(k) < DefaultLimit + DueBound

RunsInv == TypeOK /\ CallLeft /\ SlotsKept

\* What one run may add: a natural number, at most Calls times MaxCost, and 0 for a
\* request that is not running.
DueTypes ==
    /\ \A r \in Requests :
          /\ Due(r) \in Nat /\ Due(r) <= Calls * MaxCost
          /\ r \notin Running => Due(r) = 0
    /\ \A k \in Keys : DueOf(k) \in Nat /\ DueOf(k) <= DueBound
    /\ DueBound \in Nat

\* There are finitely many runs, of all keys and of one.
LEMMA RunsFinite == IsFiniteSet(Running) /\ \A k \in Keys : IsFiniteSet(RunsOf(k))
BY FinitenessAssumption, FS_Subset DEF Running, RunsOf

\* More charges, more to pay.
LEMMA Times == ASSUME NEW a \in Nat, NEW b \in Nat, NEW c \in Nat, a <= b
               PROVE  a * c \in Nat /\ a * c <= b * c /\ (a + 1) * c = a * c + c
OBVIOUS

\* A run that has made c calls may still make Calls - c, each of at most MaxCost.
LEMMA DueTypesHold == RunsInv => DueTypes
<1> SUFFICES ASSUME RunsInv PROVE DueTypes
    OBVIOUS
<1> USE LimitsAssumption, CallsAssumption
<1>1. ASSUME NEW r \in Requests
      PROVE  ChargesLeft(r) \in 0 .. Calls /\ (r \notin Running => ChargesLeft(r) = 0)
    <2>1. calls[r] \in 0 .. Calls /\ (pc[r] \in RunStages => calls[r] < Calls)
        BY DEF RunsInv, TypeOK, CallLeft
    <2> QED BY <2>1 DEF ChargesLeft, Running, RunStages
<1>2. ASSUME NEW r \in Requests
      PROVE  /\ Due(r) \in Nat /\ Due(r) <= Calls * MaxCost
             /\ r \notin Running => Due(r) = 0
    <2>1. Due(r) \in Nat /\ Due(r) <= Calls * MaxCost
        BY <1>1, Times DEF Due
    <2>2. 0 * MaxCost = 0
        OBVIOUS
    <2> QED BY <1>1, <2>1, <2>2 DEF Due
<1>3. DueBound \in Nat /\ DueBound = (Calls * MaxCost) * Slots
    BY DEF DueBound
<1>4. ASSUME NEW k \in Keys PROVE DueOf(k) \in Nat /\ DueOf(k) <= DueBound
    <2> DEFINE f == [r \in Requests |-> Due(r)]
               b == Calls * MaxCost
               n == Cardinality(RunsOf(k) \cap Running)
    <2>1. IsFiniteSet(RunsOf(k)) /\ RunsOf(k) \subseteq Requests
        BY RunsFinite DEF RunsOf
    <2>2. /\ b \in Nat
          /\ \A r \in RunsOf(k) : f[r] \in Nat /\ f[r] <= b /\ (r \notin Running => f[r] = 0)
        BY <1>2, <2>1
    <2>3. n \in Nat /\ n <= Slots
        <3>1. Cardinality(RunsOf(k) \cap Running) <= Cardinality(Running)
            BY RunsFinite, FS_Subset
        <3>2. Cardinality(Running) \in Nat /\ n \in Nat
            BY RunsFinite, FS_Subset, FS_CardinalityType
        <3> QED BY <3>1, <3>2 DEF RunsInv, SlotsKept
    <2>4. DueOf(k) = SumFunctionOnSet(f, RunsOf(k))
        BY DEF DueOf
    <2> HIDE DEF f, b
    <2>5. DueOf(k) \in Nat
        BY <2>1, <2>2, <2>4, SumNat
    <2>6. DueOf(k) <= b * n
        <3>1. IsFiniteSet(RunsOf(k)) /\ b \in Nat
            BY <2>1, <2>2
        <3>2. \A r \in RunsOf(k) : f[r] \in Nat /\ f[r] <= b /\ (r \notin Running => f[r] = 0)
            BY <2>2
        <3>3. SumFunctionOnSet(f, RunsOf(k)) <= b * Cardinality(RunsOf(k) \cap Running)
            BY <3>1, <3>2, SumBound
        <3> QED BY <2>4, <3>3
    <2> HIDE DEF n
    <2>7. n * b <= Slots * b /\ n * b \in Nat /\ n * b = b * n /\ Slots * b = b * Slots
        BY <2>2, <2>3, Times
    <2>8. b * n <= b * Slots /\ b * n \in Nat /\ b * Slots \in Nat
        BY <2>2, <2>7
    <2> QED BY <1>3, <2>5, <2>6, <2>8 DEF b
<1> QED BY <1>2, <1>3, <1>4 DEF DueTypes

\* A run is started only when a slot is free.
LEMMA NextSlots == IInv /\ SlotsKept /\ [Next]_vars => SlotsKept'
<1> SUFFICES ASSUME IInv, SlotsKept, [Next]_vars PROVE SlotsKept'
    OBVIOUS
<1>0. TypeOK /\ IsFiniteSet(Running) /\ Cardinality(Running) \in Nat
    BY RunsFinite, FS_CardinalityType DEF IInv
<1>1. CASE Running' \subseteq Running
    BY <1>0, <1>1, FS_Subset, FS_CardinalityType, LimitsAssumption DEF SlotsKept
<1>2. ASSUME NEW r \in Requests, Start(r) PROVE SlotsKept'
    <2>1. Running' = Running \cup {r} /\ Cardinality(Running) < Slots
        BY <1>0, <1>2 DEF Start, Goto, Running, RunStages, TypeOK
    <2>2. Cardinality(Running \cup {r}) <= Cardinality(Running) + 1
        <3>1. Cardinality(Running \cup {r})
                = IF r \in Running THEN Cardinality(Running) ELSE Cardinality(Running) + 1
            BY <1>0, FS_AddElement
        <3> QED BY <1>0, <3>1
    <2>3. Cardinality(Running') \in Nat
        BY <1>0, <2>1, FS_AddElement, FS_CardinalityType
    <2> QED BY <1>0, <2>1, <2>2, <2>3, LimitsAssumption DEF SlotsKept
<1>3. ASSUME NEW r \in Requests,
             \/ Receive(r) \/ Authenticate(r) \/ Touch(r) \/ Admit(r) \/ CheckBudget(r)
             \/ CallLLM(r) \/ ChargeKey(r) \/ ChargeAll(r) \/ Save(r) \/ Abort(r) \/ Kill(r)
      PROVE  Running' \subseteq Running
    BY <1>0, <1>3 DEF Receive, Authenticate, Touch, Admit, CheckBudget, CallLLM, ChargeKey,
       ChargeAll, Save, Abort, Kill, Forget, Goto, Reply, Running, RunStages, TypeOK
<1>4. CASE (\E k \in Keys : Revoke(k)) \/ Midnight \/ RedisLoss \/ UNCHANGED vars
    BY <1>1, <1>4 DEF Revoke, Midnight, RedisLoss, Reset, vars, Running
<1> QED BY <1>1, <1>2, <1>3, <1>4 DEF Next

\* A step of one run changes what its key can still be charged by the run's own part.
LEMMA DueStep ==
    ASSUME DueTypes, DueTypes', NEW r \in Requests, key' = key, NEW k \in Keys,
           \A i \in Requests \ {r} : pc'[i] = pc[i] /\ calls'[i] = calls[i]
    PROVE  IF k = key[r] THEN DueOf(k)' + Due(r) = DueOf(k) + Due(r)'
                         ELSE DueOf(k)' = DueOf(k)
<1> DEFINE f == [i \in Requests |-> Due(i)]
           g == [i \in Requests |-> Due(i)']
           S == RunsOf(k)
<1>1. \A i \in S : f[i] \in Nat /\ g[i] \in Nat
    BY DEF DueTypes, RunsOf
<1>2. \A i \in S \ {r} : f[i] = g[i]
    BY DEF Due, ChargesLeft, RunsOf
<1>3. DueOf(k) = SumFunctionOnSet(f, S) /\ DueOf(k)' = SumFunctionOnSet(g, S)
    BY DEF DueOf, RunsOf
<1>4. f[r] = Due(r) /\ g[r] = Due(r)' /\ (r \in S <=> k = key[r])
    BY DEF RunsOf
<1>5. IsFiniteSet(S)
    BY RunsFinite
<1> HIDE DEF f, g, S
<1>6. CASE k = key[r]
    <2>1. SumFunctionOnSet(g, S) + f[r] = SumFunctionOnSet(f, S) + g[r]
        BY <1>1, <1>2, <1>4, <1>5, <1>6, SumChange
    <2> QED BY <1>3, <1>4, <1>6, <2>1
<1>7. CASE k # key[r]
    <2>1. SumFunctionOnSet(g, S) = SumFunctionOnSet(f, S)
        BY <1>1, <1>2, <1>4, <1>5, <1>7, SumSame
    <2> QED BY <1>3, <1>7, <2>1
<1> QED BY <1>6, <1>7

\* A step that charges no key, and lets no run do more, keeps the bound.
LEMMA OvershootFrame ==
    ASSUME TypeOK, OvershootInv, DueTypes, DueTypes', keySpend' = keySpend,
           \A k \in Keys : DueOf(k)' <= DueOf(k)
    PROVE  OvershootInv'
<1> SUFFICES ASSUME NEW k \in Keys, DefaultLimit > 0
             PROVE  keySpend[k] + DueOf(k)' < DefaultLimit + DueBound
    BY DEF OvershootInv, DueBound
<1>1. keySpend[k] + DueOf(k) < DefaultLimit + DueBound
    BY DEF OvershootInv
<1>2. keySpend[k] \in Nat /\ DueOf(k) \in Nat /\ DueOf(k)' \in Nat /\ DueOf(k)' <= DueOf(k)
      /\ DueBound \in Nat /\ DefaultLimit \in Nat
    BY LimitsAssumption DEF TypeOK, DueTypes
<1> QED BY <1>1, <1>2

\* What is charged to a key is no more than what was due.
LEMMA OvershootChargeKey ==
    ASSUME TypeOK, TypeOK', CallLeft, OvershootInv, DueTypes, DueTypes',
           NEW r \in Requests, ChargeKey(r)
    PROVE  OvershootInv'
<1> USE LimitsAssumption, CallsAssumption
<1>1. /\ pc[r] = "charge_key" /\ pc'[r] = "charge_all" /\ calls' = calls /\ key' = key
      /\ \A i \in Requests \ {r} : pc'[i] = pc[i] /\ calls'[i] = calls[i]
    BY DEF ChargeKey, Goto, identity, TypeOK
<1>2. key[r] \in Keys /\ cost[r] \in 0 .. MaxCost /\ calls[r] \in 0 .. (Calls - 1)
    BY <1>1 DEF TypeOK, CallLeft, RunStages
<1>3. PICK n \in Counted(cost[r]) : keySpend' = [keySpend EXCEPT ![key[r]] = @ + n]
    BY DEF ChargeKey
<1>4. n \in Nat /\ n <= MaxCost
    <2>1. cost[r] \in Nat /\ cost[r] <= MaxCost
        BY <1>2
    <2> QED BY <1>3, <2>1, CountedBounds
<1>5. Due(r) = Due(r)' + MaxCost
    <2> DEFINE a == Calls - calls[r] - 1
    <2>1. Due(r)' = a * MaxCost
        BY <1>1 DEF Due, ChargesLeft
    <2>2. Due(r) = (Calls - calls[r]) * MaxCost
        BY <1>1 DEF Due, ChargesLeft
    <2>3. a \in Nat /\ Calls - calls[r] = a + 1
        BY <1>2
    <2> HIDE DEF a
    <2>4. (a + 1) * MaxCost = a * MaxCost + MaxCost
        BY <2>3, Times
    <2> QED BY <2>1, <2>2, <2>3, <2>4
<1> SUFFICES ASSUME NEW k \in Keys, DefaultLimit > 0
             PROVE  keySpend'[k] + DueOf(k)' < DefaultLimit + DueBound
    BY DEF OvershootInv, DueBound
<1>6. keySpend[k] + DueOf(k) < DefaultLimit + DueBound
    BY DEF OvershootInv
<1>7. /\ keySpend[k] \in Nat /\ Due(r) \in Nat /\ Due(r)' \in Nat /\ DueBound \in Nat
      /\ DueOf(k) \in Nat /\ DueOf(k)' \in Nat
    BY DEF TypeOK, DueTypes
<1>8. keySpend'[k] = IF k = key[r] THEN keySpend[k] + n ELSE keySpend[k]
    BY <1>2, <1>3 DEF TypeOK
<1>9. IF k = key[r] THEN DueOf(k)' + Due(r) = DueOf(k) + Due(r)' ELSE DueOf(k)' = DueOf(k)
    BY <1>1, DueStep
<1>10. CASE k = key[r]
    BY <1>4, <1>5, <1>6, <1>7, <1>8, <1>9, <1>10
<1>11. CASE k # key[r]
    BY <1>6, <1>7, <1>8, <1>9, <1>11
<1> QED BY <1>10, <1>11

\* The worker's check: it lets a run pass only below the limit, and all runs in
\* flight together, that one included, add no more than the bound.
LEMMA OvershootCheck ==
    ASSUME TypeOK, OvershootInv, DueTypes, DueTypes', NEW r \in Requests, CheckBudget(r)
    PROVE  OvershootInv'
<1>1. /\ pc[r] = "check" /\ calls' = calls /\ key' = key /\ keySpend' = keySpend
      /\ pc'[r] = IF Blocked(key[r], DefaultLimit) THEN "done" ELSE "call"
      /\ \A i \in Requests \ {r} : pc'[i] = pc[i] /\ calls'[i] = calls[i]
    BY DEF CheckBudget, Goto, counters, identity, run, TypeOK
<1>2. Due(r) = 0 /\ key[r] \in Keys
    <2>1. 0 * MaxCost = 0
        BY CallsAssumption
    <2> QED BY <1>1, <2>1 DEF Due, ChargesLeft, TypeOK
<1>3. CASE Blocked(key[r], DefaultLimit)
    <2>1. Due(r)' = 0
        <3>1. 0 * MaxCost = 0
            BY CallsAssumption
        <3> QED BY <1>1, <1>3, <3>1 DEF Due, ChargesLeft
    <2>2. \A k \in Keys : DueOf(k)' <= DueOf(k)
        BY <1>1, <1>2, <2>1, DueStep DEF DueTypes
    <2> QED BY <1>1, <2>2, OvershootFrame
<1>4. CASE ~Blocked(key[r], DefaultLimit)
    <2> SUFFICES ASSUME NEW k \in Keys, DefaultLimit > 0
                 PROVE  keySpend[k] + DueOf(k)' < DefaultLimit + DueBound
        BY <1>1 DEF OvershootInv, DueBound
    <2>1. keySpend[k] + DueOf(k) < DefaultLimit + DueBound
        BY DEF OvershootInv
    <2>2. /\ keySpend[k] \in Nat /\ DueBound \in Nat /\ DefaultLimit \in Nat
          /\ DueOf(k) \in Nat /\ DueOf(k)' \in Nat /\ DueOf(k)' <= DueBound
        <3>1. DueBound' = DueBound
            BY DEF DueBound
        <3> QED BY <3>1, LimitsAssumption DEF TypeOK, DueTypes
    <2>3. CASE k = key[r]
        <3>1. keySpend[k] < DefaultLimit
            BY <1>4, <2>2, <2>3 DEF Blocked
        <3> QED BY <2>2, <3>1
    <2>4. CASE k # key[r]
        <3>1. DueOf(k)' = DueOf(k)
            BY <1>1, <2>4, DueStep
        <3> QED BY <2>1, <3>1
    <2> QED BY <2>3, <2>4
<1> QED BY <1>3, <1>4

\* When the counters start anew, every run in flight, checked or not, turns to a
\* counter that is 0.
LEMMA OvershootReset == ASSUME OvershootInv, DueTypes, Reset PROVE OvershootInv'
<1> SUFFICES ASSUME NEW k \in Keys, DefaultLimit > 0
             PROVE  keySpend'[k] + DueOf(k)' < DefaultLimit + DueBound
    BY DEF OvershootInv, DueBound
<1>1. keySpend'[k] = 0
    BY DEF Reset
<1>2. DueOf(k)' = DueOf(k)
    BY DEF Reset, DueOf, Due, ChargesLeft, RunsOf, identity, run
<1>3. DueOf(k) \in Nat /\ DueOf(k) <= DueBound /\ DueBound \in Nat /\ DefaultLimit \in Nat
    BY LimitsAssumption DEF DueTypes
<1> QED BY <1>1, <1>2, <1>3

\* Every step keeps the bound.
LEMMA NextOvershoot ==
    IInv /\ IInv' /\ SlotsKept /\ SlotsKept' /\ OvershootInv /\ [Next]_vars => OvershootInv'
<1> SUFFICES ASSUME IInv, IInv', SlotsKept, SlotsKept', OvershootInv, [Next]_vars
             PROVE  OvershootInv'
    OBVIOUS
<1>1. TypeOK /\ TypeOK' /\ CallLeft /\ RunsInv /\ RunsInv'
    BY DEF IInv, RunsInv
<1>2. DueTypes
    BY <1>1, DueTypesHold
<1>3. DueTypes'
    BY <1>1, DueTypesHold, PTL
<1>4. ASSUME NEW r \in Requests,
             \/ Receive(r) \/ Authenticate(r) \/ Touch(r) \/ Admit(r)
             \/ Start(r) \/ CallLLM(r) \/ ChargeAll(r) \/ Save(r) \/ Abort(r) \/ Kill(r)
      PROVE  OvershootInv'
    <2>1. keySpend' = keySpend /\ key' = key
        BY <1>4 DEF Receive, Authenticate, Touch, Admit, Start, CallLLM, ChargeAll, Save, Abort,
                    Kill, counters, identity
    <2>2. \A i \in Requests \ {r} : pc'[i] = pc[i] /\ calls'[i] = calls[i]
        BY <1>1, <1>4 DEF Receive, Authenticate, Touch, Admit, Start, CallLLM, ChargeAll, Save,
                          Abort, Kill, Forget, Goto, Reply, run, TypeOK
    <2>3. Due(r)' <= Due(r)
        <3>1. \/ pc'[r] \in {"idle", "queued", "done", "check"} \cup RequestStages
              \/ pc[r] = "call" /\ pc'[r] = "charge_key" /\ calls'[r] = calls[r]
              \/ pc[r] = "charge_all" /\ pc'[r] = "save" /\ calls'[r] = calls[r]
              \/ pc[r] = "save" /\ pc'[r] = "call" /\ calls'[r] = calls[r] + 1
            BY <1>1, <1>4 DEF Receive, Authenticate, Touch, Admit, Start, CallLLM, ChargeAll,
                              Save, Abort, Kill, Forget, Goto, Reply, run, TypeOK,
                              RequestStages
        <3>2. CASE pc'[r] \in {"idle", "queued", "done", "check"} \cup RequestStages
            <4>1. ChargesLeft(r)' = 0 /\ 0 * MaxCost = 0
                BY <3>2, CallsAssumption DEF ChargesLeft, RequestStages
            <4>2. Due(r)' = 0
                BY <4>1 DEF Due
            <4> QED BY <1>2, <4>2 DEF DueTypes
        <3>3. CASE \/ pc[r] = "call" /\ pc'[r] = "charge_key" /\ calls'[r] = calls[r]
                   \/ pc[r] = "charge_all" /\ pc'[r] = "save" /\ calls'[r] = calls[r]
            <4>1. Due(r)' = Due(r)
                BY <3>3 DEF Due, ChargesLeft
            <4> QED BY <1>2, <4>1 DEF DueTypes
        <3>4. CASE pc[r] = "save" /\ pc'[r] = "call" /\ calls'[r] = calls[r] + 1
            <4>1. calls[r] \in 0 .. Calls /\ Calls \in Nat
                BY <1>1, CallsAssumption DEF TypeOK
            <4>2. Calls - (calls[r] + 1) = Calls - calls[r] - 1
                BY <4>1
            <4>3. Due(r)' = Due(r)
                BY <3>4, <4>2 DEF Due, ChargesLeft
            <4> QED BY <1>2, <4>3 DEF DueTypes
        <3> QED BY <3>1, <3>2, <3>3, <3>4
    <2>4. \A k \in Keys : DueOf(k)' <= DueOf(k)
        <3> TAKE k \in Keys
        <3>1. IF k = key[r] THEN DueOf(k)' + Due(r) = DueOf(k) + Due(r)'
                            ELSE DueOf(k)' = DueOf(k)
            BY <1>2, <1>3, <2>1, <2>2, DueStep
        <3>2. DueOf(k) \in Nat /\ DueOf(k)' \in Nat /\ Due(r) \in Nat /\ Due(r)' \in Nat
            BY <1>2, <1>3 DEF DueTypes
        <3> QED BY <2>3, <3>1, <3>2
    <2> QED BY <1>1, <1>2, <1>3, <2>1, <2>4, OvershootFrame
<1>5. CASE (\E k \in Keys : Revoke(k)) \/ UNCHANGED vars
    <2>1. UNCHANGED <<keySpend, pc, calls, key>>
        BY <1>5 DEF Revoke, vars, counters, identity, run
    <2>2. \A k \in Keys : DueOf(k)' = DueOf(k)
        BY <2>1 DEF DueOf, Due, ChargesLeft, RunsOf
    <2>3. \A k \in Keys : DueOf(k)' <= DueOf(k)
        BY <1>2, <2>2 DEF DueTypes
    <2> QED BY <1>1, <1>2, <1>3, <2>1, <2>3, OvershootFrame
<1>6. CASE Midnight \/ RedisLoss
    BY <1>2, <1>6, OvershootReset DEF Midnight, RedisLoss
<1> QED BY <1>1, <1>2, <1>3, <1>4, <1>5, <1>6, OvershootChargeKey, OvershootCheck DEF Next

\* At first no key is charged and no request runs.
LEMMA InitOvershoot == Init => SlotsKept /\ OvershootInv
<1> SUFFICES ASSUME Init PROVE SlotsKept /\ OvershootInv
    OBVIOUS
<1>1. SlotsKept
    <2>1. Running = {}
        BY DEF Init, Running, RunStages
    <2> QED BY <2>1, FS_EmptySet, LimitsAssumption DEF SlotsKept
<1>2. DueTypes
    BY <1>1, InitIInv, DueTypesHold DEF IInv, RunsInv
<1>3. \A k \in Keys : keySpend[k] = 0
    BY DEF Init
<1>4. \A k \in Keys : DueOf(k) = 0
    <2> TAKE k \in Keys
    <2> DEFINE f == [r \in Requests |-> Due(r)]
    <2>1. \A r \in RunsOf(k) : f[r] = 0
        <3>1. \A r \in Requests : r \notin Running
            BY DEF Init, Running, RunStages
        <3> QED BY <1>2, <3>1 DEF DueTypes, RunsOf
    <2>2. DueOf(k) = SumFunctionOnSet(f, RunsOf(k))
        BY DEF DueOf
    <2> HIDE DEF f
    <2> QED BY <2>1, <2>2, SumZero, RunsFinite
<1>5. DueBound \in Nat /\ DefaultLimit \in Nat
    BY <1>2, LimitsAssumption DEF DueTypes
<1> QED BY <1>1, <1>3, <1>4, <1>5 DEF OvershootInv

\* The slots are kept in every reachable state.
LEMMA SlotsInvariance == Spec => []SlotsKept
BY InitOvershoot, NextSlots, Invariance, PTL DEF Spec

\* The worker's check is not atomic with record_cost, but on no day does a key
\* overshoot the worker's limit by more than the runs that the slots hold can spend.
THEOREM DailyOvershootBoundedAlways == Spec => []DailyOvershootBounded
<1>1. Spec => []OvershootInv
    BY InitOvershoot, NextOvershoot, SlotsInvariance, Invariance, PTL DEF Spec
<1>2. IInv /\ SlotsKept /\ OvershootInv => DailyOvershootBounded
    <2> SUFFICES ASSUME IInv, SlotsKept, OvershootInv, DefaultLimit > 0, NEW k \in Keys
                 PROVE  keySpend[k] < DefaultLimit + DueBound
        BY DEF DailyOvershootBounded, DueBound
    <2>1. DueTypes
        BY DueTypesHold DEF IInv, RunsInv
    <2>2. keySpend[k] + DueOf(k) < DefaultLimit + DueBound
        BY DEF OvershootInv
    <2>3. keySpend[k] \in Nat /\ DueOf(k) \in Nat /\ DueBound \in Nat /\ DefaultLimit \in Nat
        BY <2>1, LimitsAssumption DEF DueTypes, IInv, TypeOK
    <2> QED BY <2>2, <2>3
<1> QED BY <1>1, <1>2, SlotsInvariance, Invariance, PTL

-----------------------------------------------------------------------------
(* The two halves of record_cost, around a midnight or a restart of Redis *)

\* What was charged to a key and is not yet charged to the global counter.
Halfway(r) == IF pc[r] = "charge_all" THEN micro[r] ELSE 0
AllHalfway == SumFunctionOnSet([r \in Requests |-> Halfway(r)], Requests)

OfKeys == SumFunctionOnSet(keySpend, Keys)
AheadBound == Slots * MaxCost

\* What is still halfway will not take the global counter beyond the bound either.
AheadInv == allSpend + AllHalfway <= OfKeys + AheadBound

\* The sums are natural numbers, and each slot has at most one call halfway.
SumTypes ==
    /\ AllHalfway \in Nat /\ \A r \in Requests : Halfway(r) \in Nat
    /\ AllHalfway <= AheadBound /\ AheadBound \in Nat
    /\ OfKeys \in Nat /\ allSpend \in Nat

\* They are, as long as the slots are kept.
LEMMA SumTypesHold == TypeOK /\ SlotsKept => SumTypes
<1> SUFFICES ASSUME TypeOK, SlotsKept PROVE SumTypes
    OBVIOUS
<1> DEFINE f == [r \in Requests |-> Halfway(r)]
           n == Cardinality(Requests \cap Running)
<1>1. \A r \in Requests : f[r] \in Nat /\ f[r] <= MaxCost /\ (r \notin Running => f[r] = 0)
    BY CallsAssumption DEF TypeOK, Halfway, Running, RunStages
<1>2. AllHalfway = SumFunctionOnSet(f, Requests)
    BY DEF AllHalfway
<1>3. n \in Nat /\ n <= Slots
    <2>1. Requests \cap Running = Running
        BY DEF Running
    <2>2. Cardinality(Running) \in Nat
        BY RunsFinite, FS_CardinalityType
    <2> QED BY <2>1, <2>2 DEF SlotsKept
<1>4. \A r \in Requests : Halfway(r) \in Nat
    BY <1>1
<1> HIDE DEF f
<1>5. AllHalfway \in Nat
    BY <1>1, <1>2, SumNat, FinitenessAssumption
<1>6. MaxCost \in Nat /\ Slots \in Nat
    BY CallsAssumption, LimitsAssumption
<1>7. AllHalfway <= MaxCost * n
    BY <1>1, <1>2, <1>6, SumBound, FinitenessAssumption
<1> HIDE DEF n
<1>8. n * MaxCost <= Slots * MaxCost /\ n * MaxCost \in Nat /\ n * MaxCost = MaxCost * n
      /\ Slots * MaxCost \in Nat
    BY <1>3, <1>6, Times
<1>9. OfKeys \in Nat
    BY SumNat, FinitenessAssumption DEF OfKeys, TypeOK
<1> QED BY <1>4, <1>5, <1>7, <1>8, <1>9 DEF SumTypes, AheadBound, TypeOK

\* A step of one request changes what is halfway by its own part only.
LEMMA HalfwayStep ==
    ASSUME SumTypes, SumTypes', NEW r \in Requests,
           \A i \in Requests \ {r} : pc'[i] = pc[i] /\ micro'[i] = micro[i]
    PROVE  AllHalfway' + Halfway(r) = AllHalfway + Halfway(r)'
<1> DEFINE f == [i \in Requests |-> Halfway(i)]
           g == [i \in Requests |-> Halfway(i)']
<1>1. \A i \in Requests : f[i] \in Nat /\ g[i] \in Nat
    BY DEF SumTypes
<1>2. \A i \in Requests \ {r} : f[i] = g[i]
    BY DEF Halfway
<1>3. AllHalfway = SumFunctionOnSet(f, Requests) /\ AllHalfway' = SumFunctionOnSet(g, Requests)
    BY DEF AllHalfway
<1>4. f[r] = Halfway(r) /\ g[r] = Halfway(r)'
    OBVIOUS
<1> HIDE DEF f, g
<1>5. SumFunctionOnSet(g, Requests) + f[r] = SumFunctionOnSet(f, Requests) + g[r]
    BY <1>1, <1>2, SumChange, FinitenessAssumption
<1> QED BY <1>3, <1>4, <1>5

\* A step that leaves the counters alone, and adds nothing to what is halfway, keeps
\* the bound.
LEMMA AheadFrame ==
    ASSUME SumTypes, SumTypes', AheadInv, UNCHANGED counters, AllHalfway' <= AllHalfway
    PROVE  AheadInv'
<1>1. OfKeys' = OfKeys /\ allSpend' = allSpend /\ AheadBound' = AheadBound
    BY DEF OfKeys, counters, AheadBound
<1>2. /\ AllHalfway \in Nat /\ AllHalfway' \in Nat /\ AheadBound \in Nat
      /\ OfKeys \in Nat /\ allSpend \in Nat
    BY DEF SumTypes
<1>3. allSpend + AllHalfway <= OfKeys + AheadBound
    BY DEF AheadInv
<1>4. allSpend + AllHalfway' <= OfKeys + AheadBound
    BY <1>2, <1>3, Shrinks
<1> QED BY <1>1, <1>4 DEF AheadInv

\* record_cost, first half: the key's counter and what is halfway grow alike.
LEMMA AheadChargeKey ==
    ASSUME TypeOK, TypeOK', SumTypes, SumTypes', AheadInv, NEW r \in Requests, ChargeKey(r)
    PROVE  AheadInv'
<1>1. PICK n \in Counted(cost[r]) :
          /\ keySpend' = [keySpend EXCEPT ![key[r]] = @ + n]
          /\ micro' = [micro EXCEPT ![r] = n]
    BY DEF ChargeKey
<1>2. /\ pc[r] = "charge_key" /\ pc'[r] = "charge_all" /\ allSpend' = allSpend
      /\ \A i \in Requests \ {r} : pc'[i] = pc[i] /\ micro'[i] = micro[i]
    BY <1>1 DEF ChargeKey, Goto, TypeOK
<1>3. n \in Nat /\ key[r] \in Keys
    BY <1>1, CountedBounds, CallsAssumption DEF TypeOK
<1>4. AllHalfway' = AllHalfway + n
    <2>1. Halfway(r) = 0 /\ Halfway(r)' = n
        BY <1>1, <1>2 DEF Halfway, TypeOK
    <2>2. AllHalfway' + Halfway(r) = AllHalfway + Halfway(r)'
        BY <1>2, HalfwayStep
    <2> QED BY <2>1, <2>2 DEF SumTypes
<1>5. OfKeys' = OfKeys + n
    <2>1. \A k \in Keys : keySpend[k] \in Nat /\ keySpend'[k] \in Nat
        BY DEF TypeOK
    <2>2. \A k \in Keys \ {key[r]} : keySpend[k] = keySpend'[k]
        BY <1>1 DEF TypeOK
    <2>3. keySpend'[key[r]] = keySpend[key[r]] + n
        BY <1>1, <1>3 DEF TypeOK
    <2>4. SumFunctionOnSet(keySpend', Keys) + keySpend[key[r]]
            = SumFunctionOnSet(keySpend, Keys) + keySpend'[key[r]]
        BY <1>3, <2>1, <2>2, SumChange, FinitenessAssumption
    <2>5. OfKeys = SumFunctionOnSet(keySpend, Keys) /\ OfKeys' = SumFunctionOnSet(keySpend', Keys)
        BY DEF OfKeys
    <2>6. OfKeys \in Nat /\ OfKeys' \in Nat /\ keySpend[key[r]] \in Nat
        BY <1>3, <2>1 DEF SumTypes
    <2> QED BY <1>3, <2>3, <2>4, <2>5, <2>6
<1>6. AheadBound' = AheadBound
    BY DEF AheadBound
<1> QED BY <1>2, <1>3, <1>4, <1>5, <1>6 DEF AheadInv, SumTypes

\* record_cost, second half: what was halfway reaches the global counter of today.
LEMMA AheadChargeAll ==
    ASSUME TypeOK, SumTypes, SumTypes', AheadInv, NEW r \in Requests, ChargeAll(r)
    PROVE  AheadInv'
<1>1. /\ pc[r] = "charge_all" /\ pc'[r] = "save" /\ keySpend' = keySpend
      /\ allSpend' = allSpend + micro[r] /\ micro[r] \in Nat
      /\ \A i \in Requests \ {r} : pc'[i] = pc[i] /\ micro'[i] = micro[i]
    BY CallsAssumption DEF ChargeAll, Goto, TypeOK
<1>2. Halfway(r) = micro[r] /\ Halfway(r)' = 0
    BY <1>1 DEF Halfway
<1>3. AllHalfway' + Halfway(r) = AllHalfway + Halfway(r)'
    BY <1>1, HalfwayStep
<1>4. OfKeys' = OfKeys /\ AheadBound' = AheadBound
    BY <1>1 DEF OfKeys, AheadBound
<1> QED BY <1>1, <1>2, <1>3, <1>4 DEF AheadInv, SumTypes

\* When the counters start anew, the global one can only be ahead by what is halfway.
LEMMA AheadReset == ASSUME SumTypes, SumTypes', Reset PROVE AheadInv'
<1>1. allSpend' = 0 /\ AheadBound' = AheadBound
    BY DEF Reset, AheadBound
<1>2. /\ AllHalfway' \in Nat /\ AllHalfway' <= AheadBound' /\ OfKeys' \in Nat
      /\ AheadBound \in Nat
    BY DEF SumTypes
<1>3. allSpend' + AllHalfway' <= OfKeys' + AheadBound'
    BY <1>1, <1>2, Starts
<1> QED BY <1>3 DEF AheadInv

\* Every step keeps the bound.
LEMMA NextAhead ==
    IInv /\ IInv' /\ SlotsKept /\ SlotsKept' /\ AheadInv /\ [Next]_vars => AheadInv'
<1> SUFFICES ASSUME IInv, IInv', SlotsKept, SlotsKept', AheadInv, [Next]_vars PROVE AheadInv'
    OBVIOUS
<1>1. TypeOK /\ TypeOK'
    BY DEF IInv
<1>2. SumTypes
    BY <1>1, SumTypesHold
<1>3. SumTypes'
    BY <1>1, SumTypesHold, PTL
<1>4. ASSUME NEW r \in Requests,
             \/ Receive(r) \/ Authenticate(r) \/ Touch(r) \/ Admit(r) \/ Start(r)
             \/ CheckBudget(r) \/ CallLLM(r) \/ Save(r) \/ Abort(r) \/ Kill(r)
      PROVE  AheadInv'
    <2>1. UNCHANGED counters
        BY <1>4 DEF Receive, Authenticate, Touch, Admit, Start, CheckBudget, CallLLM, Save,
                    Abort, Kill
    <2>2. \A i \in Requests \ {r} : pc'[i] = pc[i] /\ micro'[i] = micro[i]
        BY <1>1, <1>4 DEF Receive, Authenticate, Touch, Admit, Start, CheckBudget, CallLLM,
                          Save, Abort, Kill, Forget, Goto, Reply, run, TypeOK
    <2>3. pc'[r] # "charge_all"
        BY <1>1, <1>4 DEF Receive, Authenticate, Touch, Admit, Start, CheckBudget, CallLLM,
                          Save, Abort, Kill, Forget, Goto, Reply, TypeOK
    <2>4. Halfway(r)' = 0 /\ Halfway(r) \in Nat
        BY <1>2, <2>3 DEF SumTypes, Halfway
    <2>5. AllHalfway' + Halfway(r) = AllHalfway + Halfway(r)'
        BY <1>2, <1>3, <2>2, HalfwayStep
    <2>6. AllHalfway' <= AllHalfway
        BY <1>2, <1>3, <2>4, <2>5 DEF SumTypes
    <2> QED BY <1>2, <1>3, <2>1, <2>6, AheadFrame
<1>5. CASE (\E k \in Keys : Revoke(k)) \/ UNCHANGED vars
    <2>1. AllHalfway' = AllHalfway /\ UNCHANGED counters
        BY <1>5 DEF Revoke, vars, AllHalfway, Halfway, run
    <2>2. AllHalfway' <= AllHalfway
        BY <1>2, <2>1 DEF SumTypes
    <2> QED BY <1>2, <1>3, <2>1, <2>2, AheadFrame
<1>6. CASE Midnight \/ RedisLoss
    BY <1>2, <1>3, <1>6, AheadReset DEF Midnight, RedisLoss
<1> QED BY <1>1, <1>2, <1>3, <1>4, <1>5, <1>6, AheadChargeKey, AheadChargeAll DEF Next

\* At first nothing is spent or halfway.
LEMMA InitAhead == Init => AheadInv
<1> SUFFICES ASSUME Init PROVE AheadInv
    OBVIOUS
<1>1. SumTypes
    BY InitIInv, InitOvershoot, SumTypesHold DEF IInv
<1>2. allSpend = 0
    BY DEF Init
<1> QED BY <1>1, <1>2 DEF AheadInv, SumTypes

\* record_cost charges the key first: with midnights and restarts of Redis in between,
\* the global counter is ahead by no more than one call for each slot.
THEOREM GlobalAheadBoundedAlways == Spec => []GlobalAheadBounded
<1>1. Spec => []AheadInv
    BY InitAhead, NextAhead, SlotsInvariance, Invariance, PTL DEF Spec
<1>2. IInv /\ SlotsKept /\ AheadInv => GlobalAheadBounded
    BY SumTypesHold DEF IInv, SumTypes, AheadInv, GlobalAheadBounded, OfKeys, AheadBound
<1> QED BY <1>1, <1>2, SlotsInvariance, Invariance, PTL

-----------------------------------------------------------------------------
(* What the rows report *)

\* What the row of a job reports, and what it will with the call now charged.
Reported(r) == total[r] + (IF pc[r] \in {"charge_all", "save"} THEN cost[r] ELSE 0)
ReportedOf(k) == SumFunctionOnSet([r \in Requests |-> Reported(r)], RunsOf(k))

CountedInv == \A k \in Keys : ReportedOf(k) <= counted[k] + Grain * charges[k]

ReportTypes ==
    /\ \A r \in Requests : Reported(r) \in Nat
    /\ \A k \in Keys : ReportedOf(k) \in Nat

\* They are natural numbers.
LEMMA ReportTypesHold == TypeOK => ReportTypes
<1> SUFFICES ASSUME TypeOK PROVE ReportTypes
    OBVIOUS
<1>1. \A r \in Requests : Reported(r) \in Nat
    BY CallsAssumption DEF TypeOK, Reported
<1>2. ASSUME NEW k \in Keys PROVE ReportedOf(k) \in Nat
    <2> DEFINE f == [r \in Requests |-> Reported(r)]
    <2>1. \A r \in RunsOf(k) : f[r] \in Nat
        BY <1>1 DEF RunsOf
    <2>2. ReportedOf(k) = SumFunctionOnSet(f, RunsOf(k))
        BY DEF ReportedOf
    <2> HIDE DEF f
    <2> QED BY <2>1, <2>2, SumNat, RunsFinite
<1> QED BY <1>1, <1>2 DEF ReportTypes

\* A step of one job changes what its key's rows report by its own part.
LEMMA ReportStep ==
    ASSUME ReportTypes, ReportTypes', NEW r \in Requests, key' = key, NEW k \in Keys,
           \A i \in Requests \ {r} :
               pc'[i] = pc[i] /\ cost'[i] = cost[i] /\ total'[i] = total[i]
    PROVE  IF k = key[r] THEN ReportedOf(k)' + Reported(r) = ReportedOf(k) + Reported(r)'
                         ELSE ReportedOf(k)' = ReportedOf(k)
<1> DEFINE f == [i \in Requests |-> Reported(i)]
           g == [i \in Requests |-> Reported(i)']
           S == RunsOf(k)
<1>1. \A i \in S : f[i] \in Nat /\ g[i] \in Nat
    BY DEF ReportTypes, RunsOf
<1>2. \A i \in S \ {r} : f[i] = g[i]
    BY DEF Reported, RunsOf
<1>3. ReportedOf(k) = SumFunctionOnSet(f, S) /\ ReportedOf(k)' = SumFunctionOnSet(g, S)
    BY DEF ReportedOf, RunsOf
<1>4. f[r] = Reported(r) /\ g[r] = Reported(r)' /\ (r \in S <=> k = key[r])
    BY DEF RunsOf
<1>5. IsFiniteSet(S)
    BY RunsFinite
<1> HIDE DEF f, g, S
<1>6. CASE k = key[r]
    <2>1. SumFunctionOnSet(g, S) + f[r] = SumFunctionOnSet(f, S) + g[r]
        BY <1>1, <1>2, <1>4, <1>5, <1>6, SumChange
    <2> QED BY <1>3, <1>4, <1>6, <2>1
<1>7. CASE k # key[r]
    <2>1. SumFunctionOnSet(g, S) = SumFunctionOnSet(f, S)
        BY <1>1, <1>2, <1>4, <1>5, <1>7, SumSame
    <2> QED BY <1>3, <1>7, <2>1
<1> QED BY <1>6, <1>7

\* record_cost: what a charge leaves out is made up for by its micro-dollar.
LEMMA CountedChargeKey ==
    ASSUME TypeOK, ReportTypes, ReportTypes', CountedInv, NEW r \in Requests, ChargeKey(r)
    PROVE  CountedInv'
<1>1. PICK n \in Counted(cost[r]) : counted' = [counted EXCEPT ![key[r]] = @ + n]
    BY DEF ChargeKey
<1>2. /\ pc[r] = "charge_key" /\ pc'[r] = "charge_all" /\ key' = key
      /\ cost' = cost /\ total' = total /\ charges' = [charges EXCEPT ![key[r]] = @ + 1]
      /\ \A i \in Requests \ {r} : pc'[i] = pc[i]
    BY DEF ChargeKey, Goto, identity, TypeOK
<1>3. /\ n \in Nat /\ cost[r] \in Nat /\ cost[r] <= n + Grain
      /\ Reported(r)' = Reported(r) + cost[r]
    <2>1. cost[r] \in Nat /\ total[r] \in Nat
        BY CallsAssumption DEF TypeOK
    <2> QED BY <1>1, <1>2, <2>1, CountedBounds DEF Reported
<1> SUFFICES ASSUME NEW k \in Keys
             PROVE  ReportedOf(k)' <= counted'[k] + Grain * charges'[k]
    BY DEF CountedInv
<1>4. ReportedOf(k) <= counted[k] + Grain * charges[k]
    BY DEF CountedInv
<1>5. IF k = key[r] THEN ReportedOf(k)' + Reported(r) = ReportedOf(k) + Reported(r)'
                    ELSE ReportedOf(k)' = ReportedOf(k)
    BY <1>2, ReportStep
<1>6. /\ counted[k] \in Nat /\ charges[k] \in Nat /\ Grain \in Nat
      /\ Grain * charges[k] \in Nat /\ Grain * (charges[k] + 1) = Grain * charges[k] + Grain
      /\ ReportedOf(k) \in Nat /\ ReportedOf(k)' \in Nat
      /\ Reported(r) \in Nat /\ Reported(r)' \in Nat
    <2>1. charges[k] \in Nat /\ Grain \in Nat
        BY CallsAssumption DEF TypeOK
    <2>2. Grain * charges[k] \in Nat
          /\ Grain * (charges[k] + 1) = Grain * charges[k] + Grain
        BY <2>1
    <2> QED BY <2>1, <2>2 DEF TypeOK, ReportTypes
<1>7. CASE k = key[r]
    <2>1. counted'[k] = counted[k] + n /\ charges'[k] = charges[k] + 1
        BY <1>1, <1>2, <1>7 DEF TypeOK
    <2>2. ReportedOf(k)' = ReportedOf(k) + cost[r]
        <3>1. ReportedOf(k)' + Reported(r) = ReportedOf(k) + Reported(r)'
            BY <1>5, <1>7
        <3>2. /\ ReportedOf(k) \in Nat /\ ReportedOf(k)' \in Nat
              /\ Reported(r) \in Nat /\ Reported(r)' \in Nat
            BY DEF ReportTypes
        <3> QED BY <1>3, <3>1, <3>2, Grows
    <2>3. ReportedOf(k) + cost[r] <= (counted[k] + n) + (Grain * charges[k] + Grain)
        BY <1>3, <1>4, <1>6
    <2> QED BY <1>6, <2>1, <2>2, <2>3
<1>8. CASE k # key[r]
    <2>1. counted'[k] = counted[k] /\ charges'[k] = charges[k]
        BY <1>1, <1>2, <1>8 DEF TypeOK
    <2> QED BY <1>4, <1>5, <1>8, <2>1
<1> QED BY <1>7, <1>8

\* Every step keeps the rows behind: a charge comes first, and what was charged for a
\* run that ends without saving it is in no row.
LEMMA NextCounted == IInv /\ IInv' /\ CountedInv /\ [Next]_vars => CountedInv'
<1> SUFFICES ASSUME IInv, IInv', CountedInv, [Next]_vars PROVE CountedInv'
    OBVIOUS
<1>1. TypeOK /\ TypeOK' /\ ReportTypes
    BY ReportTypesHold DEF IInv
<1>2. ReportTypes'
    BY <1>1, ReportTypesHold, PTL
<1>3. ASSUME UNCHANGED ghosts, \A k \in Keys : ReportedOf(k)' <= ReportedOf(k) PROVE CountedInv'
    <2> SUFFICES ASSUME NEW k \in Keys
                 PROVE  ReportedOf(k)' <= counted'[k] + Grain * charges'[k]
        BY DEF CountedInv
    <2>1. ReportedOf(k) <= counted[k] + Grain * charges[k]
        BY DEF CountedInv
    <2>2. /\ ReportedOf(k) \in Nat /\ ReportedOf(k)' \in Nat
          /\ counted[k] \in Nat /\ Grain * charges[k] \in Nat
          /\ counted'[k] = counted[k] /\ charges'[k] = charges[k]
        BY <1>1, <1>2, <1>3, CallsAssumption DEF ReportTypes, TypeOK, ghosts
    <2> QED BY <1>3, <2>1, <2>2
<1>4. ASSUME NEW r \in Requests,
             \/ Receive(r) \/ Authenticate(r) \/ Touch(r) \/ Admit(r) \/ Start(r)
             \/ CheckBudget(r) \/ CallLLM(r) \/ ChargeAll(r) \/ Save(r) \/ Abort(r) \/ Kill(r)
      PROVE  CountedInv'
    <2>1. UNCHANGED ghosts /\ key' = key
        BY <1>4 DEF Receive, Authenticate, Touch, Admit, Start, CheckBudget, CallLLM, ChargeAll,
                    Save, Abort, Kill, identity
    <2>2. \A i \in Requests \ {r} :
              pc'[i] = pc[i] /\ cost'[i] = cost[i] /\ total'[i] = total[i]
        BY <1>1, <1>4 DEF Receive, Authenticate, Touch, Admit, Start, CheckBudget, CallLLM,
                          ChargeAll, Save, Abort, Kill, Forget, Goto, Reply, run, TypeOK
    <2>3. Reported(r)' <= Reported(r)
        <3>1. total[r] \in Nat /\ cost[r] \in Nat
            BY <1>1, CallsAssumption DEF TypeOK
        <3>2. CASE Save(r)
            <4>1. /\ pc[r] = "save" /\ pc'[r] \in {"call", "done"}
                  /\ total'[r] = total[r] + cost[r]
                BY <1>1, <3>2 DEF Save, Goto, TypeOK
            <4> QED BY <3>1, <4>1 DEF Reported
        <3>3. CASE ChargeAll(r)
            <4>1. /\ pc[r] = "charge_all" /\ pc'[r] = "save"
                  /\ total' = total /\ cost' = cost
                BY <1>1, <3>3 DEF ChargeAll, Goto, TypeOK
            <4> QED BY <3>1, <4>1 DEF Reported
        <3>4. CASE ~Save(r) /\ ~ChargeAll(r)
            <4>1. total' = total /\ pc'[r] \notin {"charge_all", "save"}
                BY <1>1, <1>4, <3>4
                DEF Receive, Authenticate, Touch, Admit, Start, CheckBudget, CallLLM, Abort,
                    Kill, Forget, Goto, Reply, TypeOK
            <4> QED BY <3>1, <4>1 DEF Reported
        <3> QED BY <3>2, <3>3, <3>4
    <2>4. ASSUME NEW k \in Keys PROVE ReportedOf(k)' <= ReportedOf(k)
        <3>1. IF k = key[r] THEN ReportedOf(k)' + Reported(r) = ReportedOf(k) + Reported(r)'
                            ELSE ReportedOf(k)' = ReportedOf(k)
            BY <1>1, <1>2, <2>1, <2>2, ReportStep
        <3>2. /\ ReportedOf(k) \in Nat /\ ReportedOf(k)' \in Nat
              /\ Reported(r) \in Nat /\ Reported(r)' \in Nat
            BY <1>1, <1>2 DEF ReportTypes
        <3> QED BY <2>3, <3>1, <3>2
    <2> QED BY <1>3, <2>1, <2>4
<1>5. CASE (\E k \in Keys : Revoke(k)) \/ Midnight \/ RedisLoss \/ UNCHANGED vars
    <2>1. UNCHANGED <<ghosts, pc, key, cost, total>>
        BY <1>5 DEF Revoke, Midnight, RedisLoss, Reset, vars, identity, run
    <2>2. \A k \in Keys : ReportedOf(k)' = ReportedOf(k)
        BY <2>1 DEF ReportedOf, Reported, RunsOf
    <2>3. \A k \in Keys : ReportedOf(k)' <= ReportedOf(k)
        BY <1>1, <2>2 DEF ReportTypes
    <2> QED BY <1>3, <2>1, <2>3
<1> QED BY <1>1, <1>2, <1>4, <1>5, CountedChargeKey DEF Next

\* At first no row reports anything.
LEMMA InitCounted == Init => CountedInv
<1> SUFFICES ASSUME Init, NEW k \in Keys PROVE ReportedOf(k) <= counted[k] + Grain * charges[k]
    BY DEF CountedInv
<1> DEFINE f == [r \in Requests |-> Reported(r)]
<1>1. \A r \in RunsOf(k) : f[r] = 0
    BY DEF Init, Reported, RunsOf
<1>2. ReportedOf(k) = SumFunctionOnSet(f, RunsOf(k))
    BY DEF ReportedOf
<1> HIDE DEF f
<1>3. ReportedOf(k) = 0
    BY <1>1, <1>2, SumZero, RunsFinite
<1>4. counted[k] = 0 /\ charges[k] = 0 /\ Grain * 0 = 0
    BY CallsAssumption DEF Init
<1> QED BY <1>3, <1>4

\* No row reports a call that was not counted for its key first, up to a micro-dollar
\* for each charge.
THEOREM SpendIsCountedAlways == Spec => []SpendIsCounted
<1>1. Spec => []CountedInv
    BY InitCounted, NextCounted, Invariance, PTL DEF Spec
<1>2. IInv /\ CountedInv => SpendIsCounted
    <2> SUFFICES ASSUME IInv, CountedInv, NEW k \in Keys
                 PROVE  SumFunctionOnSet(total, RunsOf(k)) <= counted[k] + Grain * charges[k]
        BY DEF SpendIsCounted, RunsOf
    <2> DEFINE f == [r \in Requests |-> Reported(r)]
    <2>1. \A r \in RunsOf(k) : total[r] \in Nat /\ f[r] \in Nat /\ total[r] <= f[r]
        BY CallsAssumption DEF IInv, TypeOK, Reported, RunsOf
    <2>2. ReportedOf(k) = SumFunctionOnSet(f, RunsOf(k))
        BY DEF ReportedOf
    <2> HIDE DEF f
    <2>3. SumFunctionOnSet(total, RunsOf(k)) <= ReportedOf(k)
        BY <2>1, <2>2, SumLE, RunsFinite
    <2>4. SumFunctionOnSet(total, RunsOf(k)) \in Nat
        BY <2>1, SumNat, RunsFinite
    <2>5. ReportedOf(k) \in Nat /\ counted[k] \in Nat /\ Grain * charges[k] \in Nat
        BY ReportTypesHold, CallsAssumption DEF ReportTypes, IInv, TypeOK
    <2>6. ReportedOf(k) <= counted[k] + Grain * charges[k]
        BY DEF CountedInv
    <2> QED BY <2>3, <2>4, <2>5, <2>6
<1> QED BY <1>1, <1>2, Invariance, PTL
=============================================================================
