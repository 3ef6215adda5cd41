------------------------- MODULE Submission_proofs --------------------------
(***************************************************************************)
(* What holds of the submission path for any number of clients, prospects, *)
(* weeks, faults and Redis losses, and for any week length and TTL that    *)
(* satisfy the assumptions of Submission.                                  *)
(***************************************************************************)
EXTENDS Submission, TLAPS

-----------------------------------------------------------------------------
(* The inductive invariant, in named parts *)

HasRow(r) == JobRow(job[r], key[r]) \in jobs

\* Before its insert a handler holds no job, except the cached id it loads
JobMatchesStage ==
    \A r \in Requests :
        /\ pc[r] \in {"idle", "lookup", "insert"} => job[r] = NoJob
        /\ pc[r] \in {"load", "remember", "enqueue", "headers"} => HasRow(r)

\* A row belongs to the handler named by its id, past the insert
RowsHaveCreators ==
    \A row \in jobs :
        /\ job[row.id] = row.id
        /\ key[row.id] = row.key
        /\ pc[row.id] \in {"remember", "enqueue", "headers", "done"}

\* The unique index
KeysUnique == \A x, y \in jobs : x.key = y.key => x = y

\* Replies are final, and name an existing job
RepliesAreFinal ==
    \A r \in Requests :
        /\ reply[r] # 0 => pc[r] = "done"
        /\ Answered(r) => HasRow(r)
        /\ Created202(r) => job[r] = r

\* Keys are made of a week that has begun
KeysOfThePast == \A r \in Requests : key[r].week <= week

\* What a handler wrote to the cache this week has lost no more of its TTL
\* than the week has ticked
FreshEntry(r) ==
    \E e \in cache : /\ e.key = key[r] /\ e.job = r
                     /\ e.life + tick >= IdempotencyTTL
EntriesOutliveTheWeek ==
    losses = 0 =>
        \A r \in Requests :
            /\ key[r].week = week
            /\ job[r] = r
            /\ pc[r] \in {"enqueue", "headers"} \/ Created202(r)
            => FreshEntry(r)

\* A handler that has begun has computed its idempotency key
KeysComputed == \A r \in Requests : pc[r] # "idle" => key[r] \in Keys
\* A handler past its own insert holds the id of the row it made
CreatorsHoldTheirJob ==
    \A r \in Requests : pc[r] \in {"remember", "enqueue"} => job[r] = r
Typed == TypeOK /\ KeysComputed /\ CreatorsHoldTheirJob

IInv ==
    /\ Typed
    /\ JobMatchesStage
    /\ RowsHaveCreators
    /\ KeysUnique
    /\ RepliesAreFinal
    /\ KeysOfThePast
    /\ CacheNeverDangles
    /\ QueuedJobsExist
    /\ StrandedJobsWereReported
    /\ EntriesOutliveTheWeek
-----------------------------------------------------------------------------
(* Type correctness *)

\* The state as the first steps find it: every handler idle, every store empty.
LEMMA InitTyped == Init => Typed
BY WeekAssumption DEF Init, Typed, TypeOK, KeysComputed, CreatorsHoldTheirJob, Keys, NoKey

\* No step of a handler, of the clock or of a failing Redis leaves the types.
LEMMA NextTyped == Typed /\ [Next]_vars => Typed'
<1> SUFFICES ASSUME Typed, [Next]_vars PROVE Typed'
    OBVIOUS
<1> USE DEF Typed, TypeOK, KeysComputed, CreatorsHoldTheirJob, clock, stores, budget, Goto, Answer
<1>1. ASSUME NEW r \in Requests, NEW p \in Prospects, Receive(r, p) PROVE Typed'
    BY <1>1 DEF Receive, Keys
<1>2. ASSUME NEW r \in Requests, Lookup(r) PROVE Typed'
    <2>1. ASSUME NEW e \in EntriesFor(key[r]),
                 job' = [job EXCEPT ![r] = e.job], Goto(r, "load")
          PROVE  Typed'
        BY <1>2, <2>1 DEF Lookup, EntriesFor
    <2>2. CASE UNCHANGED job /\ Goto(r, "insert")
        BY <1>2, <2>2 DEF Lookup
    <2> QED BY <1>2, <2>1, <2>2 DEF Lookup
<1>3. ASSUME NEW r \in Requests, LoadCached(r) PROVE Typed'
    BY <1>3 DEF LoadCached
<1>4. ASSUME NEW r \in Requests, InsertJob(r) PROVE Typed'
    <2>1. CASE KeyTaken(key[r])
        BY <1>4, <2>1 DEF InsertJob
    <2>2. CASE ~KeyTaken(key[r])
        <3>1. key[r] \in Keys
            BY <1>4 DEF InsertJob
        <3> QED BY <1>4, <2>2, <3>1 DEF InsertJob, JobRow
    <2> QED BY <2>1, <2>2
<1>5. ASSUME NEW r \in Requests, SetIdempotency(r) PROVE Typed'
    BY <1>5, TTLAssumption, WeekAssumption DEF SetIdempotency, Remember, EntriesFor
<1>6. ASSUME NEW r \in Requests, Enqueue(r) PROVE Typed'
    BY <1>6 DEF Enqueue
<1>7. ASSUME NEW r \in Requests, Respond(r) PROVE Typed'
    BY <1>7 DEF Respond
<1>8. ASSUME NEW r \in Requests, Fault(r) PROVE Typed'
    BY <1>8 DEF Fault, InFlight
<1>9. CASE RedisLoss
    BY <1>9 DEF RedisLoss
<1>10. CASE Tick
    <2>1. \A e \in cache : e.life > 1 =>
              [e EXCEPT !.life = @ - 1]
                  \in [key : Keys, job : Requests, life : 1 .. IdempotencyTTL]
        BY TTLAssumption
    <2>2. cache' \in SUBSET [key : Keys, job : Requests, life : 1 .. IdempotencyTTL]
        BY <1>10, <2>1 DEF Tick
    <2>3. week' \in Nat /\ tick' \in 0 .. WeekLength - 1
        BY <1>10, WeekAssumption DEF Tick
    <2> QED BY <1>10, <2>2, <2>3 DEF Tick
<1>11. CASE UNCHANGED vars
    BY <1>11 DEF vars
<1> QED BY <1>1, <1>2, <1>3, <1>4, <1>5, <1>6, <1>7, <1>8, <1>9, <1>10, <1>11
        DEF Next, Handle
-----------------------------------------------------------------------------
(* The invariant is inductive *)

\* With nothing stored and nobody served every part holds.
LEMMA InitIInv == Init => IInv
BY InitTyped DEF Init, IInv, JobMatchesStage, RowsHaveCreators, KeysUnique,
    RepliesAreFinal, Answered, Created202, KeysOfThePast, NoKey,
    CacheNeverDangles, QueuedJobsExist, StrandedJobsWereReported,
    EntriesOutliveTheWeek

\* Steps that leave the stores, the keys and the clock alone keep what is said
\* of them.
LEMMA StoresUntouched ==
    ASSUME IInv, UNCHANGED <<week, tick, jobs, cache, queue, key>>
    PROVE  KeysUnique' /\ KeysOfThePast' /\ CacheNeverDangles' /\ QueuedJobsExist'
BY DEF IInv, KeysUnique, KeysOfThePast, CacheNeverDangles, QueuedJobsExist, JobRow

\* Every step of every handler, every fault, every loss of Redis and every tick
\* of the clock preserves every part.
LEMMA NextIInv == IInv /\ [Next]_vars => IInv'
<1> SUFFICES ASSUME IInv, [Next]_vars PROVE IInv'
    OBVIOUS
<1>0. Typed /\ Typed'
    BY NextTyped DEF IInv
<1> USE <1>0 DEF Typed, TypeOK, HasRow, JobRow, Answered, Created202, Goto, Answer,
                 clock, stores, budget
<1>1. ASSUME NEW r \in Requests, NEW p \in Prospects, Receive(r, p) PROVE IInv'
    <2>1. /\ (\A row \in jobs : row.id # r) /\ reply[r] = 0
          /\ pc'[r] = "lookup" /\ job'[r] = NoJob /\ job[r] = NoJob
          /\ \A s \in Requests \ {r} : pc'[s] = pc[s] /\ key'[s] = key[s]
          /\ UNCHANGED <<week, tick, jobs, cache, queue, job, reply, losses>>
        <3>1. pc[r] = "idle"
            BY <1>1 DEF Receive
        <3>2. (\A row \in jobs : row.id # r) /\ reply[r] = 0 /\ job[r] = NoJob
            BY ZenonT(30), <3>1 DEF IInv, RowsHaveCreators, RepliesAreFinal, JobMatchesStage
        <3> QED BY <1>1, <3>2 DEF Receive
    <2>2. JobMatchesStage' /\ RowsHaveCreators' /\ RepliesAreFinal'
        BY <2>1, NoJobAssumption
        DEF IInv, JobMatchesStage, RowsHaveCreators, RepliesAreFinal
    <2>3. KeysUnique' /\ CacheNeverDangles' /\ QueuedJobsExist'
        BY <2>1 DEF IInv, KeysUnique, CacheNeverDangles, QueuedJobsExist
    <2>4. KeysOfThePast'
        BY <1>1 DEF Receive, IInv, KeysOfThePast
    <2>5. StrandedJobsWereReported'
        BY <2>1 DEF IInv, StrandedJobsWereReported
    <2>6. EntriesOutliveTheWeek'
        BY <2>1, NoJobAssumption DEF IInv, EntriesOutliveTheWeek, FreshEntry
    <2> QED BY <2>2, <2>3, <2>4, <2>5, <2>6 DEF IInv
<1>2. ASSUME NEW r \in Requests, Lookup(r) PROVE IInv'
    <2>1. /\ (\A row \in jobs : row.id # r) /\ reply[r] = 0
          /\ pc'[r] \in {"insert", "load"}
          /\ \A s \in Requests \ {r} : pc'[s] = pc[s] /\ job'[s] = job[s]
          /\ UNCHANGED <<week, tick, jobs, cache, queue, key, reply, losses>>
        <3>1. pc[r] = "lookup"
            BY <1>2 DEF Lookup
        <3>2. (\A row \in jobs : row.id # r) /\ reply[r] = 0
            BY ZenonT(30), <3>1 DEF IInv, RowsHaveCreators, RepliesAreFinal
        <3>3. /\ pc'[r] \in {"insert", "load"}
              /\ \A s \in Requests \ {r} : pc'[s] = pc[s] /\ job'[s] = job[s]
            BY <1>2 DEF Lookup
        <3> QED BY <1>2, <3>2, <3>3 DEF Lookup
    <2>2. JobMatchesStage'
        <3>1. \A s \in Requests \ {r} : HasRow(s)' <=> HasRow(s)
            BY <2>1
        <3>2. pc'[r] = "insert" => job'[r] = NoJob
            <4>1. pc[r] = "lookup"
                BY <1>2 DEF Lookup
            <4>2. job[r] = NoJob
                BY <4>1 DEF IInv, JobMatchesStage
            <4>3. pc'[r] = "insert" => UNCHANGED job
                BY <1>2, <4>1 DEF Lookup
            <4> QED BY <4>2, <4>3
        <3>3. pc'[r] = "load" => HasRow(r)'
            BY <1>2 DEF Lookup, EntriesFor, IInv, CacheNeverDangles
        <3> QED BY <2>1, <3>1, <3>2, <3>3 DEF IInv, JobMatchesStage
    <2>3. RowsHaveCreators' /\ RepliesAreFinal'
        BY <2>1 DEF IInv, RowsHaveCreators, RepliesAreFinal
    <2>4. KeysUnique' /\ KeysOfThePast' /\ CacheNeverDangles' /\ QueuedJobsExist'
        BY <2>1, StoresUntouched
    <2>5. StrandedJobsWereReported' /\ EntriesOutliveTheWeek'
        BY <2>1 DEF IInv, StrandedJobsWereReported, EntriesOutliveTheWeek, FreshEntry
    <2> QED BY <2>2, <2>3, <2>4, <2>5 DEF IInv
<1>3. ASSUME NEW r \in Requests, LoadCached(r) PROVE IInv'
    <2>1. /\ (\A row \in jobs : row.id # r) /\ reply[r] = 0 /\ HasRow(r)
          /\ UNCHANGED <<week, tick, jobs, cache, queue, key, reply, losses>>
        <3>1. pc[r] = "load"
            BY <1>3 DEF LoadCached
        <3>2. (\A row \in jobs : row.id # r) /\ reply[r] = 0 /\ HasRow(r)
            BY <3>1 DEF IInv, RowsHaveCreators, RepliesAreFinal, JobMatchesStage
        <3> QED BY <1>3, <3>2 DEF LoadCached
    <2>2. /\ pc' = [pc EXCEPT ![r] = "headers"] /\ UNCHANGED job
          /\ job[r] # r
        BY <1>3, <2>1 DEF LoadCached
    <2>3. JobMatchesStage' /\ RowsHaveCreators' /\ RepliesAreFinal'
        BY <2>1, <2>2 DEF IInv, JobMatchesStage, RowsHaveCreators, RepliesAreFinal
    <2>4. KeysUnique' /\ KeysOfThePast' /\ CacheNeverDangles' /\ QueuedJobsExist'
        BY <2>1, StoresUntouched
    <2>5. StrandedJobsWereReported' /\ EntriesOutliveTheWeek'
        BY <2>1, <2>2 DEF IInv, StrandedJobsWereReported, EntriesOutliveTheWeek, FreshEntry
    <2> QED BY <2>3, <2>4, <2>5 DEF IInv
<1>4. ASSUME NEW r \in Requests, InsertJob(r) PROVE IInv'
    <2>1. /\ pc[r] = "insert" /\ reply[r] = 0 /\ job[r] = NoJob /\ key[r] \in Keys
          /\ (\A row \in jobs : row.id # r)
          /\ UNCHANGED <<week, tick, cache, queue, key, losses>>
        BY ZenonT(30), <1>4 DEF InsertJob, IInv, RowsHaveCreators, RepliesAreFinal,
                    JobMatchesStage, KeysComputed
    <2>2. CASE KeyTaken(key[r])
        <3>1. UNCHANGED <<jobs, job>>
              /\ pc' = [pc EXCEPT ![r] = "done"] /\ reply' = [reply EXCEPT ![r] = 500]
            BY <1>4, <2>2 DEF InsertJob
        <3>2. KeysUnique' /\ KeysOfThePast' /\ CacheNeverDangles' /\ QueuedJobsExist'
            BY <2>1, <3>1, StoresUntouched
        <3>3. JobMatchesStage' /\ RowsHaveCreators' /\ RepliesAreFinal'
            BY <2>1, <3>1 DEF IInv, JobMatchesStage, RowsHaveCreators, RepliesAreFinal
        <3>4. StrandedJobsWereReported' /\ EntriesOutliveTheWeek'
            BY <2>1, <3>1, NoJobAssumption
            DEF IInv, StrandedJobsWereReported, EntriesOutliveTheWeek, FreshEntry
        <3> QED BY <3>2, <3>3, <3>4 DEF IInv
    <2>3. CASE ~KeyTaken(key[r])
        <3>1. /\ jobs' = jobs \cup {[id |-> r, key |-> key[r]]}
              /\ job' = [job EXCEPT ![r] = r] /\ pc' = [pc EXCEPT ![r] = "remember"]
              /\ UNCHANGED reply
            BY <1>4, <2>3 DEF InsertJob
        <3>2. JobMatchesStage'
            BY <2>1, <3>1 DEF IInv, JobMatchesStage
        <3>3. RowsHaveCreators'
            BY <2>1, <3>1 DEF IInv, RowsHaveCreators
        <3>4. KeysUnique'
            BY <2>3, <3>1 DEF IInv, KeysUnique, KeyTaken
        <3>5. RepliesAreFinal'
            BY <2>1, <3>1 DEF IInv, RepliesAreFinal
        <3>6. KeysOfThePast' /\ CacheNeverDangles' /\ QueuedJobsExist'
            BY <2>1, <3>1 DEF IInv, KeysOfThePast, CacheNeverDangles, QueuedJobsExist
        <3>7. StrandedJobsWereReported'
            BY <2>1, <3>1 DEF IInv, StrandedJobsWereReported
        <3>8. EntriesOutliveTheWeek'
            <4>1. ~Created202(r)'
                BY <2>1, <3>1
            <4> QED BY <2>1, <3>1, <4>1 DEF IInv, EntriesOutliveTheWeek, FreshEntry
        <3> QED BY <3>2, <3>3, <3>4, <3>5, <3>6, <3>7, <3>8 DEF IInv
    <2> QED BY <2>2, <2>3
<1>5. ASSUME NEW r \in Requests, SetIdempotency(r) PROVE IInv'
    <2> DEFINE fresh == [key |-> key[r], job |-> r, life |-> IdempotencyTTL]
    <2>1. /\ pc[r] = "remember" /\ job[r] = r /\ [id |-> r, key |-> key[r]] \in jobs
          /\ pc' = [pc EXCEPT ![r] = "enqueue"]
          /\ UNCHANGED <<week, tick, jobs, queue, key, job, reply, losses>>
        BY <1>5 DEF SetIdempotency, Remember, CreatorsHoldTheirJob, IInv, JobMatchesStage
    <2>2. cache' = {e \in cache : e.key # key[r]} \cup {fresh}
        BY <1>5, <2>1 DEF SetIdempotency, Remember, EntriesFor
    <2>3. JobMatchesStage' /\ RowsHaveCreators' /\ RepliesAreFinal'
        BY <2>1 DEF IInv, JobMatchesStage, RowsHaveCreators, RepliesAreFinal
    <2>4. KeysUnique' /\ KeysOfThePast' /\ QueuedJobsExist' /\ StrandedJobsWereReported'
        BY <2>1 DEF IInv, KeysUnique, KeysOfThePast, QueuedJobsExist,
                    StrandedJobsWereReported
    <2>5. CacheNeverDangles'
        <3>1. \A e \in cache' : e \in cache \/ (e.job = r /\ e.key = key[r])
            BY <2>2
        <3> QED BY <2>1, <3>1 DEF IInv, CacheNeverDangles
    <2>6. EntriesOutliveTheWeek'
        <3> SUFFICES ASSUME losses' = 0, NEW s \in Requests,
                            key[s].week = week, job[s] = s,
                            pc'[s] \in {"enqueue", "headers"} \/ Created202(s)
                     PROVE  FreshEntry(s)'
            BY <2>1 DEF EntriesOutliveTheWeek
        <3>1. CASE s = r
            <4>1. fresh \in cache' /\ fresh.life + tick >= IdempotencyTTL
                BY <2>2, TTLAssumption
            <4> QED BY <4>1, <3>1, <2>1 DEF FreshEntry
        <3>2. CASE s # r
            <4>1. FreshEntry(s)
                BY <2>1, <3>2 DEF IInv, EntriesOutliveTheWeek
            <4>2. [id |-> s, key |-> key[s]] \in jobs
                BY <2>1, <3>2 DEF IInv, JobMatchesStage, RepliesAreFinal
            <4>3. key[s] # key[r]
                BY <2>1, <3>2, <4>2 DEF IInv, KeysUnique
            <4> QED BY <2>1, <2>2, <4>1, <4>3 DEF FreshEntry
        <3> QED BY <3>1, <3>2
    <2> QED BY <2>3, <2>4, <2>5, <2>6 DEF IInv
<1>6. ASSUME NEW r \in Requests, Enqueue(r) PROVE IInv'
    <2>1. /\ pc[r] = "enqueue" /\ job[r] = r /\ [id |-> r, key |-> key[r]] \in jobs
          /\ pc' = [pc EXCEPT ![r] = "headers"] /\ queue' = queue \cup {r}
          /\ UNCHANGED <<week, tick, jobs, cache, key, job, reply, losses>>
        BY <1>6 DEF Enqueue, CreatorsHoldTheirJob, IInv, JobMatchesStage
    <2>2. JobMatchesStage' /\ RowsHaveCreators' /\ RepliesAreFinal'
        BY <2>1 DEF IInv, JobMatchesStage, RowsHaveCreators, RepliesAreFinal
    <2>3. KeysUnique' /\ KeysOfThePast' /\ CacheNeverDangles'
        BY <2>1 DEF IInv, KeysUnique, KeysOfThePast, CacheNeverDangles
    <2>4. QueuedJobsExist'
        <3>1. \E row \in jobs : row.id = r
            BY <2>1
        <3> QED BY <2>1, <3>1 DEF IInv, QueuedJobsExist
    <2>5. StrandedJobsWereReported'
        BY <2>1 DEF IInv, StrandedJobsWereReported
    <2>6. EntriesOutliveTheWeek'
        BY <2>1 DEF IInv, EntriesOutliveTheWeek, FreshEntry
    <2> QED BY <2>2, <2>3, <2>4, <2>5, <2>6 DEF IInv
<1>7. ASSUME NEW r \in Requests, Respond(r) PROVE IInv'
    <2>1. /\ pc[r] = "headers" /\ reply[r] = 0 /\ HasRow(r)
          /\ pc' = [pc EXCEPT ![r] = "done"]
          /\ reply' = [reply EXCEPT ![r] = IF job[r] = r THEN 202 ELSE 200]
          /\ UNCHANGED <<week, tick, jobs, cache, queue, key, job, losses>>
        BY <1>7 DEF Respond, Created, IInv, RepliesAreFinal, JobMatchesStage
    <2>2. JobMatchesStage' /\ RowsHaveCreators' /\ RepliesAreFinal'
        BY <2>1 DEF IInv, JobMatchesStage, RowsHaveCreators, RepliesAreFinal
    <2>3. KeysUnique' /\ KeysOfThePast' /\ CacheNeverDangles' /\ QueuedJobsExist'
        BY <2>1, StoresUntouched
    <2>4. StrandedJobsWereReported'
        BY <2>1 DEF IInv, StrandedJobsWereReported
    <2>5. EntriesOutliveTheWeek'
        BY <2>1 DEF IInv, EntriesOutliveTheWeek, FreshEntry
    <2> QED BY <2>2, <2>3, <2>4, <2>5 DEF IInv
<1>8. ASSUME NEW r \in Requests, Fault(r) PROVE IInv'
    <2>1. /\ pc[r] # "done" /\ reply[r] = 0
          /\ pc' = [pc EXCEPT ![r] = "done"] /\ reply' = [reply EXCEPT ![r] = 500]
          /\ UNCHANGED <<week, tick, jobs, cache, queue, key, job, losses>>
        BY <1>8 DEF Fault, InFlight, IInv, RepliesAreFinal
    <2>2. JobMatchesStage' /\ RowsHaveCreators' /\ RepliesAreFinal'
        BY <2>1 DEF IInv, JobMatchesStage, RowsHaveCreators, RepliesAreFinal
    <2>3. KeysUnique' /\ KeysOfThePast' /\ CacheNeverDangles' /\ QueuedJobsExist'
        BY <2>1, StoresUntouched
    <2>4. StrandedJobsWereReported'
        BY <2>1 DEF IInv, StrandedJobsWereReported
    <2>5. EntriesOutliveTheWeek'
        BY <2>1 DEF IInv, EntriesOutliveTheWeek, FreshEntry
    <2> QED BY <2>2, <2>3, <2>4, <2>5 DEF IInv
<1>9. CASE RedisLoss
    <2>1. /\ cache' = {} /\ queue' = {} /\ losses' # 0
          /\ UNCHANGED <<week, tick, jobs, pc, key, job, reply>>
        BY <1>9 DEF RedisLoss
    <2> QED BY <2>1 DEF IInv, JobMatchesStage, RowsHaveCreators, KeysUnique,
            RepliesAreFinal, KeysOfThePast, CacheNeverDangles, QueuedJobsExist,
            StrandedJobsWereReported, EntriesOutliveTheWeek
<1>10. CASE Tick
    <2>1. UNCHANGED <<jobs, queue, pc, key, job, reply, losses>>
        BY <1>10 DEF Tick
    <2>2. JobMatchesStage' /\ RowsHaveCreators' /\ RepliesAreFinal' /\ KeysUnique'
        BY <2>1 DEF IInv, JobMatchesStage, RowsHaveCreators, RepliesAreFinal, KeysUnique
    <2>3. QueuedJobsExist' /\ StrandedJobsWereReported'
        BY <2>1 DEF IInv, QueuedJobsExist, StrandedJobsWereReported
    <2>4. KeysOfThePast'
        <3>1. \A r \in Requests : key[r].week \in Nat
            BY DEF Keys, NoKey
        <3>2. week' \in {week, week + 1}
            BY <1>10 DEF Tick
        <3> QED BY <2>1, <3>1, <3>2 DEF IInv, KeysOfThePast
    <2>5. \A d \in cache' : \E e \in cache : d.key = e.key /\ d.job = e.job
        BY <1>10 DEF Tick
    <2>6. CacheNeverDangles'
        BY <2>1, <2>5 DEF IInv, CacheNeverDangles
    <2>7. EntriesOutliveTheWeek'
        <3> SUFFICES ASSUME losses = 0, NEW r \in Requests,
                            key[r].week = week', job[r] = r,
                            pc[r] \in {"enqueue", "headers"} \/ Created202(r)
                     PROVE  FreshEntry(r)'
            BY <2>1 DEF EntriesOutliveTheWeek
        <3>1. tick + 1 < WeekLength /\ tick' = tick + 1 /\ week' = week
            <4>1. key[r].week \in Nat /\ key[r].week <= week
                BY DEF Keys, NoKey, IInv, KeysOfThePast
            <4> QED BY <1>10, <4>1 DEF Tick
        <3>2. PICK e \in cache : /\ e.key = key[r] /\ e.job = r
                                 /\ e.life + tick >= IdempotencyTTL
            BY <3>1 DEF IInv, EntriesOutliveTheWeek, FreshEntry
        <3>3. e.life \in Int /\ e.life > 1
            BY <3>1, <3>2, TTLAssumption, WeekAssumption
        <3> DEFINE older == [e EXCEPT !.life = @ - 1]
        <3>4. older \in cache'
            BY ZenonT(30), <1>10, <3>3 DEF Tick
        <3>5. older.key = key[r] /\ older.job = r /\ older.life = e.life - 1
            BY <3>2
        <3>6. older.life + tick' >= IdempotencyTTL
            BY <3>1, <3>2, <3>3, <3>5, TTLAssumption
        <3> QED BY <2>1, <3>4, <3>5, <3>6 DEF FreshEntry
    <2> QED BY <2>2, <2>3, <2>4, <2>6, <2>7 DEF IInv
<1>11. CASE UNCHANGED vars
    BY <1>11 DEF vars, IInv, JobMatchesStage, RowsHaveCreators, KeysUnique,
        RepliesAreFinal, KeysOfThePast, CacheNeverDangles, QueuedJobsExist,
        StrandedJobsWereReported, EntriesOutliveTheWeek, FreshEntry
<1> QED BY <1>1, <1>2, <1>3, <1>4, <1>5, <1>6, <1>7, <1>8, <1>9, <1>10, <1>11
        DEF Next, Handle

-----------------------------------------------------------------------------
(* The theorems *)

\* The invariant holds in every reachable state.
THEOREM Invariance == Spec => []IInv
<1>1. Init => IInv
    BY InitIInv
<1>2. IInv /\ [Next]_vars => IInv'
    BY NextIInv
<1> QED BY <1>1, <1>2, PTL DEF Spec

\* Every variable of the submission path keeps its type.
THEOREM TypeCorrect == Spec => []TypeOK
<1>1. IInv => TypeOK
    BY DEF IInv, Typed
<1> QED BY <1>1, Invariance, PTL

\* Whatever the interleaving of duplicate submissions and the failures, clients
\* that got an id for one prospect and week got the same one, and one of them
\* at most was told that its job is new.
THEOREM OneJobPerKey == Spec => []OneJobPerProspectAndWeek
<1>1. IInv => OneJobPerProspectAndWeek
    BY DEF IInv, OneJobPerProspectAndWeek, RepliesAreFinal, KeysUnique, HasRow, JobRow
<1> QED BY <1>1, Invariance, PTL

\* The cache only ever names committed rows and the queue only jobs the worker
\* will find: both are written after the commit.
THEOREM StoresInOrder == Spec => []StoresAgree
<1>1. IInv => StoresAgree
    BY DEF IInv, StoresAgree
<1> QED BY <1>1, Invariance, PTL

\* A job no worker will ever run belongs to a client that was told of an error,
\* unless Redis lost the queue.
THEOREM NoSilentStranding == Spec => []StrandedJobsWereReported
<1>1. IInv => StrandedJobsWereReported
    BY DEF IInv
<1> QED BY <1>1, Invariance, PTL

\* A TTL of at least a week keeps every accepted submission in the cache until
\* its ISO week is over.
THEOREM CachedForTheWeek == Spec => []AcceptedStaysCachedAllWeek
<1>1. IInv => AcceptedStaysCachedAllWeek
    BY DEF IInv, AcceptedStaysCachedAllWeek, EntriesOutliveTheWeek, FreshEntry,
           EntriesFor, RepliesAreFinal
<1> QED BY <1>1, Invariance, PTL
=============================================================================
