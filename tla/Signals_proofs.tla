--------------------------- MODULE Signals_proofs ---------------------------
(***************************************************************************)
(* The fetch stage for any number of jobs and failing calls of Redis: the  *)
(* fetches that share a session lose no trace of a saved job, and a stage  *)
(* that fails or times out loses no verdict but in a collision.            *)
(***************************************************************************)
EXTENDS Signals, TLAPS

\* One commit at a time, and nothing in flight without one
OneCommit(j) ==
    /\ ~Busy(j) => flushing[j] = {}
    /\ \A t, u \in Types : at[j][t] = "commit" /\ at[j][u] = "commit" => t = u
    /\ main[j] \in {"saving", "failing"} => \A t \in Types : at[j][t] # "commit"

\* While the run waits, the trace of a fetch that wrote it is somewhere.
TracesKept(j) ==
    main[j] \in {"idle", "gather"} =>
        \A t \in Types :
            at[j][t] \in {"commit", "over"} => t \in added[j] \cup flushing[j] \cup stored[j]

\* The signals are committed after all fetches are over, with what is left of
\* their traces.
SignalsLast(j) ==
    /\ main[j] \in {"saving", "saved"} => \A t \in Types : at[j][t] = "over"
    /\ "signals" \notin added[j]
    /\ "signals" \in flushing[j] =>
          main[j] = "saving" /\ Types \subseteq flushing[j] \cup stored[j]
    /\ "signals" \in stored[j] => main[j] = "saved" /\ Types \subseteq stored[j]

\* The verdict is in flight, stored or refused.
VerdictKept(j) ==
    /\ main[j] = "failing" => "failed" \in flushing[j] \cup refused[j]
    /\ main[j] \in {"leaving", "closed"} => "failed" \in stored[j] \cup refused[j]

\* A run that fails has a fetch whose read failed or that was cut.
ReadsRaise(j) ==
    /\ raised[j] \subseteq unread[j]
    /\ main[j] = "cancelled" => cut[j] # {}
    /\ main[j] \in {"failing", "leaving", "closed"} => unread[j] # {} \/ cut[j] # {}

\* Whoever wrote an entry fetched it for the domain and the type of the entry.
RightPlace(content, t, d) == content # Nothing => content.type = t /\ content.domain = d
Placed ==
    /\ \A d \in Domains, t \in Types : RightPlace(cache[<<d, t>>], t, d)
    /\ \A j \in Jobs, t \in Types : RightPlace(got[j][t], t, Domain[j])

DurableOf(j) ==
    OneCommit(j) /\ TracesKept(j) /\ SignalsLast(j) /\ VerdictKept(j) /\ ReadsRaise(j)
Durable == \A j \in Jobs : DurableOf(j)
IInv == TypeOK /\ Durable /\ Placed

-----------------------------------------------------------------------------
(* Types *)

\* What a fetch yields is a content.
LEMMA ContentForType ==
    ASSUME NEW j \in Jobs, NEW t \in Types PROVE ContentFor(j, t) \in Contents
<1>1. Domain[j] \in Domains
    BY DEF Domains
<1>2. CASE t = "profile"
    BY <1>1, <1>2 DEF ContentFor, Contents
<1>3. CASE t # "profile"
    BY <1>1, <1>3 DEF ContentFor, Contents
<1> QED BY <1>2, <1>3

\* A commit that begins or is refused keeps the types of the session.
LEMMA CommitType ==
    ASSUME TypeOK, NEW j \in Jobs, NEW w \in Writes,
           BeginCommit(j, w) \/ RefuseCommit(j, w)
    PROVE  /\ added' \in [Jobs -> SUBSET Writes]
           /\ flushing' \in [Jobs -> SUBSET Writes]
           /\ stored' \in [Jobs -> SUBSET Writes]
           /\ refused' \in [Jobs -> SUBSET Writes]
<1>1. CASE BeginCommit(j, w)
    BY <1>1 DEF BeginCommit, TypeOK
<1>2. CASE RefuseCommit(j, w)
    <2>1. PICK back \in {{}, flushing[j]} :
              /\ added' = [added EXCEPT ![j] = @ \cup {w} \cup back]
              /\ refused' = [refused EXCEPT ![j] = @ \cup (({w} \cup back) \ Types)]
              /\ flushing' = [flushing EXCEPT ![j] = @ \ back]
        BY <1>2 DEF RefuseCommit
    <2>2. back \subseteq Writes /\ UNCHANGED stored
        BY <1>2 DEF RefuseCommit, TypeOK
    <2> QED BY <2>1, <2>2 DEF TypeOK
<1> QED BY <1>1, <1>2

\* Every step of the specification keeps the types.
LEMMA TypeStep == TypeOK /\ [Next]_vars => TypeOK'
<1> SUFFICES ASSUME TypeOK, [Next]_vars PROVE TypeOK'
    OBVIOUS
<1> USE FaultsAssumption DEF TypeOK, Goto, Returns, session, run
<1>1. \A j \in Jobs : Domain[j] \in Domains
    BY DEF Domains
<1>2. Types \subseteq Writes /\ "signals" \in Writes /\ "failed" \in Writes
    BY DEF Writes
<1>3. ASSUME NEW j \in Jobs, NEW t \in Types, FetchOrCache(j, t) PROVE TypeOK'
    <2> DEFINE k == <<Domain[j], t>>
    <2>0. k \in Domains \X Types
        BY <1>1
    <2>1. CASE Hit(j, t)
        <3>1. cache[k] \in Contents \cup {Nothing}
            BY <2>0
        <3> HIDE DEF Contents, Domains, Writes
        <3> QED BY <2>1, <3>1 DEF Hit
    <2>2. CASE Miss(j, t)
        BY <2>2 DEF Miss
    <2>3. CASE ReadFault(j, t)
        BY <2>3 DEF ReadFault
    <2>4. CASE Fetch(j, t)
        BY <2>4, ContentForType DEF Fetch
    <2>5. CASE FetchNothing(j, t)
        BY <2>5 DEF FetchNothing
    <2>6. CASE Store(j, t)
        <3>1. got[j][t] \in Contents \cup {Nothing}
            OBVIOUS
        <3> QED BY <2>0, <2>6, <3>1 DEF Store
    <2>7. CASE StoreFault(j, t)
        BY <2>7 DEF StoreFault
    <2>8. CASE Trace(j, t)
        <3>1. t \in Writes /\ (BeginCommit(j, t) \/ RefuseCommit(j, t))
            BY <1>2, <2>8 DEF Trace
        <3>2. PICK to \in {"commit", "over"} : Goto(j, t, "trace", to)
            BY <2>8 DEF Trace
        <3>3. UNCHANGED <<cache, main, got, run, faults>>
            BY <2>8 DEF Trace
        <3>4. at' \in [Jobs -> [Types -> {"lookup", "fetch", "store", "trace", "commit",
                                          "over", "torn"}]]
            BY <3>2
        <3>5. /\ added' \in [Jobs -> SUBSET Writes] /\ flushing' \in [Jobs -> SUBSET Writes]
              /\ stored' \in [Jobs -> SUBSET Writes] /\ refused' \in [Jobs -> SUBSET Writes]
            BY <3>1, CommitType
        <3> QED BY <3>3, <3>4, <3>5
    <2>9. CASE Traced(j, t)
        BY <2>9 DEF Traced, EndCommit
    <2> QED BY <1>3, <2>1, <2>2, <2>3, <2>4, <2>5, <2>6, <2>7, <2>8, <2>9
            DEF FetchOrCache
<1>4. ASSUME NEW j \in Jobs, Begin(j) PROVE TypeOK'
    BY <1>4 DEF Begin
<1>5. ASSUME NEW j \in Jobs, Save(j) PROVE TypeOK'
    BY <1>2, <1>5 DEF Save, BeginCommit
<1>6. ASSUME NEW j \in Jobs, Fail(j) PROVE TypeOK'
    <2>1. BeginCommit(j, "failed") \/ RefuseCommit(j, "failed")
        BY <1>6 DEF Fail
    <2>2. main' = [main EXCEPT ![j] = "failing"] \/ main' = [main EXCEPT ![j] = "leaving"]
        BY <1>6 DEF Fail
    <2>3. UNCHANGED <<cache, at, got, run, faults>>
        BY <1>6 DEF Fail
    <2> QED BY <1>2, <2>1, <2>2, <2>3, CommitType
<1>7. ASSUME NEW j \in Jobs, TimeOut(j) PROVE TypeOK'
    <2>1. main' = [main EXCEPT ![j] = "cancelled"]
        BY <1>7 DEF TimeOut
    <2>2. cut' \in [Jobs -> SUBSET Types]
        BY <1>7 DEF TimeOut
    <2>3. at' \in [Jobs -> [Types -> {"lookup", "fetch", "store", "trace", "commit", "over",
                                     "torn"}]]
        BY <1>7 DEF TimeOut
    <2>4. flushing' \in [Jobs -> SUBSET Writes] /\ stored' \in [Jobs -> SUBSET Writes]
        BY <1>7 DEF TimeOut
    <2>5. UNCHANGED <<cache, got, unread, raised, added, refused, faults>>
        BY <1>7 DEF TimeOut
    <2> HIDE DEF Contents, Domains, Writes
    <2> QED BY <2>1, <2>2, <2>3, <2>4, <2>5
<1>8. ASSUME NEW j \in Jobs, FailTimedOut(j) PROVE TypeOK'
    <2>1. BeginCommit(j, "failed") \/ RefuseCommit(j, "failed")
        BY <1>8 DEF FailTimedOut
    <2>2. main' = [main EXCEPT ![j] = "failing"] \/ main' = [main EXCEPT ![j] = "leaving"]
        BY <1>8 DEF FailTimedOut
    <2>3. UNCHANGED <<cache, at, got, run, faults>>
        BY <1>8 DEF FailTimedOut
    <2> QED BY <1>2, <2>1, <2>2, <2>3, CommitType
<1>9. ASSUME NEW j \in Jobs, Committed(j) PROVE TypeOK'
    BY <1>9 DEF Committed, EndCommit
<1>10. ASSUME NEW j \in Jobs, Close(j) PROVE TypeOK'
    BY <1>10 DEF Close
<1>11. ASSUME NEW k \in Domains \X Types, Expire(k) PROVE TypeOK'
    BY <1>11 DEF Expire
<1>12. CASE UNCHANGED vars
    BY <1>12 DEF vars
<1> QED BY <1>3, <1>4, <1>5, <1>6, <1>7, <1>8, <1>9, <1>10, <1>11,
         <1>12 DEF Next

-----------------------------------------------------------------------------
(* The session *)

\* The steps of a job that are not those of a fetch.
Run(j) ==
    \/ Begin(j) \/ Save(j) \/ Fail(j) \/ TimeOut(j) \/ FailTimedOut(j)
    \/ Committed(j) \/ Close(j)

\* Whoever is not concerned by a step keeps what it has.
LEMMA Untouched ==
    ASSUME NEW i \in Jobs, DurableOf(i),
           main'[i] = main[i], at'[i] = at[i], unread'[i] = unread[i],
           raised'[i] = raised[i], cut'[i] = cut[i], added'[i] = added[i],
           flushing'[i] = flushing[i], stored'[i] = stored[i], refused'[i] = refused[i]
    PROVE  DurableOf(i)'
<1>1. Busy(i)' <=> Busy(i)
    BY DEF Busy
<1> QED BY <1>1 DEF DurableOf, OneCommit, TracesKept, SignalsLast, VerdictKept, ReadsRaise

\* A step of one job, or of one of its fetches, is no concern of the others.
LEMMA OneJobAtATime ==
    ASSUME TypeOK, Durable, NEW j \in Jobs, DurableOf(j)',
           \/ \E t \in Types : FetchOrCache(j, t)
           \/ Run(j)
    PROVE  Durable'
<1> SUFFICES ASSUME NEW i \in Jobs, i # j PROVE DurableOf(i)'
    BY DEF Durable
<1> USE DEF TypeOK, Goto, session, run, Run
<1>1. main'[i] = main[i]
    BY DEF FetchOrCache, Hit, Miss, ReadFault, Fetch, FetchNothing, Store, StoreFault,
           Trace, Traced, Begin, Save, Fail, TimeOut, FailTimedOut, Committed, Close
<1>2. at'[i] = at[i]
    BY DEF FetchOrCache, Hit, Miss, ReadFault, Fetch, FetchNothing, Store, StoreFault,
           Trace, Traced, Begin, Save, Fail, TimeOut, FailTimedOut, Committed, Close
<1>3. unread'[i] = unread[i] /\ raised'[i] = raised[i] /\ cut'[i] = cut[i]
    <2>1. CASE \E t \in Types : ReadFault(j, t)
        BY <2>1 DEF ReadFault
    <2>2. CASE TimeOut(j)
        BY <2>2 DEF TimeOut
    <2>3. CASE UNCHANGED run
        BY <2>3
    <2> QED
        BY <2>1, <2>2, <2>3
           DEF FetchOrCache, Hit, Miss, Fetch, FetchNothing, Store, StoreFault,
               Trace, Traced, Begin, Save, Fail, FailTimedOut, Committed, Close
<1>4. /\ added'[i] = added[i] /\ flushing'[i] = flushing[i]
      /\ stored'[i] = stored[i] /\ refused'[i] = refused[i]
    <2>1. ASSUME NEW w, BeginCommit(j, w) \/ RefuseCommit(j, w) \/ EndCommit(j)
          PROVE  /\ added'[i] = added[i] /\ flushing'[i] = flushing[i]
                 /\ stored'[i] = stored[i] /\ refused'[i] = refused[i]
        BY <2>1 DEF BeginCommit, RefuseCommit, EndCommit
    <2>2. CASE TimeOut(j)
        BY <2>2 DEF TimeOut
    <2>3. CASE Close(j)
        BY <2>3 DEF Close
    <2> QED
        BY <2>1, <2>2, <2>3
           DEF FetchOrCache, Hit, Miss, ReadFault, Fetch, FetchNothing, Store, StoreFault,
               Trace, Traced, Begin, Save, Fail, FailTimedOut, Committed
<1> QED BY <1>1, <1>2, <1>3, <1>4, Untouched DEF Durable

\* A fetch between its start and its trace leaves the session alone.
LEMMA FetchStep ==
    ASSUME TypeOK, NEW j \in Jobs, DurableOf(j), NEW t \in Types,
           Hit(j, t) \/ Miss(j, t) \/ ReadFault(j, t) \/ Fetch(j, t)
              \/ FetchNothing(j, t) \/ Store(j, t) \/ StoreFault(j, t)
    PROVE  DurableOf(j)'
<1>1. \E from \in {"lookup", "fetch", "store"}, to \in {"fetch", "store", "trace"} :
         Goto(j, t, from, to)
    BY DEF Hit, Miss, ReadFault, Fetch, FetchNothing, Store, StoreFault
<1>2. UNCHANGED <<main, added, flushing, stored, refused>>
    BY DEF Hit, Miss, ReadFault, Fetch, FetchNothing, Store, StoreFault, session
<1>3. \A u \in Types :
         /\ at'[j][u] = "commit" <=> at[j][u] = "commit"
         /\ at'[j][u] = "over" <=> at[j][u] = "over"
         /\ at'[j][u] = "torn" <=> at[j][u] = "torn"
    BY <1>1 DEF TypeOK, Goto
<1>4. ReadsRaise(j)'
    <2>1. CASE ReadFault(j, t)
        BY <2>1 DEF ReadFault, DurableOf, ReadsRaise, TypeOK, session, run
    <2>2. CASE ~ReadFault(j, t)
        <3>1. UNCHANGED <<unread, raised, cut>>
            BY <2>2 DEF Hit, Miss, Fetch, FetchNothing, Store, StoreFault, run
        <3> QED BY <1>2, <3>1 DEF DurableOf, ReadsRaise
    <2> QED BY <2>1, <2>2
<1>5. Busy(j)' <=> Busy(j)
    BY <1>2, <1>3 DEF Busy
<1>6. OneCommit(j)' /\ TracesKept(j)' /\ SignalsLast(j)' /\ VerdictKept(j)'
    BY <1>2, <1>3, <1>5 DEF DurableOf, OneCommit, TracesKept, SignalsLast, VerdictKept
<1> QED BY <1>4, <1>6 DEF DurableOf

\* Writing a trace keeps it, whether its commit is refused or not.
LEMMA TraceStep ==
    ASSUME TypeOK, NEW j \in Jobs, DurableOf(j), NEW t \in Types, Trace(j, t)
    PROVE  DurableOf(j)'
<1> USE DEF DurableOf, OneCommit, TracesKept, SignalsLast, VerdictKept, ReadsRaise, Busy
<1>1. t # "signals" /\ t # "failed"
    BY TypesAssumption
<1>2. UNCHANGED <<main, unread, raised, cut>>
    BY DEF Trace, run
<1>3. CASE BeginCommit(j, t) /\ Goto(j, t, "trace", "commit")
    <2>1. \A u \in Types : at'[j][u] = IF u = t THEN "commit" ELSE at[j][u]
        BY <1>3 DEF Goto, TypeOK
    <2>2. /\ flushing'[j] = added[j] \cup {t} /\ added'[j] = {}
          /\ UNCHANGED <<stored, refused>>
        BY <1>3 DEF BeginCommit, TypeOK
    <2>3. ~Busy(j) /\ flushing[j] = {} /\ at[j][t] = "trace"
        BY <1>3 DEF BeginCommit, Goto
    <2>4. OneCommit(j)' /\ TracesKept(j)'
        BY <1>2, <2>1, <2>2, <2>3
    <2>5. SignalsLast(j)'
        BY <1>1, <1>2, <2>1, <2>2, <2>3
    <2>6. VerdictKept(j)' /\ ReadsRaise(j)'
        BY <1>1, <1>2, <2>2, <2>3
    <2> QED BY <2>4, <2>5, <2>6
<1>4. CASE RefuseCommit(j, t) /\ Goto(j, t, "trace", "over")
    <2>1. \A u \in Types : at'[j][u] = IF u = t THEN "over" ELSE at[j][u]
        BY <1>4 DEF Goto, TypeOK
    <2>2. PICK back \in {{}, flushing[j]} :
             /\ added'[j] = added[j] \cup {t} \cup back
             /\ refused'[j] = refused[j] \cup (({t} \cup back) \ Types)
             /\ flushing'[j] = flushing[j] \ back
             /\ UNCHANGED stored
        BY <1>4 DEF RefuseCommit, TypeOK
    <2>3. at[j][t] = "trace" /\ Busy(j)
        BY <1>4 DEF Goto, RefuseCommit
    <2>4. OneCommit(j)'
        BY <1>2, <2>1, <2>2, <2>3
    <2>5. TracesKept(j)'
        BY <1>2, <2>1, <2>2
    <2>6. SignalsLast(j)'
        BY <1>1, <1>2, <2>1, <2>2, <2>3
    <2>7. VerdictKept(j)' /\ ReadsRaise(j)'
        BY <1>1, <1>2, <2>2, TypesAssumption
    <2> QED BY <2>4, <2>5, <2>6, <2>7
<1> QED BY <1>3, <1>4 DEF Trace

\* The end of a trace's commit makes durable what it had flushed.
LEMMA TracedStep ==
    ASSUME TypeOK, NEW j \in Jobs, DurableOf(j), NEW t \in Types, Traced(j, t)
    PROVE  DurableOf(j)'
<1>1. /\ at[j][t] = "commit"
      /\ \A u \in Types : at'[j][u] = IF u = t THEN "over" ELSE at[j][u]
    BY DEF Traced, Goto, TypeOK
<1>2. stored'[j] = stored[j] \cup flushing[j] /\ flushing'[j] = {}
    BY DEF Traced, EndCommit, TypeOK
<1>3. UNCHANGED <<main, unread, raised, cut, added, refused>>
    BY DEF Traced, EndCommit, run
<1> QED BY <1>1, <1>2, <1>3
        DEF DurableOf, OneCommit, TracesKept, SignalsLast, VerdictKept, ReadsRaise, Busy

\* The steps of the run keep it: it saves when no fetch is left, and what it
\* fails to commit is refused.
LEMMA RunStep ==
    ASSUME TypeOK, NEW j \in Jobs, DurableOf(j), Run(j)
    PROVE  DurableOf(j)'
<1> USE DEF DurableOf, OneCommit, TracesKept, SignalsLast, VerdictKept, ReadsRaise, Busy
<1>1. "signals" \notin Types /\ "failed" \notin Types
    BY TypesAssumption
<1>3. CASE Begin(j)
    <2>1. main[j] = "idle" /\ main'[j] = "gather"
        BY <1>3 DEF Begin, TypeOK
    <2>2. UNCHANGED <<at, unread, raised, cut, added, flushing, stored, refused>>
        BY <1>3 DEF Begin, session, run
    <2> QED BY <2>1, <2>2
<1>4. CASE Save(j)
    <2>1. main[j] = "gather" /\ main'[j] = "saving" /\ \A t \in Types : at[j][t] = "over"
        BY <1>4 DEF Save, TypeOK
    <2>2. /\ flushing'[j] = added[j] \cup {"signals"} /\ added'[j] = {}
          /\ UNCHANGED <<stored, refused>> /\ ~Busy(j)
        BY <1>4 DEF Save, BeginCommit, TypeOK
    <2>3. UNCHANGED <<at, unread, raised, cut>>
        BY <1>4 DEF Save, run
    <2> QED BY <1>1, <2>1, <2>2, <2>3
<1>5. CASE Fail(j) \/ FailTimedOut(j)
    <2>1. main[j] \in {"gather", "cancelled"} /\ (unread[j] # {} \/ cut[j] # {})
        BY <1>5 DEF Fail, FailTimedOut
    <2>2. UNCHANGED <<at, unread, raised, cut>>
        BY <1>5 DEF Fail, FailTimedOut, run
    <2>3. CASE BeginCommit(j, "failed") /\ main' = [main EXCEPT ![j] = "failing"]
        <3>1. main'[j] = "failing"
            BY <2>3 DEF TypeOK
        <3>2. /\ flushing'[j] = added[j] \cup {"failed"} /\ added'[j] = {}
              /\ UNCHANGED <<stored, refused>> /\ ~Busy(j)
            BY <2>3 DEF BeginCommit, TypeOK
        <3> QED BY <1>1, <2>1, <2>2, <3>1, <3>2
    <2>4. CASE RefuseCommit(j, "failed") /\ main' = [main EXCEPT ![j] = "leaving"]
        <3>1. main'[j] = "leaving"
            BY <2>4 DEF TypeOK
        <3>2. PICK back \in {{}, flushing[j]} :
                 /\ added'[j] = added[j] \cup {"failed"} \cup back
                 /\ refused'[j] = refused[j] \cup (({"failed"} \cup back) \ Types)
                 /\ flushing'[j] = flushing[j] \ back
                 /\ UNCHANGED stored
            BY <2>4 DEF RefuseCommit, TypeOK
        <3>3. Busy(j)' <=> (\E t \in Types : at[j][t] \in {"commit", "torn"})
            BY <2>2, <3>1
        <3>4. Busy(j)
            BY <2>4 DEF RefuseCommit
        <3>5. OneCommit(j)' /\ TracesKept(j)'
            BY <2>1, <2>2, <3>1, <3>2, <3>3, <3>4
        <3>6. SignalsLast(j)'
            BY <2>1, <2>2, <3>1, <3>2
        <3>7. VerdictKept(j)' /\ ReadsRaise(j)'
            BY <1>1, <2>1, <2>2, <3>1, <3>2
        <3> QED BY <3>5, <3>6, <3>7
    <2> QED BY <1>5, <2>3, <2>4 DEF Fail, FailTimedOut
<1>6. CASE Committed(j)
    <2>1. \/ main[j] = "saving" /\ main'[j] = "saved"
          \/ main[j] = "failing" /\ main'[j] = "leaving"
        BY <1>6 DEF Committed, TypeOK
    <2>2. /\ stored'[j] = stored[j] \cup flushing[j] /\ flushing'[j] = {}
          /\ UNCHANGED <<added, refused>>
        BY <1>6 DEF Committed, EndCommit, TypeOK
    <2>3. UNCHANGED <<at, unread, raised, cut>>
        BY <1>6 DEF Committed, run
    <2> QED BY <1>1, <2>1, <2>2, <2>3
<1>7. CASE Close(j)
    <2>1. main[j] = "leaving" /\ main'[j] = "closed"
        BY <1>7 DEF Close, TypeOK
    <2>2. /\ added'[j] = {} /\ flushing'[j] \in {flushing[j], {}}
          /\ UNCHANGED <<stored, refused>>
        BY <1>7 DEF Close, TypeOK
    <2>3. UNCHANGED <<at, unread, raised, cut>>
        BY <1>7 DEF Close, run
    <2> QED BY <1>1, <2>1, <2>2, <2>3
<1>8. CASE TimeOut(j)
    <2>1. main[j] = "gather" /\ main'[j] = "cancelled"
        BY <1>8 DEF TimeOut, TypeOK
    <2>2. cut'[j] # {} /\ UNCHANGED <<unread, raised, added, refused>>
        BY <1>8 DEF TimeOut, TypeOK
    <2>3. flushing'[j] = {} /\ stored'[j] \in {stored[j], stored[j] \cup flushing[j]}
        BY <1>8 DEF TimeOut, TypeOK
    <2>4. \A t \in Types : at'[j][t] # "commit"
        BY <1>8 DEF TimeOut, TypeOK
    <2> QED BY <1>1, <2>1, <2>2, <2>3, <2>4
<1> QED BY <1>3, <1>4, <1>5, <1>6, <1>7, <1>8 DEF Run

\* Expiry and stuttering leave the session alone.
LEMMA OtherStep ==
    ASSUME Durable, UNCHANGED vars \/ \E k \in Domains \X Types : Expire(k)
    PROVE  Durable'
<1> SUFFICES ASSUME NEW i \in Jobs PROVE DurableOf(i)'
    BY DEF Durable
<1> QED BY Untouched DEF vars, session, run, Expire, Durable

-----------------------------------------------------------------------------
(* The cache *)

\* What goes into the cache and what comes out of it is in its place.
LEMMA PlacedStep == TypeOK /\ Placed /\ [Next]_vars => Placed'
<1> SUFFICES ASSUME TypeOK, Placed, [Next]_vars PROVE Placed'
    OBVIOUS
<1> USE DEF Placed, RightPlace
<1>1. CASE UNCHANGED <<cache, got>>
    BY <1>1
<1>2. ASSUME NEW j \in Jobs, NEW t \in Types, Hit(j, t) PROVE Placed'
    <2>1. Domain[j] \in Domains
        BY DEF Domains
    <2>2. RightPlace(cache[<<Domain[j], t>>], t, Domain[j])
        BY <2>1
    <2> QED BY <1>2, <2>2 DEF Hit, Returns, TypeOK
<1>3. ASSUME NEW j \in Jobs, NEW t \in Types, Fetch(j, t) \/ StoreFault(j, t)
      PROVE  Placed'
    <2>1. PICK c \in {ContentFor(j, t), Nothing} : Returns(j, t, c) /\ UNCHANGED cache
        BY <1>3 DEF Fetch, StoreFault
    <2>2. RightPlace(c, t, Domain[j])
        BY DEF ContentFor
    <2>3. \A i \in Jobs, u \in Types :
             got'[i][u] = IF i = j /\ u = t THEN c ELSE got[i][u]
        BY <2>1 DEF Returns, TypeOK
    <2> QED BY <2>1, <2>2, <2>3
<1>4. ASSUME NEW j \in Jobs, NEW t \in Types, Store(j, t) PROVE Placed'
    <2>1. RightPlace(got[j][t], t, Domain[j])
        OBVIOUS
    <2>2. \A d \in Domains, u \in Types :
             cache'[<<d, u>>] =
                IF d = Domain[j] /\ u = t THEN got[j][t] ELSE cache[<<d, u>>]
        BY <1>4 DEF Store, TypeOK
    <2> QED BY <1>4, <2>1, <2>2 DEF Store
<1>5. ASSUME NEW k \in Domains \X Types, Expire(k) PROVE Placed'
    BY <1>5 DEF Expire, TypeOK
<1> QED BY <1>1, <1>2, <1>3, <1>4, <1>5
        DEF Next, FetchOrCache, Miss, ReadFault, FetchNothing, Trace, Traced, Begin, Save,
            Fail, TimeOut, FailTimedOut, Committed, Close, vars

-----------------------------------------------------------------------------
(* The invariant is inductive *)

\* At first nothing was fetched, written or cached.
LEMMA InitIInv == Init => IInv
<1> SUFFICES ASSUME Init PROVE IInv
    OBVIOUS
<1>1. TypeOK
    BY FaultsAssumption DEF Init, TypeOK
<1>2. Durable
    BY DEF Init, Durable, DurableOf, OneCommit, TracesKept, SignalsLast, VerdictKept,
           ReadsRaise, Busy
<1>3. Placed
    BY DEF Init, Placed, RightPlace
<1> QED BY <1>1, <1>2, <1>3 DEF IInv

\* Every step keeps it.
LEMMA NextIInv == IInv /\ [Next]_vars => IInv'
<1> SUFFICES ASSUME IInv, [Next]_vars PROVE IInv'
    OBVIOUS
<1>1. TypeOK' /\ Placed'
    BY TypeStep, PlacedStep DEF IInv
<1>2. Durable'
    <2>1. ASSUME NEW j \in Jobs, NEW t \in Types, FetchOrCache(j, t) PROVE Durable'
        <3>1. DurableOf(j)'
            BY <2>1, FetchStep, TraceStep, TracedStep DEF IInv, Durable, FetchOrCache
        <3> QED BY <2>1, <3>1, OneJobAtATime DEF IInv
    <2>2. ASSUME NEW j \in Jobs, Run(j) PROVE Durable'
        <3>1. DurableOf(j)'
            BY <2>2, RunStep DEF IInv, Durable
        <3> QED BY <2>2, <3>1, OneJobAtATime DEF IInv
    <2> QED BY <2>1, <2>2, OtherStep DEF IInv, Next, Run
<1> QED BY <1>1, <1>2 DEF IInv

\* Every reachable state satisfies the inductive invariant.
LEMMA Invariance == Spec => []IInv
BY InitIInv, NextIInv, PTL DEF Spec

-----------------------------------------------------------------------------
(* What it shows *)

\* Every variable of the model keeps its type.
THEOREM TypeCorrect == Spec => []TypeOK
<1>1. IInv => TypeOK
    BY DEF IInv
<1> QED BY <1>1, Invariance, PTL

\* Signals are of the type and the domain that the job asked for, whoever wrote
\* them to the cache.
THEOREM InPlace == Spec => []SignalsInPlace
<1>1. IInv => SignalsInPlace
    BY DEF IInv, Placed, RightPlace, SignalsInPlace
<1> QED BY <1>1, Invariance, PTL

\* When the signals are durable, the traces of all fetches are, those included
\* whose own commit was refused.
THEOREM Traces == Spec => []SavedJobsAreTraced
<1>1. IInv => SavedJobsAreTraced
    <2> SUFFICES ASSUME IInv, NEW j \in Jobs, Saved(j) PROVE Types \subseteq stored[j]
        BY DEF SavedJobsAreTraced
    <2> QED BY DEF IInv, Durable, DurableOf, SignalsLast, Saved
<1> QED BY <1>1, Invariance, PTL

\* Only a failed read of the cache or the overall timeout fails the stage.
THEOREM ReadsOnly == Spec => []OnlyReadsFailTheJob
<1>1. IInv => OnlyReadsFailTheJob
    BY DEF IInv, Durable, DurableOf, ReadsRaise, OnlyReadsFailTheJob
<1> QED BY <1>1, Invariance, PTL

\* A stage that failed or timed out leaves its verdict, unless the handler met
\* another commit on its session.
THEOREM Verdicts == Spec => []OnlyCollisionsLoseTheVerdict
<1>1. IInv => OnlyCollisionsLoseTheVerdict
    BY DEF IInv, Durable, DurableOf, VerdictKept, OnlyCollisionsLoseTheVerdict
<1> QED BY <1>1, Invariance, PTL
=============================================================================
