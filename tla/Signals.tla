------------------------------ MODULE Signals -------------------------------
(***************************************************************************)
(* The fetch stage of the pipeline: ResearchPipeline._fetch_with_cache     *)
(* (app/services/research.py), the signal cache (app/services/cache.py),   *)
(* WebFetcher (app/services/fetcher.py) and the trace that each fetch      *)
(* writes (app/tracing/tracer.py).                                         *)
(*                                                                         *)
(* The fetches of a job run concurrently and share its AsyncSession, which *)
(* is a unit of work: what was added or assigned since the last flush goes *)
(* into the next commit that begins.  A commit that begins while another   *)
(* one is in flight raises, and leaves its work to a later one; so does    *)
(* the other one when it is still flushing.  Closing the session discards  *)
(* what is left.  The overall timeout is here as far as it ends gather;    *)
(* elsewhere it is Pipeline's, and so are the errors of Postgres.          *)
(***************************************************************************)
EXTENDS Integers

CONSTANTS
    Jobs,
    Types,      \* the signals that a job fetches
    Domain,     \* Job.domain
    Person,     \* Job.person_name
    Nothing,    \* None
    MaxFaults,  \* bound: calls of Redis that fail
    Slow        \* bound: jobs that the overall timeout may reach

ASSUME TypesAssumption == Types \subseteq {"homepage", "news", "profile"}
ASSUME FaultsAssumption == MaxFaults \in Nat

VARIABLES
    cache,     \* Redis: domain and type to content
    main,      \* where the run of each job stands
    at,        \* where each of its fetches stands
    got,       \* what the fetch is going to return
    unread,    \* ghost: fetches whose read of the cache failed
    raised,    \* fetches that end in an exception
    cut,       \* fetches that the overall timeout cancelled
    added,     \* session: work that waits for a flush
    flushing,  \* session: work of the commit in flight
    stored,    \* what is durable in Postgres
    refused,   \* ghost: commits of the run itself that met another one
    faults

session == <<added, flushing, stored, refused>>
run == <<unread, raised, cut>>
vars == <<cache, main, at, got, run, session, faults>>

Domains == {Domain[j] : j \in Jobs}
Writes == Types \cup {"signals", "failed"}

\* A page belongs to a domain, a profile to a person of it
Contents ==
    {[type |-> t, domain |-> d, person |-> Nothing] : t \in Types \ {"profile"}, d \in Domains}
    \cup {[type |-> "profile", domain |-> Domain[j], person |-> Person[j]] : j \in Jobs}
\* Seeded fault: pages, too, are asked for by the name of the person
ContentForPerson(j, t) ==
    [type |-> t, domain |-> Domain[j], person |-> Person[j]]
ContentFor(j, t) ==
    [type |-> t, domain |-> Domain[j],
     person |-> IF t = "profile" THEN Person[j] ELSE Nothing]

Goto(j, t, from, to) == at[j][t] = from /\ at' = [at EXCEPT ![j][t] = to]
Returns(j, t, content) == got' = [got EXCEPT ![j][t] = content]

-----------------------------------------------------------------------------
\* Redis holds what earlier jobs for the same people left in it.
Init ==
    /\ cache \in [Domains \X Types -> Contents \cup {Nothing}]
    /\ \A d \in Domains, t \in Types :
          cache[<<d, t>>] # Nothing =>
              cache[<<d, t>>].domain = d /\ cache[<<d, t>>].type = t
    /\ main = [j \in Jobs |-> "idle"]
    /\ at = [j \in Jobs |-> [t \in Types |-> "lookup"]]
    /\ got = [j \in Jobs |-> [t \in Types |-> Nothing]]
    /\ unread = [j \in Jobs |-> {}] /\ raised = [j \in Jobs |-> {}]
    /\ cut = [j \in Jobs |-> {}]
    /\ added = [j \in Jobs |-> {}]
    /\ flushing = [j \in Jobs |-> {}]
    /\ stored = [j \in Jobs |-> {}]
    /\ refused = [j \in Jobs |-> {}]
    /\ faults = 0

-----------------------------------------------------------------------------
(* The session *)

\* A commit is in flight, or was cut: then the session is of no more use
Busy(j) ==
    main[j] \in {"saving", "failing"} \/ \E t \in Types : at[j][t] \in {"commit", "torn"}

\* A commit of what was added, w included
BeginCommit(j, w) ==
    /\ ~Busy(j)
    /\ flushing' = [flushing EXCEPT ![j] = added[j] \cup {w}]
    /\ added' = [added EXCEPT ![j] = {}]
    /\ UNCHANGED <<stored, refused>>

\* Seeded fault: the tracer takes its entry back when the commit raises
RefuseCommitDropping(j, w) ==
    /\ Busy(j)
    /\ refused' = [refused EXCEPT ![j] = @ \cup ({w} \ Types)]
    /\ UNCHANGED <<added, flushing, stored>>

\* The commit in flight ends as if alone, or, met in the flush, raises too: what it
\* had flushed stays in the transaction, which a later commit may end
RefuseCommit(j, w) ==
    /\ Busy(j)
    /\ \E back \in {{}, flushing[j]} :
          /\ added' = [added EXCEPT ![j] = @ \cup {w} \cup back]
          /\ refused' = [refused EXCEPT ![j] = @ \cup (({w} \cup back) \ Types)]
          /\ flushing' = [flushing EXCEPT ![j] = @ \ back]
    /\ UNCHANGED stored

EndCommit(j) ==
    /\ stored' = [stored EXCEPT ![j] = @ \cup flushing[j]]
    /\ flushing' = [flushing EXCEPT ![j] = {}]
    /\ UNCHANGED <<added, refused>>

-----------------------------------------------------------------------------
(* fetch_or_cache *)

\* Seeded fault: the key of the cache is the type alone
HitAnyDomain(j, t) ==
    /\ \E d \in Domains : cache[<<d, t>>] # Nothing /\ Returns(j, t, cache[<<d, t>>])
    /\ Goto(j, t, "lookup", "trace")
    /\ UNCHANGED <<cache, main, run, session, faults>>

Hit(j, t) ==
    /\ cache[<<Domain[j], t>>] # Nothing
    /\ Goto(j, t, "lookup", "trace")
    /\ Returns(j, t, cache[<<Domain[j], t>>])
    /\ UNCHANGED <<cache, main, run, session, faults>>

Miss(j, t) ==
    /\ cache[<<Domain[j], t>>] = Nothing
    /\ Goto(j, t, "lookup", "fetch")
    /\ UNCHANGED <<cache, main, got, run, session, faults>>

\* The read is outside the try: its error passes through the trace
ReadFault(j, t) ==
    /\ faults < MaxFaults /\ faults' = faults + 1
    /\ Goto(j, t, "lookup", "trace")
    /\ unread' = [unread EXCEPT ![j] = @ \cup {t}]
    /\ raised' = [raised EXCEPT ![j] = @ \cup {t}]
    /\ UNCHANGED <<cache, main, got, cut, session>>

Fetch(j, t) ==
    /\ Goto(j, t, "fetch", "store")
    /\ Returns(j, t, ContentFor(j, t))
    /\ UNCHANGED <<cache, main, run, session, faults>>

\* The site is down or slow, or has nothing; the profile is made up on the spot
FetchNothing(j, t) ==
    /\ t # "profile"
    /\ Goto(j, t, "fetch", "trace")
    /\ UNCHANGED <<cache, main, got, run, session, faults>>

Store(j, t) ==
    /\ Goto(j, t, "store", "trace")
    /\ cache' = [cache EXCEPT ![<<Domain[j], t>>] = got[j][t]]
    /\ UNCHANGED <<main, got, run, session, faults>>

\* Seeded fault: the write, too, is outside the try
StoreFaultRaises(j, t) ==
    /\ faults < MaxFaults /\ faults' = faults + 1
    /\ Goto(j, t, "store", "trace")
    /\ raised' = [raised EXCEPT ![j] = @ \cup {t}]
    /\ UNCHANGED <<cache, main, got, unread, cut, session>>

\* The write is inside the try, whose handler returns None: what was fetched is
\* dropped
StoreFault(j, t) ==
    /\ faults < MaxFaults /\ faults' = faults + 1
    /\ Goto(j, t, "store", "trace")
    /\ Returns(j, t, Nothing)
    /\ UNCHANGED <<cache, main, run, session>>

\* trace_stage on the way out; _write_db swallows the error of its commit
Trace(j, t) ==
    /\ \/ BeginCommit(j, t) /\ Goto(j, t, "trace", "commit")
       \/ RefuseCommit(j, t) /\ Goto(j, t, "trace", "over")
    /\ UNCHANGED <<cache, main, got, run, faults>>

Traced(j, t) ==
    /\ Goto(j, t, "commit", "over")
    /\ EndCommit(j)
    /\ UNCHANGED <<cache, main, got, run, faults>>

-----------------------------------------------------------------------------
(* _fetch_with_cache and the handlers of _run_pipeline *)

Begin(j) ==
    /\ main[j] = "idle"
    /\ main' = [main EXCEPT ![j] = "gather"]
    /\ UNCHANGED <<cache, at, got, run, session, faults>>

\* gather returns when all have returned; the signals are assigned and committed
Save(j) ==
    /\ main[j] = "gather" /\ raised[j] = {}
    /\ \A t \in Types : at[j][t] = "over"
    /\ main' = [main EXCEPT ![j] = "saving"]
    /\ BeginCommit(j, "signals")
    /\ UNCHANGED <<cache, at, got, run, faults>>

\* Seeded fault: the handler returns without its commit
FailForgetful(j) ==
    /\ main[j] = "gather"
    /\ \E t \in raised[j] : at[j][t] = "over"
    /\ main' = [main EXCEPT ![j] = "leaving"]
    /\ added' = [added EXCEPT ![j] = @ \cup {"failed"}]
    /\ UNCHANGED <<cache, at, got, run, flushing, stored, refused, faults>>

\* The first exception ends gather, which leaves the other fetches running, and
\* reaches the handler that marks the job FAILED
Fail(j) ==
    /\ main[j] = "gather"
    /\ \E t \in raised[j] : at[j][t] = "over"
    /\ \/ BeginCommit(j, "failed") /\ main' = [main EXCEPT ![j] = "failing"]
       \/ RefuseCommit(j, "failed") /\ main' = [main EXCEPT ![j] = "leaving"]
    /\ UNCHANGED <<cache, at, got, run, faults>>

\* The overall timeout cancels gather, which cancels the fetches that are not over.
\* Each still writes its trace, but for one whose commit it cuts: that reaches
\* Postgres or not
TimeOut(j) ==
    /\ j \in Slow
    /\ main[j] = "gather" /\ \E t \in Types : at[j][t] # "over"
    /\ main' = [main EXCEPT ![j] = "cancelled"]
    /\ cut' = [cut EXCEPT ![j] = {t \in Types : at[j][t] # "over"}]
    /\ at' = [at EXCEPT ![j] = [t \in Types |->
                  CASE at[j][t] = "over" -> "over"
                    [] at[j][t] = "commit" -> "torn"
                    [] OTHER -> "trace"]]
    /\ flushing' = [flushing EXCEPT ![j] = {}]
    /\ stored' \in {stored, [stored EXCEPT ![j] = @ \cup flushing[j]]}
    /\ UNCHANGED <<cache, got, unread, raised, added, refused, faults>>

\* The first of them to end ends gather, too, and run selects the job and marks it
\* FAILED, while the others may be writing their traces
FailTimedOut(j) ==
    /\ main[j] = "cancelled"
    /\ \E t \in cut[j] : at[j][t] \in {"over", "torn"}
    /\ \/ BeginCommit(j, "failed") /\ main' = [main EXCEPT ![j] = "failing"]
       \/ RefuseCommit(j, "failed") /\ main' = [main EXCEPT ![j] = "leaving"]
    /\ UNCHANGED <<cache, at, got, run, faults>>

Committed(j) ==
    /\ \/ main[j] = "saving" /\ main' = [main EXCEPT ![j] = "saved"]
       \/ main[j] = "failing" /\ main' = [main EXCEPT ![j] = "leaving"]
    /\ EndCommit(j)
    /\ UNCHANGED <<cache, at, got, run, faults>>

\* The task leaves the context of its session; what a commit in flight had
\* flushed may be rolled back
Close(j) ==
    /\ main[j] = "leaving"
    /\ main' = [main EXCEPT ![j] = "closed"]
    /\ added' = [added EXCEPT ![j] = {}]
    /\ \/ UNCHANGED flushing
       \/ Busy(j) /\ flushing' = [flushing EXCEPT ![j] = {}]
    /\ UNCHANGED <<cache, at, got, run, stored, refused, faults>>

\* The TTL of an entry runs out
Expire(k) ==
    /\ cache[k] # Nothing
    /\ cache' = [cache EXCEPT ![k] = Nothing]
    /\ UNCHANGED <<main, at, got, run, session, faults>>

-----------------------------------------------------------------------------
FetchOrCache(j, t) ==
    /\ main[j] # "idle"
    /\ \/ Hit(j, t) \/ Miss(j, t) \/ ReadFault(j, t)
       \/ Fetch(j, t) \/ FetchNothing(j, t)
       \/ Store(j, t) \/ StoreFault(j, t)
       \/ Trace(j, t) \/ Traced(j, t)

Next ==
    \/ \E j \in Jobs, t \in Types : FetchOrCache(j, t)
    \/ \E j \in Jobs : Begin(j) \/ Save(j) \/ Fail(j) \/ TimeOut(j) \/ FailTimedOut(j)
                        \/ Committed(j) \/ Close(j)
    \/ \E k \in Domains \X Types : Expire(k)

Spec == Init /\ [][Next]_vars

-----------------------------------------------------------------------------
(* Properties *)

\* Every variable keeps its type.
TypeOK ==
    /\ cache \in [Domains \X Types -> Contents \cup {Nothing}]
    /\ main \in [Jobs -> {"idle", "gather", "saving", "saved", "failing", "leaving",
                          "closed", "cancelled"}]
    /\ at \in [Jobs -> [Types -> {"lookup", "fetch", "store", "trace", "commit", "over",
                                 "torn"}]]
    /\ got \in [Jobs -> [Types -> Contents \cup {Nothing}]]
    /\ unread \in [Jobs -> SUBSET Types] /\ raised \in [Jobs -> SUBSET Types]
    /\ cut \in [Jobs -> SUBSET Types]
    /\ added \in [Jobs -> SUBSET Writes] /\ flushing \in [Jobs -> SUBSET Writes]
    /\ stored \in [Jobs -> SUBSET Writes] /\ refused \in [Jobs -> SUBSET Writes]
    /\ faults \in 0 .. MaxFaults

Saved(j) == "signals" \in stored[j]

\* The pipeline goes on with signals of the right type and of the job's own
\* domain, whichever job fetched them.
SignalsInPlace ==
    \A j \in Jobs, t \in Types :
        Saved(j) /\ got[j][t] # Nothing =>
            got[j][t].type = t /\ got[j][t].domain = Domain[j]

\* A trace whose commit met a sibling's is not lost: once the signals are
\* committed, the traces of all fetches are.
SavedJobsAreTraced == \A j \in Jobs : Saved(j) => Types \subseteq stored[j]

\* Sites that are down and a cache that cannot be written cost a signal, never
\* the job: only the read of the cache and the overall timeout can fail the stage.
OnlyReadsFailTheJob ==
    \A j \in Jobs :
        main[j] \in {"failing", "leaving", "closed"} => unread[j] # {} \/ cut[j] # {}

\* The stage leaves the row with signals or with a verdict, unless the handler that
\* gives it (the one of a failed read, or that of the overall timeout, which reads
\* the job first) met a commit of a fetch that gather left running, or was given a
\* session whose commit the timeout had cut.
OnlyCollisionsLoseTheVerdict ==
    \A j \in Jobs :
        main[j] = "closed" => "failed" \in stored[j] \cup refused[j]

\* fetch_profile, "Fetch public profile info for a person": the message of a
\* job is composed from the profile of its own person.
ProfileIsOfThePerson ==
    \A j \in Jobs :
        Saved(j) /\ "profile" \in Types /\ got[j]["profile"] # Nothing =>
            got[j]["profile"].person = Person[j]
=============================================================================
