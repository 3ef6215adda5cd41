------------------------------- MODULE Traces -------------------------------
(***************************************************************************)
(* Where the cost and the outcome of a stage are kept: Tracer.trace_stage  *)
(* (app/tracing/tracer.py) writes a line to the JSONL file, then a row to  *)
(* trace_logs; the pipeline (app/services/research.py) adds the cost to    *)
(* the job's row; the dashboard (dashboard/dashboard.py) adds up the file. *)
(*                                                                         *)
(* The stages are those that run one after the other; the fetches, which   *)
(* run concurrently, are in Signals.  A call of the LLM costs one unit,    *)
(* and calls that raise report no cost.                                    *)
(***************************************************************************)
EXTENDS Integers, FiniteSets

CONSTANTS
    Jobs,
    Stages,     \* traced stages of a run: 1 .. Stages
    Paid,       \* those that call the LLM
    Saved,      \* those after which the row takes the cost over
    MaxTries,   \* WorkerSettings.max_tries
    MaxKills,   \* bound: runs lost with their worker
    MaxFaults   \* bound: commits that fail, lines that cannot be written

ASSUME TracesAssumption ==
    /\ Stages \in Nat \ {0} /\ Paid \subseteq 1 .. Stages /\ Saved \subseteq 1 .. Stages
    /\ MaxTries \in Nat \ {0} /\ MaxKills \in Nat /\ MaxFaults \in Nat

VARIABLES
    at,      \* where each run stands
    stage,   \* the stage it is in, or enters next
    tries,   \* runs of each job
    ended,   \* how the body of the stage ended
    held,    \* cost reported by the LLM client, not yet added to the row
    row,     \* total_cost_usd; the last verdict, and the run it is by
    file,    \* lines of the JSONL file
    db,      \* rows of trace_logs
    missed,  \* ghost: lines that could not be written
    kills, faults

vars == <<at, stage, tries, ended, held, row, file, db, missed, kills, faults>>

Line(j, success, cost) ==
    [job |-> j, try |-> tries[j], stage |-> stage[j], success |-> success, cost |-> cost]

\* trace_stage's entry when its finally clause runs: success is TRUE from the
\* start, and cleared by an Exception - a cancellation is none
Entry(j, how) ==
    Line(j, how # "raised", IF how = "done" /\ stage[j] \in Paid THEN 1 ELSE 0)

Goto(j, from, to) == at[j] = from /\ at' = [at EXCEPT ![j] = to]

Init ==
    /\ at = [j \in Jobs |-> "queued"] /\ stage = [j \in Jobs |-> 1]
    /\ tries = [j \in Jobs |-> 0]
    /\ ended = [j \in Jobs |-> "done"] /\ held = [j \in Jobs |-> 0]
    /\ row = [j \in Jobs |-> [verdict |-> "none", by |-> 0, cost |-> 0]]
    /\ file = {} /\ db = {} /\ missed = {}
    /\ kills = 0 /\ faults = 0

-----------------------------------------------------------------------------
\* A run starts from the first stage
Start(j) ==
    /\ Goto(j, "queued", "inside")
    /\ tries[j] < MaxTries
    /\ tries' = [tries EXCEPT ![j] = @ + 1]
    /\ stage' = [stage EXCEPT ![j] = 1]
    /\ UNCHANGED <<ended, held, row, file, db, missed, kills, faults>>

\* Seeded fault: the file is written last
LeaveStageUnwritten(j, how) ==
    /\ Goto(j, "inside", "commit")
    /\ ended' = [ended EXCEPT ![j] = how]
    /\ held' = [held EXCEPT ![j] = @ + Entry(j, how).cost]
    /\ UNCHANGED <<stage, tries, row, file, db, missed, kills, faults>>

\* The body ends - done, raised, or cut by the overall timeout - and _write_jsonl
\* runs before anything else can; the line may be lost, which is only logged
LeaveStage(j, how) ==
    /\ Goto(j, "inside", "commit")
    /\ ended' = [ended EXCEPT ![j] = how]
    /\ held' = [held EXCEPT ![j] = @ + Entry(j, how).cost]
    /\ \/ file' = file \cup {Entry(j, how)} /\ UNCHANGED <<missed, faults>>
       \/ /\ faults < MaxFaults /\ faults' = faults + 1
          /\ missed' = missed \cup {Entry(j, how)} /\ UNCHANGED file
    /\ UNCHANGED <<stage, tries, row, db, kills>>

\* _write_db; then the run goes on, or to its failure handler
CommitTrace(j) ==
    /\ Goto(j, "commit", IF ended[j] = "done" THEN "between" ELSE "failing")
    /\ db' = db \cup {Entry(j, ended[j])}
    /\ UNCHANGED <<stage, tries, ended, held, row, file, missed, kills, faults>>

\* Seeded fault: _write_db rolls the session back, and the run goes on
CommitFailsRolledBack(j) ==
    /\ faults < MaxFaults /\ faults' = faults + 1
    /\ Goto(j, "commit", IF ended[j] = "done" THEN "between" ELSE "failing")
    /\ UNCHANGED <<stage, tries, ended, held, row, file, db, missed, kills>>

\* It fails, with or without effect: the error is swallowed, but the session is
\* of no use any more, and the next commit ends the run without a verdict
CommitFails(j) ==
    /\ faults < MaxFaults /\ faults' = faults + 1
    /\ Goto(j, "commit", "finished")
    /\ db' \in {db, db \cup {Entry(j, ended[j])}}
    /\ held' = [held EXCEPT ![j] = 0]
    /\ UNCHANGED <<stage, tries, ended, row, file, missed, kills>>

\* Seeded fault: one stage too many
ProceedPast(j) ==
    /\ at[j] = "between"
    /\ IF stage[j] <= Stages
       THEN Goto(j, "between", "inside") /\ stage' = [stage EXCEPT ![j] = @ + 1]
       ELSE Goto(j, "between", "completing") /\ UNCHANGED stage
    /\ UNCHANGED <<tries, ended, held, row, file, db, missed, kills, faults>>

\* What lies between two stages: costs are added to the row and committed, and
\* the next stage is entered
Proceed(j) ==
    /\ at[j] = "between"
    /\ IF stage[j] < Stages
       THEN Goto(j, "between", "inside") /\ stage' = [stage EXCEPT ![j] = @ + 1]
       ELSE Goto(j, "between", "completing") /\ UNCHANGED stage
    /\ IF stage[j] \in Saved
       THEN row' = [row EXCEPT ![j].cost = @ + held[j]] /\ held' = [held EXCEPT ![j] = 0]
       ELSE UNCHANGED <<row, held>>
    /\ UNCHANGED <<tries, ended, file, db, missed, kills, faults>>

\* The budget, Redis or the timeout stops the run outside of every stage: no trace
StopBetween(j) ==
    /\ Goto(j, "between", "failing")
    /\ UNCHANGED <<stage, tries, ended, held, row, file, db, missed, kills, faults>>

Conclude(j, from, verdict) ==
    /\ Goto(j, from, "settled")
    /\ row' = [row EXCEPT ![j].verdict = verdict, ![j].by = tries[j]]

\* The row is COMPLETED, or FAILED by one of the handlers
Settle(j) ==
    /\ Conclude(j, "completing", "COMPLETED") \/ Conclude(j, "failing", "FAILED")
    /\ held' = [held EXCEPT ![j] = 0]
    /\ UNCHANGED <<stage, tries, ended, file, db, missed, kills, faults>>

\* ARQ records the end
Finish(j) ==
    /\ Goto(j, "settled", "finished")
    /\ UNCHANGED <<stage, tries, ended, held, row, file, db, missed, kills, faults>>

\* The worker dies; ARQ runs the job again while tries are left
Kill(j) ==
    /\ kills < MaxKills /\ kills' = kills + 1
    /\ at[j] \in {"inside", "commit", "between", "completing", "failing", "settled"}
    /\ at' = [at EXCEPT ![j] = IF tries[j] < MaxTries THEN "queued" ELSE "finished"]
    /\ held' = [held EXCEPT ![j] = 0]
    /\ UNCHANGED <<stage, tries, ended, row, file, db, missed, faults>>

Next ==
    \E j \in Jobs :
        \/ Start(j) \/ \E how \in {"done", "raised", "cut"} : LeaveStage(j, how)
        \/ CommitTrace(j) \/ CommitFails(j) \/ Proceed(j) \/ StopBetween(j)
        \/ Settle(j) \/ Finish(j) \/ Kill(j)

Spec == Init /\ [][Next]_vars

-----------------------------------------------------------------------------
(* The dashboard, on the lines it loads *)

\* cost_by_job: the costs of a job's lines, added up
CostByJob(lines, j) == Cardinality({line \in lines : line.job = j /\ line.cost = 1})

-----------------------------------------------------------------------------
(* Properties *)

Lines == [job : Jobs, try : 1 .. MaxTries, stage : 1 .. Stages, success : BOOLEAN, cost : {0, 1}]

\* Every variable keeps its type.
TypeOK ==
    /\ at \in [Jobs -> {"queued", "inside", "commit", "between", "completing", "failing",
                        "settled", "finished"}]
    /\ stage \in [Jobs -> 1 .. Stages]
    /\ tries \in [Jobs -> 0 .. MaxTries]
    /\ ended \in [Jobs -> {"done", "raised", "cut"}]
    /\ held \in [Jobs -> Nat]
    /\ row \in [Jobs -> [verdict : {"none", "COMPLETED", "FAILED"}, by : 0 .. MaxTries,
                         cost : Nat]]
    /\ file \subseteq Lines /\ db \subseteq Lines /\ missed \subseteq Lines

\* An error that _write_db swallows leaves no gap: a job is COMPLETED only with a
\* row in trace_logs for every sequential stage of the run that completed it, each of
\* them a success, and no failed line of that run's sequential stages is in the file.
\* (The fetches run side by side, and one that fails does not fail the job.)
CompletedIsTraced ==
    \A j \in Jobs :
        row[j].verdict = "COMPLETED" =>
            /\ \A n \in 1 .. Stages :
                  \E t \in db : t.job = j /\ t.try = row[j].by /\ t.stage = n /\ t.success
            /\ \A line \in file : line.job = j /\ line.try = row[j].by => line.success

\* The file is ahead of both tables, through kills and reruns: every row of
\* trace_logs has its line, and the dashboard shows at least the cost that GET
\* shows of a job, unless lines could not be written.
FileIsAhead ==
    /\ db \subseteq file \cup missed
    /\ missed = {} => \A j \in Jobs : row[j].cost <= CostByJob(file, j)
=============================================================================
