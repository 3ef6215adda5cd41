------------------------------- MODULE Worker -------------------------------
(***************************************************************************)
(* What a worker promises the service around it (app/worker/tasks.py,      *)
(* app/services/research.py): beyond what readers of a job see, which is   *)
(* ResultBoard, the order of the stages that others can observe.  A run    *)
(* takes the board over before it pays for anything, tells the subscriber  *)
(* of a job with a webhook, and of no other, once it has paid, and         *)
(* completes the job when the delivery is over.  A run may fail from any   *)
(* of these stages, end without a verdict, or be lost and begun again.     *)
(*                                                                         *)
(* Pipeline implements it in detail, and Outreach, where the clients are,  *)
(* has workers that keep to it.                                            *)
(***************************************************************************)
EXTENDS ResultBoard

CONSTANT WithWebhook  \* the jobs that have a webhook_url

VARIABLES
    phase,  \* where the run of each job stands
    told    \* the jobs whose subscriber has processed a payload

workerVars == <<attempt, board, phase, told>>

WorkerInit ==
    /\ Init
    /\ phase = [j \in Jobs |-> "idle"]
    /\ told = {}

Go(j, from, to) == phase[j] \in from /\ phase' = [phase EXCEPT ![j] = to]

BeginRun(j) == Go(j, {"idle"}, "begun") /\ Begin(j) /\ UNCHANGED told

TakeOver(j) == Go(j, {"begun"}, "running") /\ Withdraw(j) /\ UNCHANGED told

\* The LLM calls are made and charged
Pay(j) == Go(j, {"running"}, "paid") /\ UNCHANGED <<attempt, board, told>>

\* A delivery reaches the subscriber or not
Notify(j) ==
    /\ j \in WithWebhook
    /\ Go(j, {"paid"}, "notified")
    /\ told' \in {told, told \cup {j}}
    /\ UNCHANGED <<attempt, board>>

\* The job is completed; GET may have nothing to show for it
Complete(j) ==
    /\ Go(j, IF j \in WithWebhook THEN {"notified"} ELSE {"paid"}, "ended")
    /\ Publish(j) \/ UNCHANGED <<attempt, board>>
    /\ UNCHANGED told

\* An error or the overall timeout: on to the failure handlers
Stumble(j) ==
    /\ Go(j, {"running", "paid", "notified"}, "failing")
    /\ UNCHANGED <<attempt, board, told>>

FailRun(j) ==
    /\ Go(j, {"begun", "running", "paid", "notified", "failing"}, "ended")
    /\ Fail(j)
    /\ UNCHANGED told

\* ARQ records the end of the run, or gives up a job whose tries are used
EndRun(j) ==
    /\ \/ Go(j, {"ended"}, "finished")
       \/ attempt[j] = MaxTries /\ Go(j, {"idle"}, "finished")
    /\ UNCHANGED <<attempt, board, told>>

\* The run is lost with its worker, or ends without a verdict
Lose(j) ==
    /\ \E to \in {"idle", "finished"} :
          Go(j, {"begun", "running", "paid", "notified", "failing", "ended"}, to)
    /\ UNCHANGED <<attempt, board, told>>

WorkerStep(j) ==
    \/ BeginRun(j) \/ TakeOver(j) \/ Pay(j) \/ Notify(j) \/ Complete(j)
    \/ Stumble(j) \/ FailRun(j) \/ EndRun(j) \/ Lose(j)

\* Every step moves one job from stage to stage
WorkerNext == \E j \in Jobs : phase'[j] # phase[j] /\ WorkerStep(j)

WorkerSpec == WorkerInit /\ [][WorkerNext]_workerVars
=============================================================================
