---------------------------- MODULE ResultBoard -----------------------------
(***************************************************************************)
(* What GET /v1/outreach/{job_id} promises of a job over time: for each    *)
(* job the board shows nothing yet, the result of exactly one run, or a    *)
(* failure.  A result is published by the run that made it, onto an empty  *)
(* board: it is never overwritten in place by that of a later run, and     *)
(* never mixed with it.                                                    *)
(***************************************************************************)
EXTENDS Integers

CONSTANTS
    Jobs,
    MaxTries  \* runs a job may get

VARIABLES
    attempt,  \* runs of each job that have begun
    board     \* what its readers see: the runs the result shown is made of

vars == <<attempt, board>>

Open == [kind |-> "open", from |-> {}]
Failure == [kind |-> "failed", from |-> {}]
Result(n) == [kind |-> "result", from |-> {n}]

Init ==
    /\ attempt = [j \in Jobs |-> 0]
    /\ board = [j \in Jobs |-> Open]

\* A run begins; what an earlier one published is still shown
Begin(j) ==
    /\ attempt[j] < MaxTries
    /\ attempt' = [attempt EXCEPT ![j] = @ + 1]
    /\ UNCHANGED board

\* It takes the board over
Withdraw(j) ==
    /\ attempt[j] > 0
    /\ board' = [board EXCEPT ![j] = Open]
    /\ UNCHANGED attempt

Publish(j) ==
    /\ attempt[j] > 0 /\ board[j] = Open
    /\ board' = [board EXCEPT ![j] = Result(attempt[j])]
    /\ UNCHANGED attempt

Fail(j) ==
    /\ attempt[j] > 0
    /\ board' = [board EXCEPT ![j] = Failure]
    /\ UNCHANGED attempt

Next == \E j \in Jobs : Begin(j) \/ Withdraw(j) \/ Publish(j) \/ Fail(j)

Spec == Init /\ [][Next]_vars
=============================================================================
