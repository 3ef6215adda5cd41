-------------------------- MODULE Pipeline_proofs ---------------------------
(***************************************************************************)
(* What the worker guarantees for any number of jobs, keys, slots, tries,  *)
(* crashes, faults and retries.                                            *)
(***************************************************************************)
EXTENDS Pipeline, SumTheorems, TLAPS

-----------------------------------------------------------------------------
(* The inductive invariant: types, and what the stage of a job says of it *)

HookSaved == {"compose", "compose_message", "charge_key2", "charge_all2", "save_message"}
MessageSaved == {"deliver", "post", "delivered", "undelivered", "complete", "completed"}
\* The run has taken the row over and has not given its verdict
Underway == {"fetch", "signals", "reason", "budget", "pick_hook", "charge_key",
             "charge_all", "save_hook"}
            \cup HookSaved \cup (MessageSaved \ {"completed"})
\* No POST of the run was answered below 400
Unanswered == {"load", "validate", "fetch", "signals", "reason", "budget", "pick_hook",
               "charge_key", "charge_all", "save_hook", "deliver", "post", "undelivered"}
              \cup HookSaved

StageFits(j) ==
    /\ arq[j] = "running" <=> pc[j] # "idle"
    /\ pc[j] # "idle" => tries[j] > 0
    /\ received[j] \subseteq 1 .. tries[j] /\ answered[j] \subseteq 1 .. tries[j]
    /\ pc[j] = "delivered" => tries[j] \in answered[j]
    /\ pc[j] \in Unanswered => tries[j] \notin answered[j]
    /\ pc[j] \in {"post", "delivered", "undelivered"} => j \in WithWebhook

RowFits(j) ==
    /\ pc[j] \in HookSaved \cup MessageSaved => row[j].hook = tries[j]
    /\ pc[j] \in MessageSaved => row[j].message = tries[j]
    /\ pc[j] \in Underway => row[j].status \notin {"COMPLETED", "FAILED"}
    /\ row[j].status = "COMPLETED" => row[j].hook > 0 /\ row[j].hook = row[j].message
    /\ \A t \in received[j] : row[j].hook >= t /\ row[j].message >= t
    /\ j \in WithWebhook =>
          /\ pc[j] \in {"complete", "completed"} =>
                (row[j].delivered <=> tries[j] \in answered[j])
          /\ row[j].status = "COMPLETED" =>
                (row[j].delivered <=> row[j].message \in answered[j])
          /\ pc[j] \in MessageSaved \ {"deliver"} => row[j].shows # "error"
          /\ row[j].status = "COMPLETED" => row[j].shows # "error"

IInv == TypeOK /\ \A j \in Jobs : StageFits(j) /\ RowFits(j)

-----------------------------------------------------------------------------
(* The invariant is inductive *)

\* All jobs queued, their rows new, nothing spent.
LEMMA InitIInv == Init => IInv
BY LimitsAssumption, KeysAssumption
DEF Init, NewRow, IInv, TypeOK, StageFits, RowFits, HookSaved, MessageSaved,
    Underway, Unanswered, Stages, Statuses, Renderings

Fits(j) == StageFits(j) /\ RowFits(j)

\* What the invariant says of a job is about that job alone: a step of another
\* job keeps it.
LEMMA Frame ==
    ASSUME IInv, TypeOK', NEW j \in Jobs, Fits(j)',
           \A i \in Jobs \ {j} :
               /\ arq'[i] = arq[i] /\ tries'[i] = tries[i] /\ pc'[i] = pc[i]
               /\ row'[i] = row[i] /\ received'[i] = received[i]
               /\ answered'[i] = answered[i]
    PROVE  IInv'
<1> SUFFICES ASSUME NEW i \in Jobs PROVE Fits(i)'
    BY DEF IInv, Fits
<1>1. CASE i = j
    BY <1>1
<1>2. CASE i # j
    <2>1. Fits(i)
        BY DEF IInv, Fits
    <2> QED BY <1>2, <2>1 DEF Fits, StageFits, RowFits
<1> QED BY <1>1, <1>2

\* A commit of the status alone keeps the types.
LEMMA SetStatusTypes ==
    ASSUME TypeOK, NEW j \in Jobs, NEW from, NEW status \in Statuses, NEW to \in Stages,
           SetStatus(j, from, status, to)
    PROVE  TypeOK'
<1>1. [row[j] EXCEPT !.status = status]
      \in [status : Statuses, hook : 0 .. MaxTries, shows : Renderings,
           message : 0 .. MaxTries, delivered : BOOLEAN]
    BY DEF TypeOK
<1>2. row' = [row EXCEPT ![j] = [row[j] EXCEPT !.status = status]]
    BY DEF SetStatus, TypeOK
<1> QED BY <1>1, <1>2 DEF TypeOK, SetStatus, Goto, arqVars, subscriber, budget

\* Every step of ARQ, of the pipeline, and every timeout, fault and crash
\* preserves the invariant.
LEMMA NextIInv == IInv /\ [Next]_vars => IInv'
<1> SUFFICES ASSUME IInv, [Next]_vars PROVE IInv'
    OBVIOUS
<1> USE KeysAssumption, LimitsAssumption
    DEF IInv, TypeOK, Goto, arqVars, runVars, subscriber, budget
<1>1. ASSUME NEW j \in Jobs, Start(j) PROVE IInv'
    <2>1. TypeOK'
        BY <1>1 DEF Start, Stages, Statuses
    <2>2. Fits(j)'
        BY <1>1 DEF Start, Fits, StageFits, RowFits, HookSaved, MessageSaved, Underway,
               Unanswered, Stages, Statuses
    <2>3. \A i \in Jobs \ {j} :
              /\ arq'[i] = arq[i] /\ tries'[i] = tries[i] /\ pc'[i] = pc[i]
              /\ row'[i] = row[i] /\ received'[i] = received[i]
              /\ answered'[i] = answered[i]
        BY <1>1 DEF Start
    <2> QED BY <2>1, <2>2, <2>3, Frame
<1>2. ASSUME NEW j \in Jobs, GiveUp(j) PROVE IInv'
    <2>1. TypeOK'
        BY <1>2 DEF GiveUp, Stages, Statuses
    <2>2. Fits(j)'
        BY <1>2 DEF GiveUp, Fits, StageFits, RowFits, HookSaved, MessageSaved, Underway,
               Unanswered, Stages, Statuses
    <2>3. \A i \in Jobs \ {j} :
              /\ arq'[i] = arq[i] /\ tries'[i] = tries[i] /\ pc'[i] = pc[i]
              /\ row'[i] = row[i] /\ received'[i] = received[i]
              /\ answered'[i] = answered[i]
        BY <1>2 DEF GiveUp
    <2> QED BY <2>1, <2>2, <2>3, Frame
<1>3. ASSUME NEW j \in Jobs, Load(j) PROVE IInv'
    <2>1. TypeOK'
        BY <1>3 DEF Load, Stages, Statuses
    <2>2. Fits(j)'
        BY <1>3 DEF Load, Fits, StageFits, RowFits, HookSaved, MessageSaved, Underway,
               Unanswered, Stages, Statuses
    <2>3. \A i \in Jobs \ {j} :
              /\ arq'[i] = arq[i] /\ tries'[i] = tries[i] /\ pc'[i] = pc[i]
              /\ row'[i] = row[i] /\ received'[i] = received[i]
              /\ answered'[i] = answered[i]
        BY <1>3 DEF Load
    <2> QED BY <2>1, <2>2, <2>3, Frame
<1>4. ASSUME NEW j \in Jobs, Validate(j) PROVE IInv'
    <2>1. TypeOK'
        BY <1>4, SetStatusTypes DEF Validate, Stages, Statuses
    <2>2. Fits(j)'
        BY <1>4 DEF Validate, SetStatus, Fits, StageFits, RowFits, HookSaved, MessageSaved,
                    Underway,
               Unanswered, Stages, Statuses
    <2>3. \A i \in Jobs \ {j} :
              /\ arq'[i] = arq[i] /\ tries'[i] = tries[i] /\ pc'[i] = pc[i]
              /\ row'[i] = row[i] /\ received'[i] = received[i]
              /\ answered'[i] = answered[i]
        BY <1>4 DEF Validate, SetStatus
    <2> QED BY <2>1, <2>2, <2>3, Frame
<1>5. ASSUME NEW j \in Jobs, EnterFetching(j) PROVE IInv'
    <2>1. TypeOK'
        BY <1>5, SetStatusTypes DEF EnterFetching, Stages, Statuses
    <2>2. Fits(j)'
        BY <1>5 DEF EnterFetching, SetStatus, Fits, StageFits, RowFits, HookSaved, MessageSaved,
                    Underway,
               Unanswered, Stages, Statuses
    <2>3. \A i \in Jobs \ {j} :
              /\ arq'[i] = arq[i] /\ tries'[i] = tries[i] /\ pc'[i] = pc[i]
              /\ row'[i] = row[i] /\ received'[i] = received[i]
              /\ answered'[i] = answered[i]
        BY <1>5 DEF EnterFetching, SetStatus
    <2> QED BY <2>1, <2>2, <2>3, Frame
<1>6. ASSUME NEW j \in Jobs, FetchSignals(j) PROVE IInv'
    <2>1. TypeOK'
        BY <1>6 DEF FetchSignals, Stages, Statuses
    <2>2. Fits(j)'
        BY <1>6 DEF FetchSignals, Fits, StageFits, RowFits, HookSaved, MessageSaved, Underway,
               Unanswered, Stages, Statuses
    <2>3. \A i \in Jobs \ {j} :
              /\ arq'[i] = arq[i] /\ tries'[i] = tries[i] /\ pc'[i] = pc[i]
              /\ row'[i] = row[i] /\ received'[i] = received[i]
              /\ answered'[i] = answered[i]
        BY <1>6 DEF FetchSignals
    <2> QED BY <2>1, <2>2, <2>3, Frame
<1>7. ASSUME NEW j \in Jobs, EnterReasoning(j) PROVE IInv'
    <2>1. TypeOK'
        BY <1>7, SetStatusTypes DEF EnterReasoning, Stages, Statuses
    <2>2. Fits(j)'
        BY <1>7 DEF EnterReasoning, SetStatus, Fits, StageFits, RowFits, HookSaved, MessageSaved,
                    Underway,
               Unanswered, Stages, Statuses
    <2>3. \A i \in Jobs \ {j} :
              /\ arq'[i] = arq[i] /\ tries'[i] = tries[i] /\ pc'[i] = pc[i]
              /\ row'[i] = row[i] /\ received'[i] = received[i]
              /\ answered'[i] = answered[i]
        BY <1>7 DEF EnterReasoning, SetStatus
    <2> QED BY <2>1, <2>2, <2>3, Frame
<1>8. ASSUME NEW j \in Jobs, CheckBudget(j) PROVE IInv'
    <2>1. TypeOK'
        BY <1>8 DEF CheckBudget, Stages, Statuses
    <2>2. Fits(j)'
        BY <1>8 DEF CheckBudget, Fits, StageFits, RowFits, HookSaved, MessageSaved, Underway,
               Unanswered, Stages, Statuses
    <2>3. \A i \in Jobs \ {j} :
              /\ arq'[i] = arq[i] /\ tries'[i] = tries[i] /\ pc'[i] = pc[i]
              /\ row'[i] = row[i] /\ received'[i] = received[i]
              /\ answered'[i] = answered[i]
        BY <1>8 DEF CheckBudget
    <2> QED BY <2>1, <2>2, <2>3, Frame
<1>9. ASSUME NEW j \in Jobs, PickHook(j) PROVE IInv'
    <2>1. TypeOK'
        <3>1. call' \in [Jobs -> 0 .. MaxCost]
            BY <1>9 DEF PickHook, CallLLM
        <3>2. pc' \in [Jobs -> Stages]
            BY <1>9 DEF PickHook, CallLLM, Stages
        <3> QED BY <1>9, <3>1, <3>2 DEF PickHook, CallLLM
    <2>2. Fits(j)'
        BY <1>9 DEF PickHook, CallLLM, Fits, StageFits, RowFits, HookSaved, MessageSaved, Underway,
               Unanswered, Stages, Statuses
    <2>3. \A i \in Jobs \ {j} :
              /\ arq'[i] = arq[i] /\ tries'[i] = tries[i] /\ pc'[i] = pc[i]
              /\ row'[i] = row[i] /\ received'[i] = received[i]
              /\ answered'[i] = answered[i]
        BY <1>9 DEF PickHook, CallLLM
    <2> QED BY <2>1, <2>2, <2>3, Frame
<1>10. ASSUME NEW j \in Jobs, ChargeKey(j, "charge_key", "charge_all") PROVE IInv'
    <2>1. TypeOK'
        <3>1. PICK n \in Counted(call[j]) :
                  keySpend' = [keySpend EXCEPT ![KeyOf[j]] = @ + n]
            BY <1>10 DEF ChargeKey
        <3>2. keySpend' \in [Keys -> Nat]
            BY <3>1 DEF Counted
        <3>3. pc' \in [Jobs -> Stages] /\ call' \in [Jobs -> 0 .. MaxCost]
            BY <1>10 DEF ChargeKey, Stages
        <3> QED BY <1>10, <3>2, <3>3 DEF ChargeKey
    <2>2. Fits(j)'
        BY <1>10 DEF ChargeKey, Fits, StageFits, RowFits, HookSaved, MessageSaved, Underway,
               Unanswered, Stages, Statuses
    <2>3. \A i \in Jobs \ {j} :
              /\ arq'[i] = arq[i] /\ tries'[i] = tries[i] /\ pc'[i] = pc[i]
              /\ row'[i] = row[i] /\ received'[i] = received[i]
              /\ answered'[i] = answered[i]
        BY <1>10 DEF ChargeKey
    <2> QED BY <2>1, <2>2, <2>3, Frame
<1>11. ASSUME NEW j \in Jobs, ChargeAll(j, "charge_all", "save_hook") PROVE IInv'
    <2>1. TypeOK'
        BY <1>11 DEF ChargeAll, Stages, Statuses
    <2>2. Fits(j)'
        BY <1>11 DEF ChargeAll, Fits, StageFits, RowFits, HookSaved, MessageSaved, Underway,
               Unanswered, Stages, Statuses
    <2>3. \A i \in Jobs \ {j} :
              /\ arq'[i] = arq[i] /\ tries'[i] = tries[i] /\ pc'[i] = pc[i]
              /\ row'[i] = row[i] /\ received'[i] = received[i]
              /\ answered'[i] = answered[i]
        BY <1>11 DEF ChargeAll
    <2> QED BY <2>1, <2>2, <2>3, Frame
<1>12. ASSUME NEW j \in Jobs, SaveHook(j) PROVE IInv'
    <2>1. TypeOK'
        <3> DEFINE Rows == [status : Statuses, hook : 0 .. MaxTries, shows : Renderings,
                            message : 0 .. MaxTries, delivered : BOOLEAN]
        <3>1. PICK shows \in Renderings :
                  row' = [row EXCEPT ![j].hook = tries[j], ![j].shows = shows]
            BY <1>12 DEF SaveHook
        <3>2. [row[j] EXCEPT !.hook = tries[j], !.shows = shows] \in Rows
            OBVIOUS
        <3>3. row' \in [Jobs -> Rows]
            BY <3>1, <3>2
        <3> QED BY <1>12, <3>3 DEF SaveHook, Stages
    <2>2. Fits(j)'
        BY <1>12 DEF SaveHook, Fits, StageFits, RowFits, HookSaved, MessageSaved, Underway,
               Unanswered, Stages, Statuses
    <2>3. \A i \in Jobs \ {j} :
              /\ arq'[i] = arq[i] /\ tries'[i] = tries[i] /\ pc'[i] = pc[i]
              /\ row'[i] = row[i] /\ received'[i] = received[i]
              /\ answered'[i] = answered[i]
        BY <1>12 DEF SaveHook
    <2> QED BY <2>1, <2>2, <2>3, Frame
<1>13. ASSUME NEW j \in Jobs, EnterComposing(j) PROVE IInv'
    <2>1. TypeOK'
        BY <1>13, SetStatusTypes DEF EnterComposing, Stages, Statuses
    <2>2. Fits(j)'
        BY <1>13 DEF EnterComposing, SetStatus, Fits, StageFits, RowFits, HookSaved,
                     MessageSaved, Underway,
               Unanswered, Stages, Statuses
    <2>3. \A i \in Jobs \ {j} :
              /\ arq'[i] = arq[i] /\ tries'[i] = tries[i] /\ pc'[i] = pc[i]
              /\ row'[i] = row[i] /\ received'[i] = received[i]
              /\ answered'[i] = answered[i]
        BY <1>13 DEF EnterComposing, SetStatus
    <2> QED BY <2>1, <2>2, <2>3, Frame
<1>14. ASSUME NEW j \in Jobs, ComposeMessage(j) PROVE IInv'
    <2>1. TypeOK'
        <3>1. call' \in [Jobs -> 0 .. MaxCost]
            BY <1>14 DEF ComposeMessage, CallLLM
        <3>2. pc' \in [Jobs -> Stages]
            BY <1>14 DEF ComposeMessage, CallLLM, Stages
        <3> QED BY <1>14, <3>1, <3>2 DEF ComposeMessage, CallLLM
    <2>2. Fits(j)'
        BY <1>14 DEF ComposeMessage, CallLLM, Fits, StageFits, RowFits, HookSaved, MessageSaved,
                     Underway,
               Unanswered, Stages, Statuses
    <2>3. \A i \in Jobs \ {j} :
              /\ arq'[i] = arq[i] /\ tries'[i] = tries[i] /\ pc'[i] = pc[i]
              /\ row'[i] = row[i] /\ received'[i] = received[i]
              /\ answered'[i] = answered[i]
        BY <1>14 DEF ComposeMessage, CallLLM
    <2> QED BY <2>1, <2>2, <2>3, Frame
<1>15. ASSUME NEW j \in Jobs, ChargeKey(j, "charge_key2", "charge_all2") PROVE IInv'
    <2>1. TypeOK'
        <3>1. PICK n \in Counted(call[j]) :
                  keySpend' = [keySpend EXCEPT ![KeyOf[j]] = @ + n]
            BY <1>15 DEF ChargeKey
        <3>2. keySpend' \in [Keys -> Nat]
            BY <3>1 DEF Counted
        <3>3. pc' \in [Jobs -> Stages] /\ call' \in [Jobs -> 0 .. MaxCost]
            BY <1>15 DEF ChargeKey, Stages
        <3> QED BY <1>15, <3>2, <3>3 DEF ChargeKey
    <2>2. Fits(j)'
        BY <1>15 DEF ChargeKey, Fits, StageFits, RowFits, HookSaved, MessageSaved, Underway,
               Unanswered, Stages, Statuses
    <2>3. \A i \in Jobs \ {j} :
              /\ arq'[i] = arq[i] /\ tries'[i] = tries[i] /\ pc'[i] = pc[i]
              /\ row'[i] = row[i] /\ received'[i] = received[i]
              /\ answered'[i] = answered[i]
        BY <1>15 DEF ChargeKey
    <2> QED BY <2>1, <2>2, <2>3, Frame
<1>16. ASSUME NEW j \in Jobs, ChargeAll(j, "charge_all2", "save_message") PROVE IInv'
    <2>1. TypeOK'
        BY <1>16 DEF ChargeAll, Stages, Statuses
    <2>2. Fits(j)'
        BY <1>16 DEF ChargeAll, Fits, StageFits, RowFits, HookSaved, MessageSaved, Underway,
               Unanswered, Stages, Statuses
    <2>3. \A i \in Jobs \ {j} :
              /\ arq'[i] = arq[i] /\ tries'[i] = tries[i] /\ pc'[i] = pc[i]
              /\ row'[i] = row[i] /\ received'[i] = received[i]
              /\ answered'[i] = answered[i]
        BY <1>16 DEF ChargeAll
    <2> QED BY <2>1, <2>2, <2>3, Frame
<1>17. ASSUME NEW j \in Jobs, SaveMessage(j) PROVE IInv'
    <2>1. TypeOK'
        <3> DEFINE Rows == [status : Statuses, hook : 0 .. MaxTries, shows : Renderings,
                            message : 0 .. MaxTries, delivered : BOOLEAN]
        <3>1. [row[j] EXCEPT !.message = tries[j]] \in Rows
            OBVIOUS
        <3>2. row' \in [Jobs -> Rows]
            BY <1>17, <3>1 DEF SaveMessage
        <3> QED BY <1>17, <3>2 DEF SaveMessage, Stages
    <2>2. Fits(j)'
        BY <1>17 DEF SaveMessage, Fits, StageFits, RowFits, HookSaved, MessageSaved, Underway,
               Unanswered, Stages, Statuses
    <2>3. \A i \in Jobs \ {j} :
              /\ arq'[i] = arq[i] /\ tries'[i] = tries[i] /\ pc'[i] = pc[i]
              /\ row'[i] = row[i] /\ received'[i] = received[i]
              /\ answered'[i] = answered[i]
        BY <1>17 DEF SaveMessage
    <2> QED BY <2>1, <2>2, <2>3, Frame
<1>18. ASSUME NEW j \in Jobs, EnterDelivery(j) PROVE IInv'
    <2>1. CASE /\ j \in WithWebhook
               /\ SetStatus(j, "deliver", "DELIVERING_WEBHOOK",
                            IF row[j].shows # "error" THEN "post" ELSE "failing")
        <3>1. TypeOK'
            BY <2>1, SetStatusTypes DEF Stages, Statuses
        <3>2. Fits(j)'
            BY <2>1 DEF SetStatus, Fits, StageFits, RowFits, HookSaved, MessageSaved, Underway,
                   Unanswered, Stages, Statuses
        <3> QED BY <2>1, <3>1, <3>2, Frame DEF SetStatus
    <2>2. CASE /\ j \notin WithWebhook
               /\ Goto(j, {"deliver"}, "complete")
               /\ UNCHANGED <<arqVars, call, posts, row, subscriber, keySpend, budget>>
        <3>1. TypeOK'
            BY <2>2 DEF Stages, Statuses
        <3>2. Fits(j)'
            BY <2>2 DEF Fits, StageFits, RowFits, HookSaved, MessageSaved, Underway,
                   Unanswered, Stages, Statuses
        <3> QED BY <2>2, <3>1, <3>2, Frame
    <2> QED BY <1>18, <2>1, <2>2 DEF EnterDelivery
<1>19. ASSUME NEW j \in Jobs, Post(j) PROVE IInv'
    <2>1. TypeOK'
        <3>1. pc[j] = "post" /\ tries[j] \in 1 .. MaxTries
            <4>1. pc[j] = "post"
                BY <1>19 DEF Post
            <4> QED BY <4>1 DEF StageFits
        <3>2. posts' \in [Jobs -> 0 .. (PostAttempts - 1)] /\ pc' \in [Jobs -> Stages]
            <4>1. PICK n \in 0 .. (PostAttempts - 1),
                       to \in {"post", "delivered", "undelivered"} :
                      posts' = [posts EXCEPT ![j] = n] /\ pc' = [pc EXCEPT ![j] = to]
                BY <1>19 DEF Post
            <4> QED BY <4>1 DEF Stages
        <3>3. answered' \in [Jobs -> SUBSET (1 .. MaxTries)]
              /\ received' \in [Jobs -> SUBSET (1 .. MaxTries)]
            BY <1>19, <3>1 DEF Post
        <3> QED BY <1>19, <3>2, <3>3 DEF Post
    <2>2. Fits(j)'
        BY <1>19 DEF Post, Fits, StageFits, RowFits, HookSaved, MessageSaved, Underway,
               Unanswered, Stages, Statuses
    <2>3. \A i \in Jobs \ {j} :
              /\ arq'[i] = arq[i] /\ tries'[i] = tries[i] /\ pc'[i] = pc[i]
              /\ row'[i] = row[i] /\ received'[i] = received[i]
              /\ answered'[i] = answered[i]
        BY <1>19 DEF Post
    <2> QED BY <2>1, <2>2, <2>3, Frame
<1>20. ASSUME NEW j \in Jobs, RecordDelivery(j) PROVE IInv'
    <2>1. TypeOK'
        <3> DEFINE Rows == [status : Statuses, hook : 0 .. MaxTries, shows : Renderings,
                            message : 0 .. MaxTries, delivered : BOOLEAN]
        <3>1. row' \in [Jobs -> Rows]
            <4>1. row'[j] \in Rows
                BY <1>20 DEF RecordDelivery
            <4> QED BY <1>20, <4>1 DEF RecordDelivery
        <3>2. pc' \in [Jobs -> Stages]
            BY <1>20 DEF RecordDelivery, Stages
        <3> QED BY <1>20, <3>1, <3>2 DEF RecordDelivery
    <2>2. Fits(j)'
        <3>1. /\ pc[j] \in {"delivered", "undelivered"} /\ pc'[j] = "complete"
              /\ arq'[j] = arq[j] /\ tries'[j] = tries[j] /\ posts'[j] = posts[j]
              /\ received'[j] = received[j] /\ answered'[j] = answered[j]
            BY <1>20 DEF RecordDelivery
        <3>2. /\ row'[j].delivered = (pc[j] = "delivered") /\ row'[j].status = row[j].status
              /\ row'[j].hook = row[j].hook /\ row'[j].message = row[j].message
              /\ row'[j].shows = row[j].shows
            BY <1>20 DEF RecordDelivery
        <3>3. pc[j] = "delivered" <=> tries[j] \in answered[j]
            BY <3>1 DEF StageFits, Unanswered
        <3>4. StageFits(j)'
            BY <3>1 DEF StageFits, Unanswered, HookSaved
        <3>5. RowFits(j)'
            BY <3>1, <3>2, <3>3 DEF RowFits, HookSaved, MessageSaved, Underway
        <3> QED BY <3>4, <3>5 DEF Fits
    <2>3. \A i \in Jobs \ {j} :
              /\ arq'[i] = arq[i] /\ tries'[i] = tries[i] /\ pc'[i] = pc[i]
              /\ row'[i] = row[i] /\ received'[i] = received[i]
              /\ answered'[i] = answered[i]
        BY <1>20 DEF RecordDelivery
    <2> QED BY <2>1, <2>2, <2>3, Frame
<1>21. ASSUME NEW j \in Jobs, Complete(j) PROVE IInv'
    <2>1. TypeOK'
        BY <1>21, SetStatusTypes DEF Complete, Stages, Statuses
    <2>2. Fits(j)'
        BY <1>21 DEF Complete, SetStatus, Fits, StageFits, RowFits, HookSaved, MessageSaved,
                     Underway,
               Unanswered, Stages, Statuses
    <2>3. \A i \in Jobs \ {j} :
              /\ arq'[i] = arq[i] /\ tries'[i] = tries[i] /\ pc'[i] = pc[i]
              /\ row'[i] = row[i] /\ received'[i] = received[i]
              /\ answered'[i] = answered[i]
        BY <1>21 DEF Complete, SetStatus
    <2> QED BY <2>1, <2>2, <2>3, Frame
<1>22. ASSUME NEW j \in Jobs, Acknowledge(j) PROVE IInv'
    <2>1. TypeOK'
        BY <1>22 DEF Acknowledge, Stages, Statuses
    <2>2. Fits(j)'
        BY <1>22 DEF Acknowledge, Fits, StageFits, RowFits, HookSaved, MessageSaved, Underway,
               Unanswered, Stages, Statuses
    <2>3. \A i \in Jobs \ {j} :
              /\ arq'[i] = arq[i] /\ tries'[i] = tries[i] /\ pc'[i] = pc[i]
              /\ row'[i] = row[i] /\ received'[i] = received[i]
              /\ answered'[i] = answered[i]
        BY <1>22 DEF Acknowledge
    <2> QED BY <2>1, <2>2, <2>3, Frame
<1>23. ASSUME NEW j \in Jobs, Fail(j) PROVE IInv'
    <2>1. CASE SetStatus(j, "failing", "FAILED", "return")
        <3>1. TypeOK'
            BY <2>1, SetStatusTypes DEF Stages, Statuses
        <3>2. Fits(j)'
            BY <2>1 DEF SetStatus, Fits, StageFits, RowFits, HookSaved, MessageSaved, Underway,
                   Unanswered, Stages, Statuses
        <3> QED BY <2>1, <3>1, <3>2, Frame DEF SetStatus
    <2>2. CASE SetStatus(j, "timed_out", "FAILED", "return")
        <3>1. TypeOK'
            BY <2>2, SetStatusTypes DEF Stages, Statuses
        <3>2. Fits(j)'
            BY <2>2 DEF SetStatus, Fits, StageFits, RowFits, HookSaved, MessageSaved, Underway,
                   Unanswered, Stages, Statuses
        <3> QED BY <2>2, <3>1, <3>2, Frame DEF SetStatus
    <2> QED BY <1>23, <2>1, <2>2 DEF Fail
<1>24. ASSUME NEW j \in Jobs, Return(j) PROVE IInv'
    <2>1. TypeOK'
        BY <1>24 DEF Return, Leave, Stages, Statuses
    <2>2. Fits(j)'
        BY <1>24 DEF Return, Leave, Fits, StageFits, RowFits, HookSaved, MessageSaved, Underway,
               Unanswered, Stages, Statuses
    <2>3. \A i \in Jobs \ {j} :
              /\ arq'[i] = arq[i] /\ tries'[i] = tries[i] /\ pc'[i] = pc[i]
              /\ row'[i] = row[i] /\ received'[i] = received[i]
              /\ answered'[i] = answered[i]
        BY <1>24 DEF Return, Leave
    <2> QED BY <2>1, <2>2, <2>3, Frame
<1>25. ASSUME NEW j \in Jobs, Collide(j), kills' \in Nat, faults' \in Nat PROVE IInv'
    <2>1. TypeOK'
        BY <1>25 DEF Collide, Leave, Stages
    <2>2. Fits(j)'
        BY <1>25 DEF Collide, Leave, Fits, StageFits, RowFits, HookSaved, MessageSaved,
                     Underway, Unanswered, Stages
    <2>3. \A i \in Jobs \ {j} :
              /\ arq'[i] = arq[i] /\ tries'[i] = tries[i] /\ pc'[i] = pc[i]
              /\ row'[i] = row[i] /\ received'[i] = received[i]
              /\ answered'[i] = answered[i]
        BY <1>25 DEF Collide, Leave
    <2> QED BY <2>1, <2>2, <2>3, Frame
\* An await of the body raises: its handler is next
<1>26. ASSUME NEW j \in Jobs, NEW to \in {"timed_out", "failing"},
              Goto(j, OtherStages, to), kills' \in Nat, faults' \in Nat,
              UNCHANGED <<arqVars, call, row, subscriber, keySpend>>,
              posts' = posts
       PROVE  IInv'
    <2>1. TypeOK'
        BY <1>26 DEF Stages
    <2>2. Fits(j)'
        BY <1>26 DEF OtherStages, RedisStages, Fits, StageFits, RowFits, HookSaved,
                     MessageSaved, Underway, Unanswered
    <2>3. \A i \in Jobs \ {j} :
              /\ arq'[i] = arq[i] /\ tries'[i] = tries[i] /\ pc'[i] = pc[i]
              /\ row'[i] = row[i] /\ received'[i] = received[i]
              /\ answered'[i] = answered[i]
        BY <1>26
    <2> QED BY <2>1, <2>2, <2>3, Frame
<1>27. ASSUME NEW j \in Jobs, Timeout(j) PROVE IInv'
    <2>1. CASE Collide(j)
        BY <1>25, <1>27, <2>1 DEF Timeout
    <2>2. CASE ~Collide(j)
        <3>1. /\ Goto(j, OtherStages, "timed_out") /\ kills' \in Nat /\ faults' \in Nat
              /\ UNCHANGED <<arqVars, call, row, subscriber, keySpend>> /\ posts' = posts
            BY <1>27, <2>2 DEF Timeout
        <3> QED BY <1>26, <3>1
    <2> QED BY <2>1, <2>2
<1>28. ASSUME NEW j \in Jobs, RedisFault(j) PROVE IInv'
    <2>1. kills' \in Nat /\ faults' \in Nat
        BY <1>28 DEF RedisFault, OneMoreFault
    <2>2. CASE Collide(j)
        BY <1>25, <2>1, <2>2
    <2>3. CASE ~Collide(j)
        <3>1. /\ Goto(j, OtherStages, "failing")
              /\ UNCHANGED <<arqVars, call, row, subscriber, keySpend>> /\ posts' = posts
            BY <1>28, <2>3 DEF RedisFault, OtherStages
        <3> QED BY <1>26, <2>1, <3>1
    <2> QED BY <2>2, <2>3
<1>29. ASSUME NEW j \in Jobs, PostgresFault(j) PROVE IInv'
    <2>1. TypeOK'
        BY <1>29 DEF PostgresFault, OneMoreFault, Leave, PostgresStages, Stages, Statuses
    <2>2. Fits(j)'
        BY <1>29 DEF PostgresFault, Leave, PostgresStages, Fits, StageFits, RowFits, HookSaved,
                     MessageSaved, Underway,
               Unanswered, Stages, Statuses
    <2>3. \A i \in Jobs \ {j} :
              /\ arq'[i] = arq[i] /\ tries'[i] = tries[i] /\ pc'[i] = pc[i]
              /\ row'[i] = row[i] /\ received'[i] = received[i]
              /\ answered'[i] = answered[i]
        BY <1>29 DEF PostgresFault, Leave, PostgresStages
    <2> QED BY <2>1, <2>2, <2>3, Frame
<1>30. ASSUME NEW j \in Jobs, Kill(j) PROVE IInv'
    <2>1. TypeOK'
        BY <1>30 DEF Kill, OneMoreKill, Leave, Stages, Statuses
    <2>2. Fits(j)'
        BY <1>30 DEF Kill, Leave, Fits, StageFits, RowFits, HookSaved, MessageSaved, Underway,
               Unanswered, Stages, Statuses
    <2>3. \A i \in Jobs \ {j} :
              /\ arq'[i] = arq[i] /\ tries'[i] = tries[i] /\ pc'[i] = pc[i]
              /\ row'[i] = row[i] /\ received'[i] = received[i]
              /\ answered'[i] = answered[i]
        BY <1>30 DEF Kill, Leave
    <2> QED BY <2>1, <2>2, <2>3, Frame
<1>31. ASSUME NEW j \in Jobs, ArqTimeout(j) PROVE IInv'
    <2>1. TypeOK'
        BY <1>31 DEF ArqTimeout, OneMoreFault, Leave, Stages, Statuses
    <2>2. Fits(j)'
        BY <1>31 DEF ArqTimeout, Leave, Fits, StageFits, RowFits, HookSaved, MessageSaved, Underway,
               Unanswered, Stages, Statuses
    <2>3. \A i \in Jobs \ {j} :
              /\ arq'[i] = arq[i] /\ tries'[i] = tries[i] /\ pc'[i] = pc[i]
              /\ row'[i] = row[i] /\ received'[i] = received[i]
              /\ answered'[i] = answered[i]
        BY <1>31 DEF ArqTimeout, Leave
    <2> QED BY <2>1, <2>2, <2>3, Frame
<1>32. CASE UNCHANGED vars
    BY <1>32 DEF vars, StageFits, RowFits
<1> QED
    BY <1>1, <1>2, <1>3, <1>4, <1>5, <1>6, <1>7, <1>8, <1>9, <1>10, <1>11,
       <1>12, <1>13, <1>14, <1>15, <1>16, <1>17, <1>18, <1>19, <1>20, <1>21,
       <1>22, <1>23, <1>24, <1>27, <1>28, <1>29, <1>30, <1>31, <1>32
       DEF Next, Work

-----------------------------------------------------------------------------
(* The theorems *)

\* The invariant holds in every reachable state.
THEOREM Invariance == Spec => []IInv
BY InitIInv, NextIInv, PTL DEF Spec

\* Every variable of the worker keeps its type.
THEOREM TypeCorrect == Spec => []TypeOK
<1>1. IInv => TypeOK
    BY DEF IInv
<1> QED BY <1>1, Invariance, PTL

\* A completed job is the work of a single run, whatever happened to others.
THEOREM Coherence == Spec => []CompletedCoherent
<1>1. IInv => CompletedCoherent
    BY DEF IInv, RowFits, CompletedCoherent
<1> QED BY <1>1, Invariance, PTL

\* webhook_delivered of a completed job is that of the run whose result it shows.
THEOREM Delivered == Spec => []DeliveryIsOfTheResult
<1>1. IInv => DeliveryIsOfTheResult
    BY KeysAssumption DEF IInv, RowFits, DeliveryIsOfTheResult
<1> QED BY <1>1, Invariance, PTL

\* What a run sent to a subscriber is in the row until a later run replaces it.
THEOREM Notified == Spec => []NotifiedAfterPersist
<1>1. IInv => NotifiedAfterPersist
    BY DEF IInv, RowFits, NotifiedAfterPersist
<1> QED BY <1>1, Invariance, PTL

\* A job that announces its completion completes with a result GET can show.
THEOREM Announced == Spec => []AnnouncedIsReadable
<1>1. IInv => AnnouncedIsReadable
    BY KeysAssumption DEF IInv, RowFits, AnnouncedIsReadable
<1> QED BY <1>1, Invariance, PTL

-----------------------------------------------------------------------------
(* The worker implements Worker, and with it ResultBoard *)

\* The refinement mapping: what the rows show, the stages of the jobs, and those whose
\* subscriber was told.
Shows == [j \in Jobs |-> Shown(j)]
Phases == [j \in Jobs |-> Phase(j)]
Told == {j \in Jobs : received[j] # {}}

Empty == [kind |-> "open", from |-> {}]

\* A step of j leaves the other jobs where they are.
OnlyOf(j) ==
    \A i \in Jobs \ {j} :
        /\ arq'[i] = arq[i] /\ tries'[i] = tries[i] /\ pc'[i] = pc[i]
        /\ row'[i] = row[i] /\ received'[i] = received[i]

\* Such a step changes the mapping of j alone.
LEMMA Mapped ==
    ASSUME NEW j \in Jobs, OnlyOf(j)
    PROVE  /\ Shows' = [Shows EXCEPT ![j] = Shown(j)']
           /\ Phases' = [Phases EXCEPT ![j] = Phase(j)']
           /\ (received'[j] # {} <=> received[j] # {}) => Told' = Told
           /\ received'[j] # {} => Told' = Told \cup {j}
<1>1. ASSUME NEW i \in Jobs \ {j} PROVE Shown(i)' = Shown(i) /\ Phase(i)' = Phase(i)
    <2>1. /\ arq'[i] = arq[i] /\ tries'[i] = tries[i] /\ pc'[i] = pc[i]
          /\ row'[i] = row[i] /\ received'[i] = received[i]
        BY DEF OnlyOf
    <2>2. Shown(i)' = Shown(i)
        BY <2>1 DEF Shown
    <2>3. Phase(i)' = Phase(i)
        BY <2>1 DEF Phase, PhaseAt
    <2> QED BY <2>2, <2>3
<1>2. \A i \in Jobs \ {j} : received'[i] = received[i]
    BY DEF OnlyOf
<1>3. Shows' = [Shows EXCEPT ![j] = Shown(j)'] /\ Phases' = [Phases EXCEPT ![j] = Phase(j)']
    BY <1>1 DEF Shows, Phases
<1>4. /\ (received'[j] # {} <=> received[j] # {}) => Told' = Told
      /\ received'[j] # {} => Told' = Told \cup {j}
    BY <1>2 DEF Told
<1> QED BY <1>3, <1>4

\* Every step of Worker takes its job to another stage.
LEMMA MovesOn ==
    ASSUME NEW j \in Jobs, Service!WorkerStep(j)
    PROVE  Phases'[j] # Phases[j]
<1>1. PICK to : to # Phases[j] /\ Phases' = [Phases EXCEPT ![j] = to]
    BY DEF Phases, Service!WorkerStep, Service!BeginRun, Service!TakeOver, Service!Pay,
        Service!Notify, Service!Complete, Service!Stumble, Service!FailRun, Service!EndRun,
        Service!Lose, Service!Go
<1> QED BY <1>1 DEF Phases

\* The stages of Worker at which a run is under way.
RunPhases == {"begun", "running", "paid", "notified", "failing", "ended"}

\* When the try, the row and the telling of a job stay as they are, a move from one
\* stage of Worker to another is a step of Worker, or none at all.
LEMMA Moves ==
    ASSUME NEW j \in Jobs, OnlyOf(j), tries' = tries, Shown(j)' = Shown(j),
           received'[j] # {} <=> received[j] # {}
    PROVE  /\ Phase(j)' = Phase(j) => UNCHANGED Service!workerVars
           /\ Phase(j) = "running" /\ Phase(j)' = "paid" => Service!Pay(j)
           /\ j \in WithWebhook /\ Phase(j) = "paid" /\ Phase(j)' = "notified"
              => Service!Notify(j)
           /\ Phase(j) \in {"running", "paid", "notified"} /\ Phase(j)' = "failing"
              => Service!Stumble(j)
           /\ Phase(j) \in RunPhases /\ Phase(j)' \in {"idle", "finished"}
              => Service!EndRun(j) \/ Service!Lose(j)
           /\ Phase(j) = "idle" /\ Phase(j)' = "finished" /\ tries[j] = MaxTries
              => Service!EndRun(j)
           /\ Phase(j) = (IF j \in WithWebhook THEN "notified" ELSE "paid")
              /\ Phase(j)' = "ended" => Service!Complete(j)
<1>1. Shows' = Shows /\ Told' = Told
    BY Mapped DEF Shows
<1>2. Phases' = [Phases EXCEPT ![j] = Phase(j)'] /\ Phases[j] = Phase(j)
    BY Mapped DEF Phases
<1>3. Phase(j)' = Phase(j) => Phases' = Phases
    BY <1>2 DEF Phases
<1> QED BY <1>1, <1>2, <1>3
    DEF RunPhases, Shows, Phases, Told, Service!workerVars, Service!Pay, Service!Notify,
        Service!Stumble, Service!EndRun, Service!Lose, Service!Complete, Service!Go

\* The steps of Worker that the readers of the board can see.
LEMMA BoardMoves ==
    ASSUME NEW j \in Jobs, OnlyOf(j), tries' = tries, tries[j] > 0,
           received'[j] # {} <=> received[j] # {}
    PROVE  /\ Phase(j) = "begun" /\ Phase(j)' = "running" /\ Shown(j)' = Empty
              => Service!TakeOver(j)
           /\ Phase(j) = (IF j \in WithWebhook THEN "notified" ELSE "paid")
              /\ Phase(j)' = "ended" /\ Shown(j) = Empty
              /\ Shown(j)' \in {Empty, [kind |-> "result", from |-> {tries[j]}]}
              => Service!Complete(j)
           /\ Phase(j) = "failing" /\ Phase(j)' = "ended"
              /\ Shown(j)' = [kind |-> "failed", from |-> {}]
              => Service!FailRun(j)
<1>1. /\ Shows' = [Shows EXCEPT ![j] = Shown(j)'] /\ Shows[j] = Shown(j)
      /\ Phases' = [Phases EXCEPT ![j] = Phase(j)'] /\ Phases[j] = Phase(j)
      /\ Told' = Told
    BY Mapped DEF Shows, Phases
<1>2. Shown(j)' = Shown(j) => Shows' = Shows
    BY <1>1 DEF Shows
<1>3. ASSUME Phase(j) = "begun", Phase(j)' = "running", Shown(j)' = Empty
      PROVE  Service!TakeOver(j)
    BY <1>1, <1>3
    DEF Shows, Phases, Told, Empty, Service!TakeOver, Service!Withdraw, Service!Open,
        Service!Go
<1>4. ASSUME Phase(j) = (IF j \in WithWebhook THEN "notified" ELSE "paid"),
             Phase(j)' = "ended", Shown(j) = Empty,
             Shown(j)' \in {Empty, [kind |-> "result", from |-> {tries[j]}]}
      PROVE  Service!Complete(j)
    <2>1. Service!Go(j, IF j \in WithWebhook THEN {"notified"} ELSE {"paid"}, "ended")
        BY <1>1, <1>4 DEF Phases, Service!Go
    <2>2. Service!Publish(j) \/ UNCHANGED <<tries, Shows>>
        BY <1>1, <1>2, <1>4 DEF Shows, Empty, Service!Publish, Service!Open, Service!Result
    <2> QED BY <1>1, <2>1, <2>2 DEF Shows, Told, Service!Complete
<1>5. ASSUME Phase(j) = "failing", Phase(j)' = "ended",
             Shown(j)' = [kind |-> "failed", from |-> {}]
      PROVE  Service!FailRun(j)
    BY <1>1, <1>5
    DEF Shows, Phases, Told, Service!FailRun, Service!Fail, Service!Failure, Service!Go
<1> QED BY <1>3, <1>4, <1>5

\* A POST that the subscriber processes, the first of the job or not.
LEMMA TellMoves ==
    ASSUME NEW j \in Jobs, OnlyOf(j), tries' = tries, Shown(j)' = Shown(j),
           received'[j] # {}, j \in WithWebhook, Phase(j) = "paid", Phase(j)' = "notified"
    PROVE  Service!Notify(j)
<1>1. Shows' = Shows /\ Told' = Told \cup {j}
    BY Mapped DEF Shows
<1>2. Phases' = [Phases EXCEPT ![j] = Phase(j)'] /\ Phases[j] = Phase(j)
    BY Mapped DEF Phases
<1> QED BY <1>1, <1>2 DEF Shows, Phases, Told, Service!Notify, Service!Go

\* A run begins.
LEMMA StartMoves == ASSUME IInv, NEW j \in Jobs, Start(j) PROVE Service!BeginRun(j)
<1>1. OnlyOf(j) /\ row' = row /\ received' = received
    BY DEF Start, Goto, OnlyOf, subscriber, IInv, TypeOK
<1>2. Shows' = Shows /\ Told' = Told
    BY <1>1 DEF Shows, Shown, Told
<1>3. Phases' = [Phases EXCEPT ![j] = Phase(j)'] /\ Phases[j] = Phase(j)
    BY <1>1, Mapped DEF Phases
<1>4. Phase(j) = "idle" /\ Phase(j)' = "begun"
    BY DEF Start, Goto, Phase, PhaseAt, Stages, IInv, TypeOK
<1>5. tries' = [tries EXCEPT ![j] = @ + 1] /\ tries[j] < MaxTries
    BY DEF Start
<1> QED BY <1>2, <1>3, <1>4, <1>5
    DEF Shows, Phases, Told, Service!BeginRun, Service!Begin, Service!Go

\* Every job is queued, shows nothing, and nobody was told.
LEMMA WorkerInits == Init => Service!WorkerInit
BY DEF Init, NewRow, Shown, Phase, PhaseAt, Stages, Service!WorkerInit, Service!Init, Service!Open

\* Every step of the worker is one of Worker, or keeps all that Worker speaks of.
LEMMA WorkerSteps ==
    IInv /\ [Next]_vars => [Service!WorkerNext]_(Service!workerVars)
<1> SUFFICES ASSUME IInv, [Next]_vars
             PROVE  Service!WorkerNext \/ UNCHANGED Service!workerVars
    OBVIOUS
<1> DEFINE Moved(j) ==
        \/ Service!BeginRun(j) \/ Service!TakeOver(j) \/ Service!Pay(j)
        \/ Service!Notify(j) \/ Service!Complete(j) \/ Service!Stumble(j)
        \/ Service!FailRun(j) \/ Service!EndRun(j) \/ Service!Lose(j)
        \/ UNCHANGED Service!workerVars
<1>1. ASSUME NEW j \in Jobs, Start(j) PROVE Moved(j)
    BY <1>1, StartMoves
<1>2. ASSUME NEW j \in Jobs, GiveUp(j) PROVE Moved(j)
    <2>1. OnlyOf(j) /\ row' = row /\ tries' = tries /\ received' = received
        BY <1>2 DEF GiveUp, OnlyOf, runVars, subscriber, IInv, TypeOK
    <2>2. /\ arq[j] = "queued" /\ arq'[j] = "finished" /\ pc[j] = "idle" /\ pc'[j] = "idle"
          /\ tries[j] = MaxTries
        BY <1>2 DEF GiveUp, runVars, IInv, TypeOK, StageFits
    <2>3. Phase(j) = "idle" /\ Phase(j)' = "finished"
        BY <2>2 DEF Phase, PhaseAt, Stages
    <2> QED BY <2>1, <2>2, <2>3, Moves DEF Shown
\* ARQ, and whatever ends a run without its handlers
<1>3. ASSUME NEW j \in Jobs,
             Return(j) \/ ArqTimeout(j) \/ PostgresFault(j) \/ Kill(j) \/ Collide(j)
      PROVE  Moved(j)
    <2>1. OnlyOf(j) /\ row' = row /\ tries' = tries /\ received' = received
        BY <1>3 DEF Return, ArqTimeout, PostgresFault, Kill, Collide, Leave, OnlyOf,
                    subscriber, IInv, TypeOK
    <2>2. pc[j] \in Stages \ {"idle"} /\ arq'[j] \in {"queued", "finished"} /\ pc'[j] = "idle"
        BY <1>3 DEF Return, ArqTimeout, PostgresFault, Kill, Collide, Leave, IInv, TypeOK,
                    StageFits, PostgresStages
    <2>3. Phase(j) \in RunPhases /\ Phase(j)' \in {"idle", "finished"}
        BY <2>2 DEF Phase, PhaseAt, Stages, RunPhases
    <2> QED BY <2>1, <2>3, Moves DEF Shown
\* Steps of the body that keep the row
<1>4. ASSUME NEW j \in Jobs,
             \/ Load(j) \/ FetchSignals(j) \/ CheckBudget(j) \/ PickHook(j)
             \/ ChargeKey(j, "charge_key", "charge_all")
             \/ ChargeAll(j, "charge_all", "save_hook")
             \/ ComposeMessage(j) \/ ChargeKey(j, "charge_key2", "charge_all2")
             \/ ChargeAll(j, "charge_all2", "save_message")
             \/ (EnterDelivery(j) /\ j \notin WithWebhook)
             \/ Acknowledge(j) \/ ((Timeout(j) \/ RedisFault(j)) /\ ~Collide(j))
      PROVE  Moved(j)
    <2>1. /\ OnlyOf(j) /\ row' = row /\ tries' = tries /\ received' = received
          /\ arq' = arq /\ arq[j] = "running"
        BY <1>4 DEF Load, FetchSignals, CheckBudget, PickHook, CallLLM, ChargeKey, ChargeAll,
            ComposeMessage, EnterDelivery, SetStatus, Acknowledge, Timeout, RedisFault,
            Goto, arqVars, subscriber, OnlyOf, IInv, TypeOK, StageFits, OtherStages,
            RedisStages
    <2>2. \/ Phase(j)' = Phase(j)
          \/ Phase(j) \in {"running", "paid", "notified"} /\ Phase(j)' = "failing"
        BY <1>4, <2>1 DEF Load, FetchSignals, CheckBudget, PickHook, CallLLM, ChargeKey,
            ChargeAll, ComposeMessage, EnterDelivery, SetStatus, Acknowledge, Timeout, RedisFault,
            Goto, Phase, PhaseAt, Stages, IInv, TypeOK, OtherStages, RedisStages
    <2> QED BY <2>1, <2>2, Moves DEF Shown
<1>5. ASSUME NEW j \in Jobs, Post(j) PROVE Moved(j)
    <2>1. /\ OnlyOf(j) /\ row' = row /\ tries' = tries /\ arq' = arq /\ arq[j] = "running"
          /\ pc[j] = "post" /\ j \in WithWebhook
          /\ received'[j] \in {received[j], received[j] \cup {tries[j]}}
          /\ pc'[j] \in {"post", "delivered", "undelivered"}
        BY <1>5 DEF Post, Goto, arqVars, OnlyOf, IInv, TypeOK, StageFits
    <2>2. CASE tries[j] \in received[j]
        <3>1. received'[j] = received[j]
            BY <2>1, <2>2
        <3>2. Phase(j) = "notified" /\ Phase(j)' = "notified"
            BY <2>1, <2>2, <3>1 DEF Phase, PhaseAt, Stages
        <3> QED BY <2>1, <2>2, <3>1, <3>2, Moves DEF Shown
    <2>3. CASE tries[j] \notin received[j] /\ received'[j] = received[j]
        <3>1. Phase(j) = "paid" /\ Phase(j)' \in {"paid", "notified"}
            BY <2>1, <2>3 DEF Phase, PhaseAt, Stages
        <3> QED BY <2>1, <2>3, <3>1, Moves DEF Shown
    <2>4. CASE tries[j] \notin received[j] /\ received'[j] = received[j] \cup {tries[j]}
        <3>1. Phase(j) = "paid" /\ Phase(j)' = "notified"
            BY <2>1, <2>4 DEF Phase, PhaseAt, Stages
        <3>2. received'[j] # {}
            BY <2>4
        <3> QED BY <2>1, <3>1, <3>2, TellMoves DEF Shown
    <2> QED BY <2>1, <2>2, <2>3, <2>4
\* Commits of the status on the way
<1>6. ASSUME NEW j \in Jobs, NEW from \in Stages \ {"idle"}, NEW status \in Statuses,
             NEW to, SetStatus(j, from, status, to)
      PROVE  /\ OnlyOf(j) /\ tries' = tries /\ received' = received /\ arq' = arq
             /\ arq[j] = "running" /\ tries[j] > 0 /\ pc[j] = from /\ pc'[j] = to
             /\ row'[j].status = status /\ row'[j].shows = row[j].shows
             /\ row'[j].hook = row[j].hook /\ row'[j].message = row[j].message
    BY <1>6 DEF SetStatus, Goto, arqVars, subscriber, OnlyOf, IInv, TypeOK, StageFits
<1>7. ASSUME NEW j \in Jobs, Validate(j) PROVE Moved(j)
    <2>1. /\ OnlyOf(j) /\ tries' = tries /\ received' = received /\ arq' = arq
          /\ arq[j] = "running" /\ tries[j] > 0 /\ pc[j] = "validate" /\ pc'[j] = "fetch"
          /\ row'[j].status = "VALIDATING"
        BY <1>6, <1>7 DEF Validate, Stages, Statuses
    <2>2. Phase(j) = "begun" /\ Phase(j)' = "running" /\ Shown(j)' = Empty
        BY <2>1 DEF Phase, PhaseAt, Stages, Shown, Empty
    <2> QED BY <2>1, <2>2, BoardMoves
<1>8. ASSUME NEW j \in Jobs, pc[j] \in Underway, OnlyOf(j), tries' = tries,
             received' = received, arq' = arq, arq[j] = "running",
             row'[j].status \notin {"COMPLETED", "FAILED"},
             \/ Phase(j)' = Phase(j)
             \/ Phase(j) = "running" /\ Phase(j)' = "paid"
             \/ Phase(j) \in {"running", "paid", "notified"} /\ Phase(j)' = "failing"
             \/ j \in WithWebhook /\ Phase(j) = "paid" /\ Phase(j)' = "notified"
      PROVE  Moved(j)
    <2>1. Shown(j)' = Shown(j)
        BY <1>8 DEF Shown, IInv, RowFits
    <2> QED BY <1>8, <2>1, Moves
<1>9. ASSUME NEW j \in Jobs, EnterFetching(j) \/ EnterReasoning(j) \/ EnterComposing(j)
      PROVE  Moved(j)
    <2>1. PICK status \in {"FETCHING", "REASONING", "COMPOSING"} :
              \/ SetStatus(j, "fetch", status, "signals")
              \/ SetStatus(j, "reason", status, "budget")
              \/ SetStatus(j, "compose", status, "compose_message")
        BY <1>9 DEF EnterFetching, EnterReasoning, EnterComposing
    <2>2. /\ OnlyOf(j) /\ tries' = tries /\ received' = received /\ arq' = arq
          /\ arq[j] = "running" /\ pc[j] \in {"fetch", "reason", "compose"}
          /\ pc'[j] \in {"signals", "budget", "compose_message"}
          /\ row'[j].status \notin {"COMPLETED", "FAILED"}
        BY <1>6, <2>1 DEF Stages, Statuses
    <2>3. Phase(j) = "running" /\ Phase(j)' = "running" /\ pc[j] \in Underway
        BY <2>2 DEF Phase, PhaseAt, Stages, Underway, HookSaved
    <2> QED BY <1>8, <2>2, <2>3
<1>10. ASSUME NEW j \in Jobs, EnterDelivery(j), j \in WithWebhook PROVE Moved(j)
    <2>1. /\ OnlyOf(j) /\ tries' = tries /\ received' = received /\ arq' = arq
          /\ arq[j] = "running" /\ pc[j] = "deliver" /\ pc'[j] \in {"post", "failing"}
          /\ row'[j].status = "DELIVERING_WEBHOOK"
        <3>1. PICK to \in {"post", "failing"} :
                  SetStatus(j, "deliver", "DELIVERING_WEBHOOK", to)
            BY <1>10 DEF EnterDelivery
        <3>2. "deliver" \in Stages \ {"idle"} /\ "DELIVERING_WEBHOOK" \in Statuses
            BY DEF Stages, Statuses
        <3> QED BY <1>6, <3>1, <3>2
    <2>2. Phase(j)' \in {"paid", "notified", "failing"}
        BY <2>1 DEF Phase, PhaseAt, Stages
    <2>3. Phase(j) = "paid" /\ pc[j] \in Underway
        BY <2>1 DEF Phase, PhaseAt, Stages, Underway, MessageSaved
    <2> QED BY <1>8, <1>10, <2>1, <2>2, <2>3
<1>11. ASSUME NEW j \in Jobs, SaveHook(j) \/ SaveMessage(j) \/ RecordDelivery(j)
       PROVE  Moved(j)
    <2>1. /\ OnlyOf(j) /\ tries' = tries /\ received' = received /\ arq' = arq
          /\ arq[j] = "running"
        BY <1>11 DEF SaveHook, SaveMessage, RecordDelivery, Goto, arqVars, subscriber,
                     OnlyOf, IInv, TypeOK, StageFits
    <2>2. /\ pc[j] \in Underway
          /\ \/ pc[j] = "save_hook" /\ pc'[j] = "compose"
             \/ pc[j] = "save_message" /\ pc'[j] = "deliver"
             \/ pc[j] \in {"delivered", "undelivered"} /\ pc'[j] = "complete"
        BY <1>11 DEF SaveHook, SaveMessage, RecordDelivery, Goto, IInv, TypeOK, Underway,
                     HookSaved, MessageSaved
    <2>3. row'[j].status = row[j].status
        <3>1. CASE SaveHook(j)
            BY <3>1 DEF SaveHook, IInv, TypeOK
        <3>2. CASE SaveMessage(j)
            BY <3>2 DEF SaveMessage, IInv, TypeOK
        <3>3. CASE RecordDelivery(j)
            BY <3>3 DEF RecordDelivery, IInv, TypeOK
        <3> QED BY <1>11, <3>1, <3>2, <3>3
    <2>4. row'[j].status \notin {"COMPLETED", "FAILED"}
        BY <2>2, <2>3 DEF IInv, RowFits
    <2>5. Phase(j)' = Phase(j) \/ (Phase(j) = "running" /\ Phase(j)' = "paid")
        BY <2>1, <2>2 DEF Phase, PhaseAt, Stages, IInv, StageFits
    <2> QED BY <1>8, <2>1, <2>2, <2>4, <2>5
<1>12. ASSUME NEW j \in Jobs, Complete(j) PROVE Moved(j)
    <2>1. /\ OnlyOf(j) /\ tries' = tries /\ received' = received /\ arq' = arq
          /\ arq[j] = "running" /\ tries[j] > 0
          /\ pc[j] = "complete" /\ pc'[j] = "completed"
          /\ row'[j].status = "COMPLETED" /\ row'[j].shows = row[j].shows
          /\ row'[j].hook = row[j].hook /\ row'[j].message = row[j].message
        BY <1>6, <1>12 DEF Complete, Stages, Statuses
    <2>2. /\ row[j].hook = tries[j] /\ row[j].message = tries[j]
          /\ row[j].status \notin {"COMPLETED", "FAILED"}
        BY <2>1 DEF IInv, RowFits, MessageSaved, Underway
    <2>3. /\ Phase(j) = (IF j \in WithWebhook THEN "notified" ELSE "paid")
          /\ Phase(j)' = "ended"
        BY <2>1 DEF Phase, PhaseAt, Stages
    <2>4. /\ Shown(j) = Empty
          /\ Shown(j)' \in {Empty, [kind |-> "result", from |-> {tries[j]}]}
        BY <2>1, <2>2 DEF Shown, Empty
    <2> QED BY <2>1, <2>3, <2>4, BoardMoves
<1>13. ASSUME NEW j \in Jobs, Fail(j) PROVE Moved(j)
    <2>1. /\ OnlyOf(j) /\ tries' = tries /\ received' = received /\ arq' = arq
          /\ arq[j] = "running" /\ tries[j] > 0
          /\ pc[j] \in {"failing", "timed_out"} /\ pc'[j] = "return"
          /\ row'[j].status = "FAILED"
        <3>1. PICK from \in {"failing", "timed_out"} : SetStatus(j, from, "FAILED", "return")
            BY <1>13 DEF Fail
        <3>2. from \in Stages \ {"idle"} /\ "FAILED" \in Statuses
            BY DEF Stages, Statuses
        <3>3. pc[j] = from /\ pc'[j] = "return"
            BY <1>6, <3>1, <3>2
        <3> QED BY <1>6, <3>1, <3>2, <3>3
    <2>2. /\ Phase(j) = "failing" /\ Phase(j)' = "ended"
          /\ Shown(j)' = [kind |-> "failed", from |-> {}]
        BY <2>1 DEF Phase, PhaseAt, Stages, Shown
    <2> QED BY <2>1, <2>2, BoardMoves
<1>14. ASSUME NEW j \in Jobs, Work(j) PROVE Moved(j)
    BY <1>3, <1>4, <1>5, <1>7, <1>9, <1>10, <1>11, <1>12, <1>13, <1>14 DEF Work
<1>15. UNCHANGED vars => UNCHANGED Service!workerVars
    BY DEF vars, arqVars, runVars, subscriber, Shown, Phase, PhaseAt, Stages,
           Service!workerVars
<1>16. ASSUME NEW j \in Jobs, Moved(j)
       PROVE  Service!WorkerNext \/ UNCHANGED Service!workerVars
    BY <1>16, MovesOn DEF Phases, Service!WorkerNext, Service!WorkerStep
<1> QED BY <1>1, <1>2, <1>3, <1>4, <1>14, <1>15, <1>16 DEF Next

\* The detailed worker keeps to what the service around it relies on.
THEOREM RefinesWorker == Spec => ImplementsWorker
BY WorkerInits, WorkerSteps, Invariance, PTL DEF Spec, ImplementsWorker, Service!WorkerSpec

\* A step of Worker is one of its board, or leaves it alone.
LEMMA WorkerKeepsBoard ==
    [Service!WorkerNext]_(Service!workerVars) => [Board!Next]_(Board!vars)
<1> SUFFICES ASSUME [Service!WorkerNext]_(Service!workerVars)
             PROVE  Board!Next \/ UNCHANGED Board!vars
    OBVIOUS
<1>1. CASE UNCHANGED Service!workerVars
    BY <1>1 DEF Service!workerVars, Board!vars
<1>2. ASSUME NEW j \in Jobs,
             \/ Service!BeginRun(j) \/ Service!TakeOver(j) \/ Service!Pay(j)
             \/ Service!Notify(j) \/ Service!Complete(j) \/ Service!Stumble(j)
             \/ Service!FailRun(j) \/ Service!EndRun(j) \/ Service!Lose(j)
      PROVE  \/ Board!Begin(j) \/ Board!Withdraw(j) \/ Board!Publish(j) \/ Board!Fail(j)
             \/ UNCHANGED Board!vars
    BY <1>2 DEF Service!BeginRun, Service!TakeOver, Service!Pay, Service!Notify,
        Service!Complete, Service!Stumble, Service!FailRun, Service!EndRun, Service!Lose,
        Service!Begin, Service!Withdraw, Service!Publish, Service!Fail, Service!Open,
        Service!Failure, Service!Result, Board!Begin, Board!Withdraw, Board!Publish,
        Board!Fail, Board!Open, Board!Failure, Board!Result, Board!vars
<1> QED BY <1>1, <1>2 DEF Service!WorkerNext, Service!WorkerStep, Board!Next

\* Worker promises the readers what ResultBoard does.
LEMMA WorkerImpliesBoard == ImplementsWorker => ImplementsBoard
<1>1. Service!WorkerInit => Board!Init
    BY DEF Service!WorkerInit, Service!Init, Service!Open, Board!Init, Board!Open
<1> QED BY <1>1, WorkerKeepsBoard, PTL
        DEF ImplementsWorker, ImplementsBoard, Service!WorkerSpec, Board!Spec

\* The detailed worker implements the promise made to the readers of GET.
THEOREM Refinement == Spec => ImplementsBoard
BY RefinesWorker, WorkerImpliesBoard, PTL

-----------------------------------------------------------------------------
(* What a key can still be charged by the runs in flight *)

JobsOf(k) == {j \in Jobs : KeyOf[j] = k}
SumOf(f, k) == SumFunctionOnSet(f, JobsOf(k))

\* The jobs of a key are finitely many.
LEMMA JobsOfFinite == \A k \in Keys : IsFiniteSet(JobsOf(k)) /\ JobsOf(k) \subseteq Jobs
BY FinitenessAssumption, FS_Subset DEF JobsOf

\* Numbers that belong to the jobs sum up to a natural number for each key.
LEMMA KeySumNat ==
    ASSUME NEW f \in [Jobs -> Nat], NEW k \in Keys
    PROVE  SumOf(f, k) \in Nat
<1>1. \A j \in JobsOf(k) : f[j] \in Nat
    BY JobsOfFinite
<1> QED BY <1>1, JobsOfFinite, SumNat DEF SumOf

\* When one job's number changes, the sum of its key changes by as much, and the
\* sums of the other keys do not.
LEMMA KeySumChange ==
    ASSUME NEW f \in [Jobs -> Nat], NEW g \in [Jobs -> Nat], NEW j \in Jobs,
           \A i \in Jobs \ {j} : g[i] = f[i], NEW k \in Keys
    PROVE  /\ k = KeyOf[j] => SumOf(g, k) + f[j] = SumOf(f, k) + g[j]
           /\ k # KeyOf[j] => SumOf(g, k) = SumOf(f, k)
<1> DEFINE S == JobsOf(k)
<1>1. IsFiniteSet(S) /\ S \subseteq Jobs /\ (j \in S <=> k = KeyOf[j])
    BY JobsOfFinite DEF JobsOf
<1>2. \A i \in S : f[i] \in Nat /\ g[i] \in Nat
    BY <1>1
<1> HIDE DEF S
<1>3. ASSUME k = KeyOf[j]
      PROVE  SumFunctionOnSet(g, S) + f[j] = SumFunctionOnSet(f, S) + g[j]
    BY <1>1, <1>2, <1>3, SumChange
<1>4. ASSUME k # KeyOf[j] PROVE SumFunctionOnSet(g, S) = SumFunctionOnSet(f, S)
    BY <1>1, <1>2, <1>4, SumSame
<1> QED BY <1>3, <1>4 DEF SumOf, S

ChargeStages == {"charge_key", "charge_all", "save_hook",
                 "charge_key2", "charge_all2", "save_message"}

\* Every action but the LLM calls and the charges.
Plain(j) ==
    \/ Start(j) \/ GiveUp(j) \/ Load(j) \/ Validate(j) \/ EnterFetching(j) \/ FetchSignals(j)
    \/ EnterReasoning(j) \/ CheckBudget(j) \/ SaveHook(j) \/ EnterComposing(j) \/ SaveMessage(j)
    \/ EnterDelivery(j) \/ Post(j) \/ RecordDelivery(j) \/ Complete(j) \/ Acknowledge(j)
    \/ Fail(j) \/ Return(j)
    \/ Timeout(j) \/ ArqTimeout(j) \/ RedisFault(j) \/ PostgresFault(j) \/ Kill(j)

\* It charges no key and leaves the stages of a charge.
LEMMA PlainStep ==
    ASSUME IInv, NEW j \in Jobs, Plain(j)
    PROVE  /\ keySpend' = keySpend /\ \A i \in Jobs \ {j} : pc'[i] = pc[i]
           /\ pc'[j] \notin ChargeStages
<1> USE DEF IInv, TypeOK, ChargeStages, Goto, arqVars, runVars
<1>1. CASE \/ Start(j) \/ GiveUp(j) \/ Load(j) \/ FetchSignals(j) \/ CheckBudget(j)
           \/ Acknowledge(j) \/ SaveHook(j) \/ SaveMessage(j) \/ Post(j) \/ RecordDelivery(j)
    BY <1>1 DEF Start, GiveUp, Load, FetchSignals, CheckBudget, Acknowledge, SaveHook,
       SaveMessage, Post, RecordDelivery, StageFits
<1>2. CASE \/ Return(j) \/ ArqTimeout(j) \/ PostgresFault(j) \/ Kill(j)
           \/ Timeout(j) \/ RedisFault(j)
    BY <1>2 DEF Return, ArqTimeout, PostgresFault, Kill, Timeout, RedisFault, Collide, Leave
<1>3. CASE \/ Validate(j) \/ EnterFetching(j) \/ EnterReasoning(j) \/ EnterComposing(j)
           \/ Complete(j) \/ Fail(j) \/ EnterDelivery(j)
    BY <1>3 DEF Validate, EnterFetching, EnterReasoning, EnterComposing, Complete, Fail,
       EnterDelivery, SetStatus
<1> QED BY <1>1, <1>2, <1>3 DEF Plain

\* Each step of a job is one of the four kinds.
LEMMA StepKinds ==
    ASSUME Next
    PROVE  \E j \in Jobs :
              \/ Plain(j) \/ PickHook(j) \/ ComposeMessage(j)
              \/ ChargeKey(j, "charge_key", "charge_all")
              \/ ChargeKey(j, "charge_key2", "charge_all2")
              \/ ChargeAll(j, "charge_all", "save_hook")
              \/ ChargeAll(j, "charge_all2", "save_message")
BY DEF Next, Work, Plain

\* What a run that passed its check has still to charge, at most.
Due == [j \in Jobs |->
          CASE pc[j] \in {"pick_hook", "charge_key"} -> 2 * MaxCost
            [] pc[j] \in {"charge_all", "save_hook", "compose", "compose_message",
                          "charge_key2"} -> MaxCost
            [] OTHER -> 0]
DueBound == Slots * 2 * MaxCost

SlotsKept == Cardinality(Running) <= Slots

\* The spend of a key and what its runs may add stay below the bound.
OvershootInv ==
    KeyLimit > 0 => \A k \in Keys : keySpend[k] + SumOf(Due, k) < KeyLimit + DueBound

\* Only a run is due anything, and the runs of one key no more than the bound.
DueTypes ==
    /\ Due \in [Jobs -> Nat] /\ DueBound \in Nat
    /\ \A k \in Keys : SumOf(Due, k) \in Nat /\ SumOf(Due, k) <= DueBound

\* At most Slots runs are under way, each due at most two calls.
LEMMA DueTypesHold == IInv /\ SlotsKept => DueTypes
<1> SUFFICES ASSUME IInv, SlotsKept PROVE DueTypes
    OBVIOUS
<1> DEFINE b == 2 * MaxCost
<1>1. b \in Nat /\ DueBound \in Nat /\ DueBound = Slots * b
    BY LimitsAssumption DEF DueBound
<1>2. \A j \in Jobs : Due[j] \in Nat /\ Due[j] <= b /\ (j \notin Running => Due[j] = 0)
    BY LimitsAssumption DEF Due, Running, IInv, StageFits
<1>3. Due \in [Jobs -> Nat]
    BY <1>2 DEF Due
<1> HIDE DEF b
<1>4. ASSUME NEW k \in Keys PROVE SumOf(Due, k) \in Nat /\ SumOf(Due, k) <= DueBound
    <2> DEFINE n == Cardinality(JobsOf(k) \cap Running)
    <2>1. SumOf(Due, k) \in Nat
        BY <1>3, KeySumNat
    <2>2. SumOf(Due, k) <= b * n
        <3>1. \A j \in JobsOf(k) : Due[j] \in Nat /\ Due[j] <= b /\ (j \notin Running => Due[j] = 0)
            BY <1>2, JobsOfFinite
        <3> QED BY <1>1, <3>1, JobsOfFinite, SumBound DEF SumOf
    <2>3. n \in Nat /\ n <= Slots
        <3>1. IsFiniteSet(Running) /\ IsFiniteSet(JobsOf(k) \cap Running)
            BY FinitenessAssumption, FS_Subset DEF Running
        <3>2. Cardinality(JobsOf(k) \cap Running) <= Cardinality(Running)
            BY <3>1, FS_Subset
        <3>3. Cardinality(Running) \in Nat /\ n \in Nat
            BY <3>1, FS_CardinalityType
        <3> QED BY <3>2, <3>3, LimitsAssumption DEF SlotsKept
    <2> HIDE DEF n
    <2>4. b * n <= Slots * b /\ b * n \in Nat
        BY <1>1, <2>3, LimitsAssumption
    <2> QED BY <1>1, <2>1, <2>2, <2>4
<1> QED BY <1>1, <1>3, <1>4 DEF DueTypes

\* A run is started only when a slot is free.
LEMMA NextSlots == IInv /\ SlotsKept /\ [Next]_vars => SlotsKept'
<1> SUFFICES ASSUME IInv, SlotsKept, [Next]_vars PROVE SlotsKept'
    OBVIOUS
<1>0. TypeOK /\ IsFiniteSet(Running) /\ Cardinality(Running) \in Nat
    BY FinitenessAssumption, FS_Subset, FS_CardinalityType DEF IInv, Running
<1>1. CASE Running' \subseteq Running
    BY <1>0, <1>1, FS_Subset, FS_CardinalityType, LimitsAssumption DEF SlotsKept
<1>2. ASSUME NEW j \in Jobs, Start(j) PROVE SlotsKept'
    <2>1. Running' = Running \cup {j} /\ Cardinality(Running) < Slots
        BY <1>0, <1>2 DEF Start, Running, TypeOK
    <2>2. Cardinality(Running \cup {j}) <= Cardinality(Running) + 1
        <3>1. Cardinality(Running \cup {j})
                = IF j \in Running THEN Cardinality(Running) ELSE Cardinality(Running) + 1
            BY <1>0, FS_AddElement
        <3> QED BY <1>0, <3>1
    <2>3. Cardinality(Running') \in Nat
        BY <1>0, <2>1, FS_AddElement, FS_CardinalityType
    <2> QED BY <1>0, <2>1, <2>2, <2>3, LimitsAssumption DEF SlotsKept
<1>3. ASSUME NEW j \in Jobs,
             \/ GiveUp(j) \/ Return(j) \/ ArqTimeout(j) \/ PostgresFault(j) \/ Kill(j) \/ Collide(j)
      PROVE  Running' \subseteq Running
    BY <1>0, <1>3 DEF GiveUp, Return, ArqTimeout, PostgresFault, Kill, Collide,
       Leave, Running, TypeOK
<1>4. ASSUME NEW j \in Jobs,
             \/ Work(j) /\ ~Return(j)
             \/ (Timeout(j) \/ RedisFault(j)) /\ ~Collide(j)
      PROVE  Running' = Running
    BY <1>4 DEF Work, Load, Validate, EnterFetching, FetchSignals, EnterReasoning, CheckBudget,
       PickHook, CallLLM, ChargeKey, ChargeAll, SaveHook, EnterComposing, ComposeMessage,
       SaveMessage, EnterDelivery, SetStatus, Post, RecordDelivery, Complete, Acknowledge,
       Fail, Timeout, RedisFault, arqVars, Running
<1>5. CASE UNCHANGED vars
    BY <1>1, <1>5 DEF vars, arqVars, Running
<1> QED BY <1>1, <1>2, <1>3, <1>4, <1>5 DEF Next

\* A step of one job changes what its key can still be charged by its own part.
LEMMA DueStep ==
    ASSUME DueTypes, DueTypes', NEW j \in Jobs, \A i \in Jobs \ {j} : pc'[i] = pc[i],
           NEW k \in Keys
    PROVE  /\ k = KeyOf[j] => SumOf(Due', k) + Due[j] = SumOf(Due, k) + Due'[j]
           /\ k # KeyOf[j] => SumOf(Due', k) = SumOf(Due, k)
<1>1. \A i \in Jobs \ {j} : Due'[i] = Due[i]
    BY DEF Due
<1>2. Due \in [Jobs -> Nat] /\ Due' \in [Jobs -> Nat]
    BY DEF DueTypes
<1> QED BY <1>1, <1>2, KeySumChange

\* A step that charges no key and lets its run do no more keeps the bound.
LEMMA OvershootFrame ==
    ASSUME IInv, OvershootInv, DueTypes, DueTypes', keySpend' = keySpend, NEW j \in Jobs,
           \A i \in Jobs \ {j} : pc'[i] = pc[i], Due'[j] <= Due[j]
    PROVE  OvershootInv'
<1> SUFFICES ASSUME KeyLimit > 0, NEW k \in Keys
             PROVE  keySpend[k] + SumOf(Due', k) < KeyLimit + DueBound
    BY DEF OvershootInv, DueBound
<1>1. keySpend[k] + SumOf(Due, k) < KeyLimit + DueBound
    BY DEF OvershootInv
<1>2. /\ keySpend[k] \in Nat /\ SumOf(Due, k) \in Nat /\ SumOf(Due', k) \in Nat
      /\ Due[j] \in Nat /\ Due'[j] \in Nat /\ DueBound \in Nat /\ KeyLimit \in Nat
    BY LimitsAssumption DEF IInv, TypeOK, DueTypes
<1>3. SumOf(Due', k) <= SumOf(Due, k)
    BY <1>2, DueStep
<1> QED BY <1>1, <1>2, <1>3

\* What is charged to a key is no more than what was due.
LEMMA OvershootChargeKey ==
    ASSUME IInv, OvershootInv, DueTypes, DueTypes', NEW j \in Jobs,
           ChargeKey(j, "charge_key", "charge_all") \/ ChargeKey(j, "charge_key2", "charge_all2")
    PROVE  OvershootInv'
<1>0. PICK n \in Counted(call[j]) : keySpend' = [keySpend EXCEPT ![KeyOf[j]] = @ + n]
    BY DEF ChargeKey
<1>1. /\ keySpend' = [keySpend EXCEPT ![KeyOf[j]] = @ + n]
      /\ \A i \in Jobs \ {j} : pc'[i] = pc[i]
      /\ \/ pc[j] = "charge_key" /\ pc'[j] = "charge_all"
         \/ pc[j] = "charge_key2" /\ pc'[j] = "charge_all2"
    BY <1>0 DEF IInv, TypeOK, ChargeKey, Goto
<1>2. n \in Nat /\ n <= MaxCost /\ MaxCost \in Nat /\ KeyOf[j] \in Keys
    BY KeysAssumption, LimitsAssumption DEF IInv, TypeOK, Counted
<1>3. Due[j] = Due'[j] + MaxCost
    BY <1>1, <1>2 DEF Due
<1> SUFFICES ASSUME KeyLimit > 0, NEW k \in Keys
             PROVE  keySpend'[k] + SumOf(Due', k) < KeyLimit + DueBound
    BY DEF OvershootInv, DueBound
<1>4. keySpend[k] + SumOf(Due, k) < KeyLimit + DueBound
    BY DEF OvershootInv
<1>5. /\ keySpend \in [Keys -> Nat] /\ keySpend[k] \in Nat
      /\ SumOf(Due, k) \in Nat /\ SumOf(Due', k) \in Nat
      /\ Due[j] \in Nat /\ Due'[j] \in Nat /\ DueBound \in Nat /\ KeyLimit \in Nat
    BY LimitsAssumption DEF IInv, TypeOK, DueTypes
<1>6. CASE k = KeyOf[j]
    <2>1. keySpend'[k] = keySpend[k] + n
        BY <1>1, <1>5, <1>6
    <2>2. SumOf(Due', k) + MaxCost = SumOf(Due, k)
        BY <1>1, <1>2, <1>3, <1>5, <1>6, DueStep
    <2> QED BY <1>2, <1>4, <1>5, <2>1, <2>2
<1>7. CASE k # KeyOf[j]
    <2>1. keySpend'[k] = keySpend[k]
        BY <1>1, <1>5, <1>7
    <2>2. SumOf(Due', k) = SumOf(Due, k)
        BY <1>1, <1>7, DueStep
    <2> QED BY <1>4, <2>1, <2>2
<1> QED BY <1>6, <1>7

\* check_key_budget lets a run pass only below the limit, and all runs in flight
\* together, that one included, add no more than the bound.
LEMMA OvershootCheck ==
    ASSUME IInv, OvershootInv, DueTypes, DueTypes', NEW j \in Jobs, CheckBudget(j)
    PROVE  OvershootInv'
<1>1. /\ pc[j] = "budget" /\ keySpend' = keySpend
      /\ \A i \in Jobs \ {j} : pc'[i] = pc[i]
      /\ pc'[j] = IF Blocked(KeyOf[j]) THEN "failing" ELSE "pick_hook"
    BY DEF CheckBudget, IInv, TypeOK, Goto, subscriber
<1>2. CASE Blocked(KeyOf[j])
    <2>1. Due[j] = 0 /\ Due'[j] = 0
        BY <1>1, <1>2 DEF Due
    <2>2. Due'[j] <= Due[j]
        BY <2>1
    <2> QED BY <1>1, <2>2, OvershootFrame
<1>3. CASE ~Blocked(KeyOf[j])
    <2> SUFFICES ASSUME KeyLimit > 0, NEW k \in Keys
                 PROVE  keySpend[k] + SumOf(Due', k) < KeyLimit + DueBound
        BY <1>1 DEF OvershootInv, DueBound
    <2>1. /\ keySpend[k] \in Nat /\ DueBound \in Nat /\ KeyLimit \in Nat
          /\ SumOf(Due', k) \in Nat /\ SumOf(Due', k) <= DueBound
        <3>1. DueBound' = DueBound
            BY DEF DueBound
        <3> QED BY <3>1, LimitsAssumption DEF IInv, TypeOK, DueTypes
    <2>2. CASE k = KeyOf[j]
        <3>1. keySpend[k] < KeyLimit
            BY <1>3, <2>1, <2>2 DEF Blocked
        <3> QED BY <2>1, <3>1
    <2>3. CASE k # KeyOf[j]
        <3>1. SumOf(Due', k) = SumOf(Due, k)
            BY <1>1, <2>3, DueStep
        <3> QED BY <3>1 DEF OvershootInv
    <2> QED BY <2>2, <2>3
<1> QED BY <1>2, <1>3

\* The other steps of a job charge no key and bring the run no closer to a charge than
\* it was, or end it.
LEMMA OvershootOther ==
    ASSUME IInv, OvershootInv, DueTypes, DueTypes', NEW j \in Jobs,
           \/ Plain(j) /\ ~CheckBudget(j)
           \/ PickHook(j) \/ ComposeMessage(j)
           \/ ChargeAll(j, "charge_all", "save_hook") \/ ChargeAll(j, "charge_all2", "save_message")
    PROVE  OvershootInv'
<1> USE DEF IInv, TypeOK, Goto, arqVars, runVars
<1>1. CASE Plain(j) /\ ~CheckBudget(j)
    <2>1. keySpend' = keySpend /\ \A i \in Jobs \ {j} : pc'[i] = pc[i]
        BY <1>1, PlainStep
    <2>2. \/ pc[j] = "save_hook" /\ pc'[j] = "compose"
          \/ pc[j] = "compose" /\ pc'[j] = "compose_message"
          \/ /\ pc'[j] \notin ChargeStages
             /\ pc'[j] \notin {"pick_hook", "compose", "compose_message"}
        <3>1. pc'[j] \notin ChargeStages
            BY <1>1, PlainStep
        <3>2. CASE SaveHook(j) \/ EnterComposing(j)
            BY <3>2 DEF SaveHook, EnterComposing, SetStatus
        <3>3. CASE ~(SaveHook(j) \/ EnterComposing(j))
            <4>1. CASE \/ Start(j) \/ Load(j) \/ FetchSignals(j) \/ Acknowledge(j)
                       \/ SaveMessage(j) \/ Post(j)
                       \/ RecordDelivery(j)
                BY <3>1, <4>1 DEF Start, Load, FetchSignals, Acknowledge,
                   SaveMessage, Post, RecordDelivery
            <4>2. CASE \/ Validate(j) \/ EnterFetching(j) \/ EnterReasoning(j) \/ Complete(j)
                       \/ Fail(j) \/ EnterDelivery(j)
                BY <3>1, <4>2 DEF Validate, EnterFetching, EnterReasoning, Complete, Fail,
                   EnterDelivery, SetStatus
            <4>3. CASE \/ Return(j) \/ ArqTimeout(j) \/ PostgresFault(j) \/ Kill(j) \/ GiveUp(j)
                       \/ Timeout(j) \/ RedisFault(j)
                BY <3>1, <4>3 DEF Return, ArqTimeout, PostgresFault, Kill, Leave, GiveUp,
                   Timeout, RedisFault, Collide, StageFits
            <4> QED BY <1>1, <3>3, <4>1, <4>2, <4>3 DEF Plain
        <3> QED BY <3>2, <3>3
    <2>3. Due'[j] <= Due[j]
        <3>1. Due[j] \in Nat
            BY DEF DueTypes
        <3>2. CASE \/ pc[j] = "save_hook" /\ pc'[j] = "compose"
                   \/ pc[j] = "compose" /\ pc'[j] = "compose_message"
            <4>1. Due'[j] = Due[j]
                BY <3>2 DEF Due
            <4> QED BY <3>1, <4>1
        <3>3. CASE pc'[j] \notin ChargeStages
                   /\ pc'[j] \notin {"pick_hook", "compose", "compose_message"}
            <4>1. Due'[j] = 0
                BY <3>3 DEF Due, ChargeStages
            <4> QED BY <3>1, <4>1
        <3> QED BY <2>2, <3>2, <3>3
    <2> QED BY <2>1, <2>3, OvershootFrame
<1>2. CASE PickHook(j) \/ ComposeMessage(j)
    <2>1. keySpend' = keySpend /\ \A i \in Jobs \ {j} : pc'[i] = pc[i]
        BY <1>2 DEF PickHook, ComposeMessage, CallLLM
    <2>2. \/ pc[j] = "pick_hook" /\ pc'[j] \in {"charge_key", "failing"}
          \/ pc[j] = "compose_message" /\ pc'[j] \in {"charge_key2", "failing"}
        BY <1>2 DEF PickHook, ComposeMessage, CallLLM
    <2>3. Due'[j] = Due[j] \/ Due'[j] = 0
        BY <2>2 DEF Due
    <2>4. Due'[j] <= Due[j]
        BY <2>3 DEF DueTypes
    <2> QED BY <2>1, <2>4, OvershootFrame
<1>3. CASE ChargeAll(j, "charge_all", "save_hook") \/ ChargeAll(j, "charge_all2", "save_message")
    <2>1. keySpend' = keySpend /\ \A i \in Jobs \ {j} : pc'[i] = pc[i]
        BY <1>3 DEF ChargeAll
    <2>2. \/ pc[j] = "charge_all" /\ pc'[j] = "save_hook"
          \/ pc[j] = "charge_all2" /\ pc'[j] = "save_message"
        BY <1>3 DEF ChargeAll
    <2>3. Due'[j] = Due[j]
        BY <2>2 DEF Due
    <2>4. Due'[j] <= Due[j]
        BY <2>3 DEF DueTypes
    <2> QED BY <2>1, <2>4, OvershootFrame
<1> QED BY <1>1, <1>2, <1>3

\* Every step keeps the bound.
LEMMA NextOvershoot ==
    IInv /\ IInv' /\ SlotsKept /\ SlotsKept' /\ OvershootInv /\ [Next]_vars => OvershootInv'
<1> SUFFICES ASSUME IInv, IInv', SlotsKept, SlotsKept', OvershootInv, [Next]_vars
             PROVE  OvershootInv'
    OBVIOUS
<1>1. DueTypes
    BY DueTypesHold
<1>2. DueTypes'
    BY DueTypesHold, PTL
<1>3. CASE UNCHANGED vars
    BY <1>3 DEF vars, runVars, OvershootInv, Due, DueBound
<1> QED BY <1>1, <1>2, <1>3, StepKinds, OvershootOther, OvershootCheck, OvershootChargeKey

\* At first no key is charged and no job runs.
LEMMA InitOvershoot == Init => SlotsKept /\ OvershootInv
<1> SUFFICES ASSUME Init PROVE SlotsKept /\ OvershootInv
    OBVIOUS
<1>1. SlotsKept
    <2>1. Running = {}
        BY DEF Init, Running
    <2> QED BY <2>1, FS_EmptySet, LimitsAssumption DEF SlotsKept
<1>2. DueBound \in Nat
    BY <1>1, InitIInv, DueTypesHold DEF DueTypes
<1>3. \A k \in Keys : SumOf(Due, k) = 0
    <2> TAKE k \in Keys
    <2>1. \A j \in JobsOf(k) : Due[j] = 0
        BY JobsOfFinite DEF Init, Due
    <2> QED BY <2>1, JobsOfFinite, SumZero DEF SumOf
<1> QED BY <1>1, <1>2, <1>3, LimitsAssumption DEF OvershootInv, Init

\* The check before the LLM calls and the charges after them are not atomic, but a key
\* overshoots its limit by no more than what the runs that the slots hold can spend,
\* however often runs die, fail, or are run again.
THEOREM Overshoot == Spec => []OvershootBounded
<1>1. Spec => []SlotsKept
    BY InitOvershoot, NextSlots, Invariance, PTL DEF Spec
<1>2. Spec => []OvershootInv
    BY <1>1, InitOvershoot, NextOvershoot, Invariance, PTL DEF Spec
<1>3. IInv /\ SlotsKept /\ OvershootInv => OvershootBounded
    <2> SUFFICES ASSUME IInv, SlotsKept, OvershootInv, KeyLimit > 0, NEW k \in Keys
                 PROVE  keySpend[k] < KeyLimit + DueBound
        BY DEF OvershootBounded, DueBound
    <2>1. keySpend[k] + SumOf(Due, k) < KeyLimit + DueBound
        BY DEF OvershootInv
    <2>2. keySpend[k] \in Nat /\ SumOf(Due, k) \in Nat /\ DueBound \in Nat /\ KeyLimit \in Nat
        BY DueTypesHold, LimitsAssumption DEF DueTypes, IInv, TypeOK
    <2> QED BY <2>1, <2>2
<1> QED BY <1>1, <1>2, <1>3, Invariance, PTL
=============================================================================
