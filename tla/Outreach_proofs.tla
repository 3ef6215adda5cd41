-------------------------- MODULE Outreach_proofs ---------------------------
(***************************************************************************)
(* The service for any number of clients, jobs and runs: it keeps to       *)
(* Submission, Worker and ResultBoard, and what clients read and rate      *)
(* agrees.                                                                 *)
(***************************************************************************)
EXTENDS Outreach, Submission_proofs

-----------------------------------------------------------------------------
(* The service is composed of its parts *)

\* Each step is one of the submission path, or leaves its variables alone.
LEMMA StepIsSubmissions == [ServiceNext]_svars => [Next]_vars
<1> SUFFICES ASSUME [ServiceNext]_svars PROVE Next \/ UNCHANGED vars
    OBVIOUS
<1>1. CASE Submit
    BY <1>1 DEF Submit, Next
<1>2. CASE NewCounters
    BY <1>2 DEF NewCounters, Next
<1>3. ASSUME NEW j \in Requests, Run(j) \/ Crash(j) \/ Vanish(j) PROVE UNCHANGED vars
    BY <1>3 DEF Run, StartRun, Withdraw, Pay, Notify, Complete, FailRun, EndRun, Crash, Vanish
<1>4. ASSUME NEW r \in Requests, Poll(r) \/ CheckRated(r) \/ InsertRating(r)
      PROVE  UNCHANGED vars
    BY <1>4 DEF Poll, CheckRated, InsertRating
<1>5. CASE UNCHANGED svars
    BY <1>5 DEF svars
<1> QED BY <1>1, <1>2, <1>3, <1>4, <1>5 DEF ServiceNext, ServiceStep

\* What is proved of Submission holds in the service.
THEOREM RefinesSubmission == ServiceSpec => Spec
<1>1. ServiceInit => Init
    BY DEF ServiceInit
<1> QED BY <1>1, StepIsSubmissions, PTL DEF ServiceSpec, Spec

\* Each step is one of the board, or leaves it alone.
LEMMA StepIsBoards == [ServiceNext]_svars => [Board!Next]_(Board!vars)
<1> SUFFICES ASSUME [ServiceNext]_svars PROVE Board!Next \/ UNCHANGED boardVars
    BY DEF Board!vars, boardVars
<1>1. CASE Submit \/ NewCounters \/ UNCHANGED svars
    BY <1>1 DEF Submit, NewCounters, svars, serviceVars, rowVars
<1>2. ASSUME NEW j \in Requests, Run(j) \/ Crash(j) \/ Vanish(j)
      PROVE  Board!Next \/ UNCHANGED boardVars
    <2>1. \/ Board!Begin(j) \/ Board!Withdraw(j) \/ Board!Publish(j) \/ Board!Fail(j)
          \/ UNCHANGED boardVars
        BY <1>2 DEF Run, StartRun, Withdraw, Pay, Notify, Complete, FailRun, EndRun, Crash,
                    Vanish, rowVars
    <2> QED BY <2>1 DEF Board!Next
<1>3. ASSUME NEW r \in Requests, Poll(r) \/ CheckRated(r) \/ InsertRating(r)
      PROVE  UNCHANGED boardVars
    BY <1>3 DEF Poll, CheckRated, InsertRating, rowVars
<1> QED BY <1>1, <1>2, <1>3 DEF ServiceNext, ServiceStep

\* The readers of the whole service see a ResultBoard.
THEOREM ServiceRefinesBoard == ServiceSpec => Board!Spec
<1>1. ServiceInit => Board!Init
    BY DEF ServiceInit
<1> QED BY <1>1, StepIsBoards, PTL DEF ServiceSpec, Board!Spec

-----------------------------------------------------------------------------
(* The inductive invariant *)

\* A run has settled what the row shows.
Settled(j) == board[j] # Board!Open \/ Completed(j)

\* A job is completed by a run that has begun, and until a worker dies a row that is
\* settled is left alone.
RowFits(j) ==
    /\ completion[j].of <= tries[j]
    /\ (crashes = 0 /\ Settled(j)) => phase[j] \in {"ended", "finished"}

\* A client read its own job's page, and until a worker dies it still shows.
SeenFits(r) ==
    /\ seen[r] # NotFound
    /\ Verdict(seen[r]) => Answered(r)
    /\ (crashes = 0 /\ Verdict(seen[r])) => seen[r] = Page(job[r])

\* A checked job was completed by the run that was checked.
Rates(j, of) ==
    /\ of \in 1 .. tries[j]
    /\ crashes = 0 => completion[j].of = of
RatingFits(r) == rating[r].at # "none" => Answered(r) /\ Rates(job[r], rating[r].of)

ServiceInv ==
    /\ IInv
    /\ ServiceTypes
    /\ \A r \in Requests : RowFits(r) /\ SeenFits(r) /\ RatingFits(r)
    /\ RatingsAreOfCompletions

\* Nothing is shown, read or rated.
LEMMA InitServiceInv == ServiceInit => ServiceInv
<1> SUFFICES ASSUME ServiceInit PROVE ServiceInv
    OBVIOUS
<1>1. IInv
    BY InitIInv DEF ServiceInit
<1>2. ServiceTypes
    <2>1. board \in [Requests -> Pages] /\ seen \in [Requests -> Pages \cup {NotFound}]
        BY DEF ServiceInit, Board!Init, Pages
    <2>2. 0 \in 0 .. MaxTries /\ 0 \in 0 .. MaxCrashes
        BY ServiceAssumption
    <2>3. rating \in [Requests -> [at : {"none", "checked", "done"}, of : 0 .. MaxTries]]
        BY <2>2 DEF ServiceInit, NoRating
    <2>4. completion \in [Requests -> [of : 0 .. MaxTries, shows : Renderings]]
        BY <2>2 DEF ServiceInit, NotCompleted, Renderings
    <2> QED BY <2>1, <2>2, <2>3, <2>4 DEF ServiceInit, ServiceTypes, Board!Init
<1>3. ASSUME NEW r \in Requests PROVE RowFits(r) /\ SeenFits(r) /\ RatingFits(r)
    BY DEF ServiceInit, Board!Init, Board!Open, RowFits, SeenFits, RatingFits, NotFound,
           Verdict, NoRating, NotCompleted, Completed, Settled
<1>4. RatingsAreOfCompletions
    BY DEF ServiceInit, RatingsAreOfCompletions
<1> QED BY <1>1, <1>2, <1>3, <1>4 DEF ServiceInv

\* The variables of the clients change in the clients' steps only.
LEMMA ClientsOnly ==
    ASSUME [ServiceNext]_svars
    PROVE  \/ UNCHANGED clientVars
           \/ \E r \in Requests : Poll(r) \/ CheckRated(r) \/ InsertRating(r)
BY DEF ServiceNext, ServiceStep, Submit, NewCounters, Run, StartRun, Withdraw, Pay, Notify,
       Complete, FailRun, EndRun, Crash, Vanish, svars, serviceVars

\* An answer names a row.
LEMMA AnsweredHaveRows ==
    ASSUME IInv, NEW r \in Requests, Answered(r)
    PROVE  job[r] \in Requests /\ Row(r) # {}
<1>1. JobRow(job[r], key[r]) \in jobs
    BY DEF IInv, RepliesAreFinal, HasRow
<1>2. jobs \subseteq [id : Requests, key : Keys]
    BY DEF IInv, Typed, TypeOK
<1>3. JobRow(job[r], key[r]).id = job[r]
    BY DEF JobRow
<1> QED BY <1>1, <1>2, <1>3 DEF Row

\* An answer is final, and so is the job it names.
LEMMA AnswersStay ==
    ASSUME IInv, [Next]_vars, NEW r \in Requests, Answered(r)
    PROVE  Answered(r)' /\ job'[r] = job[r] /\ key'[r] = key[r]
<1> USE DEF IInv, Typed, TypeOK, Answered
<1>1. pc[r] = "done"
    BY DEF RepliesAreFinal
<1>2. ASSUME NEW s \in Requests, Handle(s) \/ Fault(s) \/ \E p \in Prospects : Receive(s, p)
      PROVE  reply'[r] = reply[r] /\ job'[r] = job[r] /\ key'[r] = key[r]
    <2>1. s # r
        BY <1>1, <1>2 DEF Handle, Lookup, LoadCached, InsertJob, SetIdempotency, Remember,
                          Enqueue, Respond, Fault, InFlight, Receive
    <2> QED
        BY <1>2, <2>1 DEF Handle, Lookup, LoadCached, InsertJob, SetIdempotency, Remember,
                          Enqueue, Respond, Fault, Receive, Answer
<1>3. CASE RedisLoss \/ Tick \/ UNCHANGED vars
    BY <1>3 DEF RedisLoss, Tick, vars
<1> QED BY <1>2, <1>3 DEF Next

-----------------------------------------------------------------------------
(* Every step preserves it *)

\* What GET answers of a row is a page; of a row that no run has settled it is not a
\* verdict.
LEMMA PagesOfRows ==
    ASSUME ServiceTypes, NEW j \in Requests
    PROVE  /\ Page(j) \in Pages /\ Page(j) # NotFound
           /\ Verdict(Page(j)) => Settled(j)
<1>1. board[j] \in Pages /\ completion[j].of \in 0 .. MaxTries
    BY DEF ServiceTypes
<1>2. Page(j) \in Pages
    <2>1. CASE Unreadable(j)
        <3>1. Page(j) = ServerError
            BY <2>1 DEF Page, Unreadable, Completed
        <3> QED BY <3>1 DEF Pages
    <2>2. CASE ~Unreadable(j) /\ Completed(j) /\ completion[j].shows = "nothing"
        <3>1. completion[j].of \in 1 .. MaxTries
            BY <1>1, <2>2, ServiceAssumption DEF Completed
        <3>2. Page(j) = Empty(completion[j].of)
            BY <2>2 DEF Page
        <3> QED BY <3>1, <3>2 DEF Pages
    <2>3. CASE ~Unreadable(j) /\ ~(Completed(j) /\ completion[j].shows = "nothing")
        BY <1>1, <2>3 DEF Page
    <2> QED BY <2>1, <2>2, <2>3
<1>3. NotFound \notin Pages
    BY DEF Pages, NotFound, ServerError, Empty, Board!Open, Board!Failure, Board!Result
<1>4. ~Settled(j) => Page(j) = Board!Open
    BY DEF Settled, Page, Unreadable
<1>5. ~Verdict(Board!Open)
    BY DEF Verdict, Board!Open
<1> QED BY <1>2, <1>3, <1>4, <1>5

\* The types, step by step.
LEMMA NextTypes == ServiceInv /\ [ServiceNext]_svars => ServiceTypes'
<1> SUFFICES ASSUME ServiceInv, ServiceTypes, IInv, [ServiceNext]_svars PROVE ServiceTypes'
    BY DEF ServiceInv
<1> USE DEF ServiceTypes, Step, rowVars, boardVars, clientVars, lostRuns, Active
<1>1. CASE Submit \/ UNCHANGED svars
    BY <1>1 DEF Submit, svars, serviceVars
<1>2. CASE NewCounters
    BY <1>2 DEF NewCounters
<1>3. ASSUME NEW j \in Requests, StartRun(j) PROVE ServiceTypes'
    <2>1. tries' = [tries EXCEPT ![j] = @ + 1] /\ tries[j] + 1 \in 0 .. MaxTries
        BY <1>3, ServiceAssumption DEF StartRun, Board!Begin
    <2> QED BY <1>3, <2>1 DEF StartRun, Board!Begin
<1>4. ASSUME NEW j \in Requests, Withdraw(j) \/ Complete(j) \/ FailRun(j) PROVE ServiceTypes'
    <2>1. PICK page : board' = [board EXCEPT ![j] = page] /\ page \in Pages
        <3>1. CASE Withdraw(j)
            BY <1>4, <3>1 DEF Withdraw, Board!Withdraw, Pages
        <3>2. CASE FailRun(j)
            BY <1>4, <3>2 DEF FailRun, Board!Fail, Pages
        <3>3. CASE Complete(j) /\ Board!Publish(j)
            <4>1. tries[j] \in 1 .. MaxTries
                BY <3>3, ServiceAssumption DEF Board!Publish
            <4>2. Board!Result(tries[j]) \in Pages
                BY <4>1 DEF Pages
            <4> QED BY <3>3, <4>2 DEF Board!Publish
        <3>4. CASE Complete(j) /\ UNCHANGED boardVars
            <4>1. board' = [board EXCEPT ![j] = board[j]] /\ board[j] \in Pages
                BY <3>4
            <4> QED BY <4>1
        <3> QED BY <1>4, <3>1, <3>2, <3>3, <3>4 DEF Complete
    <2>2. \E c \in [of : 0 .. MaxTries, shows : Renderings] :
             completion' = [completion EXCEPT ![j] = c]
        <3>1. CASE Withdraw(j) \/ FailRun(j)
            <4>1. NotCompleted \in [of : 0 .. MaxTries, shows : Renderings]
                BY ServiceAssumption DEF NotCompleted, Renderings
            <4> QED BY <3>1, <4>1 DEF Withdraw, FailRun
        <3>2. CASE Complete(j)
            BY <3>2 DEF Complete
        <3> QED BY <1>4, <3>1, <3>2
    <2>3. /\ UNCHANGED <<tries, told, blocked, clientVars, lostRuns>>
          /\ \E to \in {"running", "ended"} : phase' = [phase EXCEPT ![j] = to]
        BY <1>4 DEF Withdraw, Complete, FailRun, Board!Withdraw, Board!Publish, Board!Fail
    <2> QED BY <2>1, <2>2, <2>3
<1>5. ASSUME NEW j \in Requests, Pay(j) \/ Notify(j) \/ EndRun(j) PROVE ServiceTypes'
    BY <1>5 DEF Pay, Notify, EndRun
<1>6. ASSUME NEW j \in Requests, Crash(j) PROVE ServiceTypes'
    <2>1. crashes' \in 0 .. MaxCrashes
        BY <1>6, ServiceAssumption DEF Crash
    <2> QED BY <1>6, <2>1 DEF Crash
<1>7. ASSUME NEW j \in Requests, Vanish(j) PROVE ServiceTypes'
    <2>1. vanished' \in 0 .. MaxCrashes
        BY <1>7, ServiceAssumption DEF Vanish
    <2> QED BY <1>7, <2>1 DEF Vanish
<1>8. ASSUME NEW r \in Requests, Poll(r) PROVE ServiceTypes'
    <2>1. Row(r) # {} => job[r] \in Requests
        BY DEF Row, IInv, Typed, TypeOK
    <2>2. PICK page \in Pages \cup {NotFound} : seen' = [seen EXCEPT ![r] = page]
        <3>1. CASE Row(r) = {}
            BY <1>8, <3>1 DEF Poll
        <3>2. CASE Row(r) # {}
            <4>1. Page(job[r]) \in Pages
                BY <2>1, <3>2, PagesOfRows
            <4> QED BY <1>8, <3>2, <4>1 DEF Poll
        <3> QED BY <3>1, <3>2
    <2> QED BY <1>8, <2>2 DEF Poll
<1>9. ASSUME NEW r \in Requests, CheckRated(r) PROVE ServiceTypes'
    <2>1. job[r] \in Requests
        BY <1>9 DEF CheckRated, Row, IInv, Typed, TypeOK
    <2>2. completion[job[r]].of \in 0 .. MaxTries
        BY <2>1
    <2> QED BY <1>9, <2>2 DEF CheckRated
<1>10. ASSUME NEW r \in Requests, InsertRating(r) PROVE ServiceTypes'
    <2>1. Answered(r)
        BY <1>10 DEF InsertRating, RatingFits, ServiceInv
    <2>2. job[r] \in Requests
        BY <2>1, AnsweredHaveRows
    <2> QED BY <1>10, <2>2 DEF InsertRating
<1> QED BY <1>1, <1>2, <1>3, <1>4, <1>5, <1>6, <1>7, <1>8, <1>9, <1>10
        DEF ServiceNext, ServiceStep, Run

\* Until a worker dies a settled row stays; and no run is taken back.
LEMMA RowsSettle ==
    ASSUME ServiceInv, [ServiceNext]_svars, NEW j \in Requests
    PROVE  /\ tries'[j] >= tries[j]
           /\ crashes' = 0 => crashes = 0
           /\ RowFits(j)'
           /\ (crashes' = 0 /\ Settled(j)) =>
                 board'[j] = board[j] /\ completion'[j] = completion[j]
<1> USE DEF ServiceInv, ServiceTypes, RowFits, Settled, Completed, Step, Active, rowVars,
            boardVars, clientVars, lostRuns
<1>1. CASE Submit \/ UNCHANGED svars
    BY <1>1 DEF Submit, svars, serviceVars
<1>2. CASE NewCounters
    BY <1>2 DEF NewCounters
<1>3. ASSUME NEW k \in Requests, StartRun(k)
      PROVE  /\ tries'[j] >= tries[j] /\ RowFits(j)'
             /\ UNCHANGED <<board, completion, crashes>>
    <2>1. /\ tries' = [tries EXCEPT ![k] = @ + 1]
          /\ UNCHANGED <<board, completion, crashes>>
        BY <1>3 DEF StartRun, Board!Begin
    <2>2. phase[k] = "idle" /\ phase' = [phase EXCEPT ![k] = "begun"]
        BY <1>3 DEF StartRun
    <2>3. tries[j] \in Nat /\ completion[j].of \in Nat /\ tries'[j] \in {tries[j], tries[j] + 1}
        BY <2>1, ServiceAssumption
    <2>4. completion[j].of <= tries'[j] /\ tries'[j] >= tries[j]
        BY <2>3
    <2>5. (crashes = 0 /\ Settled(j)) => phase'[j] \in {"ended", "finished"}
        BY <2>2
    <2> QED BY <2>1, <2>4, <2>5
<1>4. ASSUME NEW k \in Requests, Withdraw(k) \/ Complete(k) \/ FailRun(k)
      PROVE  /\ UNCHANGED <<tries, crashes>> /\ RowFits(j)'
             /\ (crashes = 0 /\ Settled(j)) =>
                   board'[j] = board[j] /\ completion'[j] = completion[j]
    <2>1. UNCHANGED <<tries, crashes>>
        BY <1>4 DEF Withdraw, Complete, FailRun, Board!Withdraw, Board!Publish, Board!Fail
    <2>2. phase[k] \in {"begun", "running", "paid", "notified"}
        BY <1>4 DEF Withdraw, Complete, FailRun
    <2>3. CASE k # j
        <3>1. /\ board'[j] = board[j] /\ completion'[j] = completion[j]
              /\ phase'[j] = phase[j]
            BY <1>4, <2>3
               DEF Withdraw, Complete, FailRun, Board!Withdraw, Board!Publish, Board!Fail
        <3> QED BY <2>1, <3>1
    <2>4. CASE k = j /\ (Withdraw(j) \/ FailRun(j))
        <3>1. completion'[j] = NotCompleted
            BY <2>4 DEF Withdraw, FailRun
        <3>2. Withdraw(j) => board'[j] = Board!Open
            BY DEF Withdraw, Board!Withdraw
        <3>3. FailRun(j) => phase'[j] = "ended"
            BY DEF FailRun
        <3>4. NotCompleted.of = 0 /\ tries[j] \in Nat
            BY ServiceAssumption DEF NotCompleted
        <3> QED BY <2>1, <2>2, <2>4, <3>1, <3>2, <3>3, <3>4
    <2>5. CASE k = j /\ Complete(j)
        <3>1. completion'[j].of = tries[j] /\ phase'[j] = "ended"
            BY <2>5 DEF Complete
        <3>2. tries[j] <= tries[j]
            BY ServiceAssumption
        <3> QED BY <2>1, <2>2, <2>5, <3>1, <3>2
    <2>6. k # j \/ (k = j /\ (Withdraw(j) \/ FailRun(j))) \/ (k = j /\ Complete(j))
        BY <1>4
    <2> QED BY <2>1, <2>3, <2>4, <2>5, <2>6
<1>5. ASSUME NEW k \in Requests, Pay(k) \/ Notify(k) \/ EndRun(k) \/ Vanish(k)
      PROVE  UNCHANGED <<tries, board, completion, crashes>> /\ RowFits(j)'
    <2>1. UNCHANGED <<tries, board, completion, crashes>>
        BY <1>5 DEF Pay, Notify, EndRun, Vanish
    <2>2. \/ phase'[j] = phase[j]
          \/ phase'[j] \in {"ended", "finished"}
          \/ phase[j] \in {"running", "paid"}
        BY <1>5 DEF Pay, Notify, EndRun, Vanish
    <2> QED BY <2>1, <2>2
<1>6. ASSUME NEW k \in Requests, Crash(k)
      PROVE  UNCHANGED <<tries, board, completion>> /\ crashes' # 0
    BY <1>6, ServiceAssumption DEF Crash
<1>7. ASSUME NEW r \in Requests, Poll(r) \/ CheckRated(r) \/ InsertRating(r)
      PROVE  UNCHANGED <<tries, board, completion, phase, crashes>>
    BY <1>7 DEF Poll, CheckRated, InsertRating
<1>8. tries[j] \in Nat
    BY ServiceAssumption
<1> QED BY <1>1, <1>2, <1>3, <1>4, <1>5, <1>6, <1>7, <1>8 DEF ServiceNext, ServiceStep, Run

\* What was true of a checked job stays true of it.
LEMMA RatesStay ==
    ASSUME ServiceInv, [ServiceNext]_svars, NEW j \in Requests, NEW of, Rates(j, of)
    PROVE  Rates(j, of)'
<1>1. /\ tries[j] \in Nat /\ tries'[j] \in Nat /\ tries'[j] >= tries[j]
      /\ crashes' = 0 => crashes = 0
      /\ (crashes' = 0 /\ Settled(j)) => completion'[j] = completion[j]
    BY RowsSettle, NextTypes, ServiceAssumption DEF ServiceInv, ServiceTypes
<1>2. crashes = 0 => Settled(j)
    BY ServiceAssumption DEF Rates, Settled, Completed
<1>3. of \in 1 .. tries'[j]
    BY <1>1 DEF Rates
<1> QED BY <1>1, <1>2, <1>3 DEF Rates

\* Every step of a handler, a worker, a client, the clock or a failing store
\* preserves it.
LEMMA NextServiceInv == ServiceInv /\ [ServiceNext]_svars => ServiceInv'
<1> SUFFICES ASSUME ServiceInv, [ServiceNext]_svars PROVE ServiceInv'
    OBVIOUS
<1>1. IInv'
    BY StepIsSubmissions, NextIInv DEF ServiceInv
<1>2. ServiceTypes'
    BY NextTypes
<1>3. ASSUME NEW r \in Requests, Answered(r) PROVE Answered(r)' /\ job'[r] = job[r]
    BY <1>3, StepIsSubmissions, AnswersStay DEF ServiceInv
<1>4. ASSUME NEW r \in Requests PROVE SeenFits(r)'
    <2>1. CASE seen'[r] = seen[r]
        <3>1. SeenFits(r) /\ (crashes' = 0 => crashes = 0)
            BY RowsSettle DEF ServiceInv
        <3>2. ASSUME Verdict(seen[r]), crashes' = 0 PROVE seen[r] = Page(job[r])'
            <4>1. Answered(r) /\ seen[r] = Page(job[r])
                BY <3>1, <3>2 DEF SeenFits
            <4>2. PICK j \in Requests : j = job[r]
                BY <4>1, AnsweredHaveRows DEF ServiceInv
            <4>3. Settled(j)
                BY <3>2, <4>1, <4>2, PagesOfRows DEF ServiceInv
            <4>4. board'[j] = board[j] /\ completion'[j] = completion[j]
                BY <3>2, <4>3, RowsSettle
            <4>5. Page(j)' = Page(j)
                BY <4>4 DEF Page, Unreadable, Completed
            <4>6. job'[r] = j
                BY <1>3, <4>1, <4>2
            <4> QED BY <4>1, <4>2, <4>5, <4>6 DEF Page, Unreadable, Completed
        <3>3. (Verdict(seen[r]))' <=> Verdict(seen[r])
            BY <2>1 DEF Verdict
        <3> QED BY <1>3, <2>1, <3>1, <3>2, <3>3 DEF SeenFits
    <2>2. CASE seen'[r] # seen[r]
        <3>1. Poll(r)
            BY <2>2, ClientsOnly DEF clientVars, Poll, CheckRated, InsertRating,
                                     ServiceInv, ServiceTypes
        <3>2. Answered(r) /\ Row(r) # {} /\ job[r] \in Requests
            BY <3>1, AnsweredHaveRows DEF Poll, ServiceInv
        <3>3. seen'[r] = Page(job[r]) /\ UNCHANGED <<board, completion, job>>
            BY <3>1, <3>2 DEF Poll, ServiceInv, ServiceTypes, rowVars, boardVars, vars
        <3>4. Page(job[r]) # NotFound
            BY <3>2, PagesOfRows DEF ServiceInv
        <3>5. Page(job[r])' = Page(job[r])
            BY <3>3 DEF Page, Unreadable, Completed
        <3> QED BY <1>3, <3>2, <3>3, <3>4, <3>5 DEF SeenFits
    <2> QED BY <2>1, <2>2
<1>5. ASSUME NEW r \in Requests PROVE RatingFits(r)'
    <2>1. CASE rating'[r].at = "none"
        BY <2>1 DEF RatingFits
    <2>2. CASE rating[r].at # "none" /\ rating'[r].of = rating[r].of
        <3>1. Answered(r) /\ Rates(job[r], rating[r].of)
            BY <2>2 DEF ServiceInv, RatingFits
        <3>2. job[r] \in Requests
            BY <3>1, AnsweredHaveRows DEF ServiceInv
        <3>3. PICK j \in Requests : j = job[r]
            BY <3>2
        <3>4. PICK of : of = rating[r].of
            OBVIOUS
        <3>5. Rates(j, of)'
            BY <3>1, <3>3, <3>4, RatesStay
        <3>6. Answered(r)' /\ job'[r] = j /\ rating'[r].of = of
            BY <1>3, <2>2, <3>1, <3>3, <3>4
        <3> QED BY <3>5, <3>6 DEF RatingFits, Rates
    <2>3. CASE CheckRated(r)
        <3>1. /\ completion[job[r]].of # 0 /\ UNCHANGED <<completion, tries, crashes>>
              /\ rating'[r].of = completion[job[r]].of
            BY <2>3 DEF CheckRated, Completed, rowVars, boardVars, lostRuns, ServiceInv,
                        ServiceTypes
        <3>2. Answered(r)
            BY <2>3 DEF CheckRated, Informed, Told, Subscribed, Answered, ServiceInv, SeenFits
        <3>3. job[r] \in Requests /\ Answered(r)' /\ job'[r] = job[r]
            BY <1>3, <3>2, AnsweredHaveRows DEF ServiceInv
        <3>4. /\ completion[job[r]].of \in 0 .. MaxTries /\ tries[job[r]] \in 0 .. MaxTries
              /\ completion[job[r]].of <= tries[job[r]]
            BY <3>3 DEF ServiceInv, ServiceTypes, RowFits
        <3>5. completion[job[r]].of \in 1 .. tries[job[r]]
            BY <3>1, <3>4, ServiceAssumption
        <3> QED BY <3>1, <3>3, <3>5 DEF RatingFits, Rates
    <2>4. \/ rating'[r].at = "none" \/ CheckRated(r)
          \/ rating[r].at # "none" /\ rating'[r].of = rating[r].of
        <3>1. CASE UNCHANGED clientVars
            BY <3>1 DEF clientVars
        <3>2. ASSUME NEW s \in Requests, Poll(s) \/ CheckRated(s) \/ InsertRating(s)
              PROVE  \/ CheckRated(r) \/ rating'[r] = rating[r]
                     \/ rating[r].at # "none" /\ rating'[r].of = rating[r].of
            BY <3>2 DEF Poll, CheckRated, InsertRating, ServiceInv, ServiceTypes
        <3> QED BY <3>1, <3>2, ClientsOnly
    <2> QED BY <2>1, <2>2, <2>3, <2>4
<1>6. RatingsAreOfCompletions'
    <2> SUFFICES ASSUME NEW f \in feedback' PROVE Rates(f.job, f.of)'
        BY DEF RatingsAreOfCompletions, Rates
    <2>1. CASE f \in feedback
        <3>1. f.job \in Requests /\ Rates(f.job, f.of)
            BY <2>1 DEF ServiceInv, ServiceTypes, RatingsAreOfCompletions, Rates
        <3> QED BY <3>1, RatesStay
    <2>2. CASE f \notin feedback
        <3>1. PICK r \in Requests : InsertRating(r)
            BY <2>2, ClientsOnly DEF clientVars, Poll, CheckRated
        <3>2. /\ f.job = job[r] /\ f.of = rating[r].of
              /\ UNCHANGED <<tries, completion, crashes>> /\ rating[r].at # "none"
            BY <2>2, <3>1 DEF InsertRating, rowVars, boardVars, lostRuns
        <3>3. Rates(job[r], rating[r].of)
            BY <3>2 DEF ServiceInv, RatingFits
        <3> QED BY <3>2, <3>3 DEF Rates
    <2> QED BY <2>1, <2>2
<1>7. ASSUME NEW r \in Requests PROVE RowFits(r)'
    BY RowsSettle
<1> QED BY <1>1, <1>2, <1>4, <1>5, <1>6, <1>7 DEF ServiceInv

-----------------------------------------------------------------------------
(* The theorems *)

\* The invariant holds in every reachable state.
THEOREM ServiceInvariance == ServiceSpec => []ServiceInv
BY InitServiceInv, NextServiceInv, PTL DEF ServiceSpec

\* Every variable of the service keeps its type.
THEOREM ServiceTypesCorrect == ServiceSpec => []ServiceTypes
<1>1. ServiceInv => ServiceTypes
    BY DEF ServiceInv
<1> QED BY <1>1, ServiceInvariance, PTL

\* The workers of the service, which keep to what Pipeline implements.
Workers == INSTANCE Worker WITH Jobs <- Requests, attempt <- tries

\* Each step is one of Worker, or leaves the workers alone.
LEMMA StepIsWorkers ==
    ServiceTypes /\ [ServiceNext]_svars => [Workers!WorkerNext]_(Workers!workerVars)
<1> SUFFICES ASSUME ServiceTypes, [ServiceNext]_svars
             PROVE  Workers!WorkerNext \/ UNCHANGED Workers!workerVars
    OBVIOUS
<1>1. CASE Submit \/ NewCounters \/ UNCHANGED svars
    BY <1>1 DEF Submit, NewCounters, svars, serviceVars, rowVars, boardVars, Workers!workerVars
<1>2. ASSUME NEW j \in Requests, Run(j) \/ Crash(j) \/ Vanish(j)
      PROVE  Workers!WorkerNext
    <2>1. phase'[j] # phase[j]
        BY <1>2 DEF Run, StartRun, Withdraw, Pay, Notify, Complete, FailRun, EndRun, Crash,
                    Vanish, Step, Active, ServiceTypes
    <2>2. Workers!WorkerStep(j)
        <3>1. CASE StartRun(j)
            BY <3>1 DEF StartRun, Step, Workers!WorkerStep, Workers!BeginRun, Workers!Go,
                        Board!Begin, Workers!Begin
        <3>2. CASE Withdraw(j)
            BY <3>2 DEF Withdraw, Step, Workers!WorkerStep, Workers!TakeOver, Workers!Go,
                        Board!Withdraw, Board!Open, Workers!Withdraw, Workers!Open
        <3>3. CASE Pay(j)
            BY <3>3 DEF Pay, Step, rowVars, boardVars, Workers!WorkerStep, Workers!Pay, Workers!Go
        <3>4. CASE Notify(j)
            BY <3>4 DEF Notify, Step, rowVars, boardVars, Workers!WorkerStep,
                        Workers!Notify, Workers!Go
        <3>5. CASE Complete(j)
            <4>1. Board!Publish(j) \/ UNCHANGED boardVars
                BY <3>5 DEF Complete
            <4>2. Workers!Publish(j) \/ UNCHANGED <<tries, board>>
                BY <4>1 DEF boardVars, Board!Publish, Board!Open, Board!Result,
                            Workers!Publish, Workers!Open, Workers!Result
            <4>3. Workers!Complete(j)
                BY <3>5, <4>2 DEF Complete, Step, Workers!Complete, Workers!Go
            <4> QED BY <4>3 DEF Workers!WorkerStep
        <3>6. CASE FailRun(j)
            BY <3>6 DEF FailRun, Step, Workers!WorkerStep, Workers!FailRun, Workers!Go,
                        Board!Fail, Board!Failure, Workers!Fail, Workers!Failure
        <3>7. CASE EndRun(j)
            BY <3>7 DEF EndRun, Step, rowVars, boardVars, Workers!WorkerStep,
                        Workers!EndRun, Workers!Go
        <3>8. CASE Crash(j) \/ Vanish(j)
            <4>1. Workers!Lose(j)
                BY <3>8 DEF Crash, Vanish, Step, Active, rowVars, boardVars, Workers!Lose,
                            Workers!Go
            <4> QED BY <4>1 DEF Workers!WorkerStep
        <3> QED BY <1>2, <3>1, <3>2, <3>3, <3>4, <3>5, <3>6, <3>7, <3>8 DEF Run
    <2> QED BY <2>1, <2>2 DEF Workers!WorkerNext
<1>3. ASSUME NEW r \in Requests, Poll(r) \/ CheckRated(r) \/ InsertRating(r)
      PROVE  UNCHANGED Workers!workerVars
    BY <1>3 DEF Poll, CheckRated, InsertRating, rowVars, boardVars, Workers!workerVars
<1> QED BY <1>1, <1>2, <1>3 DEF ServiceNext, ServiceStep

\* The workers that the clients of the service meet keep to Worker, as Pipeline does.
THEOREM ServiceRefinesWorker == ServiceSpec => Workers!WorkerSpec
<1>1. ServiceInit => Workers!WorkerInit
    BY DEF ServiceInit, Board!Init, Board!Open, Workers!WorkerInit, Workers!Init,
           Workers!Open
<1> QED BY <1>1, StepIsWorkers, ServiceTypesCorrect, PTL DEF ServiceSpec, Workers!WorkerSpec

\* Whoever was answered with a job finds it, and the clients of a prospect and
\* week read one verdict until a worker dies, for any number of clients.
THEOREM Readers == ServiceSpec => []ReadersAgree
<1>1. ServiceInv => ReadersAgree
    <2> SUFFICES ASSUME ServiceInv, NEW r \in Requests, crashes = 0, NEW s \in Requests,
                        key[r] = key[s], Verdict(seen[r]), Verdict(seen[s])
                 PROVE  job[r] = job[s] /\ seen[r] = seen[s]
        BY DEF ServiceInv, SeenFits, ReadersAgree
    <2>1. /\ Answered(r) /\ seen[r] = Page(job[r])
          /\ Answered(s) /\ seen[s] = Page(job[s])
        BY DEF ServiceInv, SeenFits
    <2>2. job[r] = job[s]
        BY <2>1 DEF ServiceInv, IInv, RepliesAreFinal, KeysUnique, HasRow, JobRow
    <2> QED BY <2>1, <2>2
<1> QED BY <1>1, ServiceInvariance, PTL

\* A rating is of a completion by a run that has begun, and until a worker dies of
\* the one that the row holds, for any steps between the check and the insert of the
\* handler.
THEOREM Ratings == ServiceSpec => []RatingsAreOfCompletions
<1>1. ServiceInv => RatingsAreOfCompletions
    BY DEF ServiceInv
<1> QED BY <1>1, ServiceInvariance, PTL
=============================================================================
