--------------------------- MODULE Traces_proofs ----------------------------
(***************************************************************************)
(* What the traces are worth, for any number of jobs, stages, runs, kills  *)
(* and failing writes.                                                     *)
(***************************************************************************)
EXTENDS Traces, FiniteSetTheorems, TLAPS

-----------------------------------------------------------------------------
(* The inductive invariant *)

\* A line is of a run that has begun and of a stage that it has left.
LinesFit(j) ==
    \A line \in file \cup missed :
        line.job = j =>
            /\ line.try <= tries[j]
            /\ line.try = tries[j] =>
                  line.stage <= stage[j] /\ (at[j] = "inside" => line.stage < stage[j])

\* The line of the stage that is being committed is out; no row is ahead of it.
RowsFollow(j) ==
    at[j] = "commit" => tries[j] > 0 /\ Entry(j, ended[j]) \in file \cup missed

Traced(j, try, n) ==
    \E t \in db : t.job = j /\ t.try = try /\ t.stage = n /\ t.success

\* A run got where it is by stages that are traced as successes.
StagesTraced(j) ==
    /\ at[j] \in {"inside", "commit"} =>
          \A n \in 1 .. Stages : n < stage[j] => Traced(j, tries[j], n)
    /\ at[j] \in {"between", "completing"} =>
          \A n \in 1 .. Stages : n <= stage[j] => Traced(j, tries[j], n)
    /\ at[j] = "completing" => stage[j] = Stages

\* A failed line is the last of its run.
FailuresAreLast(j) ==
    \A line \in file :
        (line.job = j /\ line.try = tries[j] /\ ~line.success) =>
            \/ at[j] = "commit" /\ ended[j] = "raised"
            \/ at[j] \in {"failing", "settled", "finished", "queued"}

\* A verdict of the latest run is its end.
VerdictsAreLast(j) ==
    /\ row[j].by <= tries[j]
    /\ (row[j].verdict = "COMPLETED" /\ row[j].by = tries[j]) =>
          at[j] \in {"settled", "finished", "queued"}

\* Costs are in the file before they are held, and held before they are in the row.
CostsFollow(j) == missed = {} => row[j].cost + held[j] <= CostByJob(file, j)

JobInv(j) ==
    /\ at[j] \notin {"queued", "finished"} => tries[j] > 0
    /\ LinesFit(j) /\ RowsFollow(j) /\ StagesTraced(j)
    /\ FailuresAreLast(j) /\ VerdictsAreLast(j) /\ CostsFollow(j)

IInv ==
    /\ TypeOK /\ IsFiniteSet(file)
    /\ \A j \in Jobs : JobInv(j)
    /\ CompletedIsTraced
    /\ db \subseteq file \cup missed

-----------------------------------------------------------------------------
(* Adding up *)

\* The cost of a job is a number.
LEMMA CostIsNat ==
    ASSUME NEW S, IsFiniteSet(S), NEW j PROVE CostByJob(S, j) \in Nat
<1>1. {line \in S : line.job = j /\ line.cost = 1} \subseteq S
    OBVIOUS
<1> QED BY <1>1, FS_Subset, FS_CardinalityType DEF CostByJob

\* A new line adds its cost to its job's, and nothing to the others'.
LEMMA CostOfLine ==
    ASSUME NEW S, IsFiniteSet(S), NEW e, e \notin S, e.cost \in {0, 1}, NEW j
    PROVE  CostByJob(S \cup {e}, j) = CostByJob(S, j) + (IF e.job = j THEN e.cost ELSE 0)
<1> DEFINE Of(T) == {line \in T : line.job = j /\ line.cost = 1}
<1>1. IsFiniteSet(Of(S)) /\ e \notin Of(S) /\ Cardinality(Of(S)) \in Nat
    BY FS_Subset, FS_CardinalityType
<1>2. CASE e.job = j /\ e.cost = 1
    <2>1. Of(S \cup {e}) = Of(S) \cup {e}
        BY <1>2
    <2>2. Cardinality(Of(S) \cup {e}) = Cardinality(Of(S)) + 1
        BY <1>1, FS_AddElement
    <2> QED BY <1>2, <2>1, <2>2 DEF CostByJob
<1>3. CASE ~(e.job = j /\ e.cost = 1)
    <2>1. Of(S \cup {e}) = Of(S)
        BY <1>3
    <2>2. (IF e.job = j THEN e.cost ELSE 0) = 0
        BY <1>3
    <2>3. CostByJob(S \cup {e}, j) = CostByJob(S, j)
        BY <2>1 DEF CostByJob
    <2>4. CostByJob(S, j) \in Nat
        BY CostIsNat
    <2> QED BY <2>2, <2>3, <2>4
<1> QED BY <1>2, <1>3

-----------------------------------------------------------------------------
(* It is inductive *)

\* Nothing has run.
LEMMA InitIInv == Init => IInv
<1> SUFFICES ASSUME Init PROVE IInv
    OBVIOUS
<1>1. TypeOK
    BY TracesAssumption DEF Init, TypeOK
<1>2. IsFiniteSet(file)
    BY FS_EmptySet DEF Init
<1>3. ASSUME NEW j \in Jobs PROVE JobInv(j)
    <2>1. CostByJob(file, j) \in Nat
        BY <1>2, CostIsNat
    <2>2. CostsFollow(j)
        BY <2>1 DEF CostsFollow, Init
    <2> QED BY <2>2 DEF Init, JobInv, LinesFit, RowsFollow, StagesTraced, FailuresAreLast,
                        VerdictsAreLast
<1> QED BY <1>1, <1>2, <1>3 DEF IInv, Init, CompletedIsTraced

\* The types, step by step.
LEMMA NextTypes == IInv /\ [Next]_vars => TypeOK'
<1> SUFFICES ASSUME IInv, [Next]_vars PROVE TypeOK'
    OBVIOUS
<1> USE TracesAssumption DEF TypeOK, Goto
<1>a. TypeOK
    BY DEF IInv
<1>b. ASSUME NEW j \in Jobs, NEW how \in {"done", "raised", "cut"}, tries[j] > 0
      PROVE  Entry(j, how) \in Lines /\ Entry(j, how).cost \in {0, 1}
    BY <1>a, <1>b DEF Entry, Line, Lines
<1>1. ASSUME NEW j \in Jobs, Start(j) PROVE TypeOK'
    <2>1. tries[j] + 1 \in 0 .. MaxTries /\ 1 \in 1 .. Stages
        BY <1>a, <1>1 DEF Start
    <2> QED BY <1>a, <1>1, <2>1 DEF Start
<1>2. ASSUME NEW j \in Jobs, NEW how \in {"done", "raised", "cut"}, LeaveStage(j, how)
      PROVE  TypeOK'
    <2>1. Entry(j, how) \in Lines /\ Entry(j, how).cost \in {0, 1}
        BY <1>b, <1>2 DEF LeaveStage, IInv, JobInv
    <2>2. held[j] + Entry(j, how).cost \in Nat
        BY <1>a, <2>1
    <2> QED BY <1>a, <1>2, <2>1, <2>2 DEF LeaveStage
<1>3. ASSUME NEW j \in Jobs, CommitTrace(j) \/ CommitFails(j) PROVE TypeOK'
    <2>1. Entry(j, ended[j]) \in Lines
        BY <1>a, <1>b, <1>3 DEF CommitTrace, CommitFails, IInv, JobInv
    <2> QED BY <1>a, <1>3, <2>1 DEF CommitTrace, CommitFails
<1>4. ASSUME NEW j \in Jobs, Proceed(j) PROVE TypeOK'
    <2>1. row[j].cost + held[j] \in Nat
        BY <1>a
    <2>2. stage[j] < Stages => stage[j] + 1 \in 1 .. Stages
        BY <1>a
    <2>3. stage' \in [Jobs -> 1 .. Stages] /\ at' \in [Jobs -> {"queued", "inside", "commit",
              "between", "completing", "failing", "settled", "finished"}]
        BY SMTT(30), <1>a, <1>4, <2>2 DEF Proceed
    <2>4. row' \in [Jobs -> [verdict : {"none", "COMPLETED", "FAILED"}, by : 0 .. MaxTries,
                            cost : Nat]] /\ held' \in [Jobs -> Nat]
        <3>1. CASE stage[j] \in Saved
            <4>1. row' = [row EXCEPT ![j].cost = @ + held[j]] /\ held' = [held EXCEPT ![j] = 0]
                BY <1>4, <3>1 DEF Proceed
            <4> QED BY <1>a, <2>1, <4>1
        <3>2. CASE stage[j] \notin Saved
            BY <1>a, <1>4, <3>2 DEF Proceed
        <3> QED BY <3>1, <3>2
    <2> QED BY <1>a, <1>4, <2>3, <2>4 DEF Proceed
<1>5. ASSUME NEW j \in Jobs, StopBetween(j) \/ Finish(j) \/ Kill(j) PROVE TypeOK'
    BY <1>a, <1>5 DEF StopBetween, Finish, Kill
<1>6. ASSUME NEW j \in Jobs, Settle(j) PROVE TypeOK'
    <2>1. PICK verdict \in {"COMPLETED", "FAILED"} :
              row' = [row EXCEPT ![j].verdict = verdict, ![j].by = tries[j]]
        BY <1>6 DEF Settle, Conclude
    <2>2. at' = [at EXCEPT ![j] = "settled"] /\ held' = [held EXCEPT ![j] = 0]
        BY <1>6 DEF Settle, Conclude
    <2>3. row' \in [Jobs -> [verdict : {"none", "COMPLETED", "FAILED"}, by : 0 .. MaxTries,
                            cost : Nat]]
        BY ZenonT(30), <1>a, <2>1
    <2>4. at' \in [Jobs -> {"queued", "inside", "commit", "between", "completing", "failing",
                           "settled", "finished"}] /\ held' \in [Jobs -> Nat]
        BY <1>a, <2>2
    <2> QED BY <1>a, <1>6, <2>3, <2>4 DEF Settle
<1>7. CASE UNCHANGED vars
    BY <1>a, <1>7 DEF vars
<1> QED BY <1>1, <1>2, <1>3, <1>4, <1>5, <1>6, <1>7 DEF Next

\* What is said of one job is not touched by the steps of another.
LEMMA OtherJob ==
    ASSUME IInv, NEW d \in Jobs,
           at'[d] = at[d], stage'[d] = stage[d], tries'[d] = tries[d], ended'[d] = ended[d],
           held'[d] = held[d], row'[d] = row[d],
           file \subseteq file', missed \subseteq missed', db \subseteq db',
           \A line \in (file' \cup missed') \ (file \cup missed) : line.job # d,
           \A line \in file' \ file : line.job # d,
           missed' = {} => CostByJob(file', d) = CostByJob(file, d)
    PROVE  JobInv(d)'
<1>1. JobInv(d)
    BY DEF IInv
<1>2. LinesFit(d)' /\ FailuresAreLast(d)'
    BY <1>1 DEF JobInv, LinesFit, FailuresAreLast
<1>3. RowsFollow(d)'
    BY <1>1 DEF JobInv, RowsFollow, Entry, Line
<1>4. StagesTraced(d)'
    BY <1>1 DEF JobInv, StagesTraced, Traced
<1>5. VerdictsAreLast(d)' /\ CostsFollow(d)'
    BY <1>1 DEF JobInv, VerdictsAreLast, CostsFollow
<1> QED BY <1>1, <1>2, <1>3, <1>4, <1>5 DEF JobInv

\* A body ends: its line is new, and carries the cost that is held from now on.
LEMMA LeaveStep ==
    ASSUME IInv, TypeOK', NEW j \in Jobs, NEW how \in {"done", "raised", "cut"},
           LeaveStage(j, how)
    PROVE  IInv'
<1> DEFINE e == Entry(j, how)
<1> USE DEF IInv, TypeOK, Goto
<1>1. /\ at[j] = "inside" /\ at' = [at EXCEPT ![j] = "commit"]
      /\ ended' = [ended EXCEPT ![j] = how] /\ held' = [held EXCEPT ![j] = @ + e.cost]
      /\ UNCHANGED <<stage, tries, row, db>>
    BY DEF LeaveStage
<1>2. \/ file' = file \cup {e} /\ missed' = missed
      \/ file' = file /\ missed' = missed \cup {e} /\ e \in missed'
    BY DEF LeaveStage
<1>3. /\ e.job = j /\ e.try = tries[j] /\ e.stage = stage[j] /\ e.cost \in {0, 1}
      /\ e.success = (how # "raised")
    BY DEF Entry, Line
<1>4. JobInv(j) /\ tries[j] > 0
    BY <1>1 DEF JobInv
<1>5. e \notin file \cup missed
    BY <1>1, <1>3, <1>4 DEF JobInv, LinesFit
<1> HIDE DEF e
<1>6. IsFiniteSet(file')
    <2>1. IsFiniteSet(file)
        OBVIOUS
    <2>2. IsFiniteSet(file \cup {e})
        BY <2>1, FS_AddElement
    <2> QED BY <1>2, <2>1, <2>2
<1>7. ASSUME NEW d \in Jobs, d # j PROVE JobInv(d)'
    <2>1. missed' = {} => CostByJob(file', d) = CostByJob(file, d)
        <3>1. CostByJob(file, d) \in Nat
            BY CostIsNat
        <3>2. CostByJob(file \cup {e}, d) = CostByJob(file, d) + 0
            <4>1. IsFiniteSet(file) /\ e \notin file /\ e.job # d
                BY <1>3, <1>5, <1>7
            <4> QED BY ONLY <4>1, <1>3, CostOfLine
        <3>3. CostByJob(file \cup {e}, d) = CostByJob(file, d)
            BY ONLY <3>1, <3>2
        <3>4. missed' = {} => file' = file \cup {e}
            BY <1>2
        <3> QED BY ONLY <3>3, <3>4
    <2>2. \A line \in (file' \cup missed') \ (file \cup missed) : line.job # d
        BY <1>2, <1>3, <1>7
    <2>3. /\ file \subseteq file' /\ missed \subseteq missed'
          /\ \A line \in file' \ file : line.job # d
        BY <1>2, <1>3, <1>7
    <2>4. /\ at'[d] = at[d] /\ stage'[d] = stage[d] /\ tries'[d] = tries[d]
          /\ ended'[d] = ended[d] /\ held'[d] = held[d] /\ row'[d] = row[d]
        BY <1>1, <1>7
    <2> QED BY <1>1, <2>1, <2>2, <2>3, <2>4, OtherJob
<1>8. JobInv(j)'
    <2>1. at'[j] = "commit" /\ ended'[j] = how /\ tries'[j] = tries[j] /\ stage'[j] = stage[j]
        BY <1>1
    <2>2. LinesFit(j)'
        BY <1>2, <1>3, <1>4, <2>1 DEF JobInv, LinesFit
    <2>3. RowsFollow(j)'
        <3>1. Entry(j, ended[j])' = e
            BY <1>1, <2>1 DEF e, Entry, Line
        <3> QED BY <1>2, <1>4, <2>1, <3>1 DEF RowsFollow
    <2>4. StagesTraced(j)' /\ VerdictsAreLast(j)'
        BY <1>1, <1>4, <2>1 DEF JobInv, StagesTraced, VerdictsAreLast, Traced
    <2>5. FailuresAreLast(j)'
        <3> SUFFICES ASSUME NEW line \in file', line.job = j, line.try = tries[j],
                            ~line.success
                     PROVE  how = "raised"
            BY <2>1 DEF FailuresAreLast
        <3>1. line \notin file
            BY <1>1, <1>4 DEF JobInv, FailuresAreLast
        <3>2. line = e
            BY <1>2, <3>1
        <3> QED BY <1>3, <3>2
    <2>6. CostsFollow(j)'
        <3>1. CASE missed' = {}
            <4>1. file' = file \cup {e} /\ missed = {}
                BY <1>2, <3>1
            <4>2. CostByJob(file', j) = CostByJob(file, j) + e.cost
                <5>1. IsFiniteSet(file) /\ e \notin file
                    BY <1>5
                <5> QED BY ONLY <5>1, <1>3, <4>1, CostOfLine
            <4>3. row[j].cost + held[j] <= CostByJob(file, j)
                BY <1>4, <4>1 DEF JobInv, CostsFollow
            <4>4. CostByJob(file, j) \in Nat /\ row[j].cost \in Nat /\ held[j] \in Nat
                BY CostIsNat
            <4>5. held'[j] = held[j] + e.cost /\ row'[j] = row[j]
                BY <1>1
            <4> QED BY <1>3, <4>2, <4>3, <4>4, <4>5 DEF CostsFollow
        <3>2. CASE missed' # {}
            BY <3>2 DEF CostsFollow
        <3> QED BY <3>1, <3>2
    <2> QED BY <1>4, <2>1, <2>2, <2>3, <2>4, <2>5, <2>6 DEF JobInv
<1>9. CompletedIsTraced'
    <2> SUFFICES ASSUME NEW d \in Jobs, row[d].verdict = "COMPLETED",
                        NEW line \in file', line.job = d, line.try = row[d].by
                 PROVE  line.success
        BY <1>1 DEF CompletedIsTraced
    <2>1. line \in file
        BY <1>1, <1>2, <1>3, <1>4 DEF JobInv, VerdictsAreLast
    <2> QED BY <2>1 DEF CompletedIsTraced
<1> QED BY <1>1, <1>2, <1>6, <1>7, <1>8, <1>9

\* A trace is committed, or not: its line is out already.
LEMMA CommitStep ==
    ASSUME IInv, TypeOK', NEW j \in Jobs, CommitTrace(j) \/ CommitFails(j)
    PROVE  IInv'
<1> DEFINE e == Entry(j, ended[j])
<1> USE DEF IInv, TypeOK, Goto
<1>1. /\ at[j] = "commit" /\ db \subseteq db' /\ db' \subseteq db \cup {e}
      /\ UNCHANGED <<stage, tries, ended, row, file, missed>>
      /\ held' \in {held, [held EXCEPT ![j] = 0]}
    BY DEF CommitTrace, CommitFails
<1>2. JobInv(j)
    OBVIOUS
<1>3. e \in file \cup missed
    BY <1>1, <1>2 DEF JobInv, RowsFollow
<1>4. \/ at' = [at EXCEPT ![j] = "between"] /\ ended[j] = "done" /\ e \in db'
      \/ at' = [at EXCEPT ![j] = "failing"]
      \/ at' = [at EXCEPT ![j] = "finished"]
    BY DEF CommitTrace, CommitFails
<1>5. ASSUME NEW d \in Jobs, d # j PROVE JobInv(d)'
    BY <1>1, <1>4, <1>5, OtherJob
<1>6. JobInv(j)'
    <2>1. LinesFit(j)' /\ RowsFollow(j)' /\ VerdictsAreLast(j)'
        BY <1>1, <1>2, <1>4 DEF JobInv, LinesFit, RowsFollow, VerdictsAreLast
    <2>2. StagesTraced(j)'
        <3>1. CASE at'[j] = "between"
            <4>1. e.job = j /\ e.try = tries[j] /\ e.stage = stage[j] /\ e.success /\ e \in db'
                BY <1>4, <3>1 DEF Entry, Line
            <4>2. ASSUME NEW n \in 1 .. Stages, n <= stage[j] PROVE Traced(j, tries[j], n)'
                <5>1. CASE n = stage[j]
                    BY <1>1, <4>1, <5>1 DEF Traced
                <5>2. CASE n < stage[j]
                    <6>1. Traced(j, tries[j], n)
                        BY <1>1, <1>2, <5>2 DEF JobInv, StagesTraced
                    <6> QED BY <1>1, <6>1 DEF Traced
                <5>3. n \in Int /\ stage[j] \in Int
                    OBVIOUS
                <5>4. n = stage[j] \/ n < stage[j]
                    BY ONLY <4>2, <5>3
                <5> QED BY ONLY <5>1, <5>2, <5>4
            <4> QED BY <1>1, <3>1, <4>2 DEF StagesTraced, Traced
        <3>2. CASE at'[j] # "between"
            BY <1>4, <3>2 DEF StagesTraced
        <3> QED BY <3>1, <3>2
    <2>3. FailuresAreLast(j)'
        BY <1>1, <1>2, <1>4 DEF JobInv, FailuresAreLast
    <2>4. CostsFollow(j)'
        <3>1. held'[j] \in Nat /\ held'[j] <= held[j] /\ row[j].cost \in Nat
            BY <1>1
        <3>2. CostByJob(file, j) \in Nat
            BY CostIsNat
        <3> QED BY <1>1, <1>2, <3>1, <3>2 DEF JobInv, CostsFollow
    <2>5. tries'[j] > 0
        BY <1>1, <1>2 DEF JobInv
    <2> QED BY <2>1, <2>2, <2>3, <2>4, <2>5 DEF JobInv
<1>7. CompletedIsTraced'
    BY <1>1 DEF CompletedIsTraced
<1> QED BY <1>1, <1>3, <1>5, <1>6, <1>7

\* A step that writes no trace only has to keep what is said of its own job.
LEMMA QuietFrame ==
    ASSUME IInv, TypeOK', NEW j \in Jobs,
           UNCHANGED <<file, db, missed, ended>>,
           \A d \in Jobs \ {j} : /\ at'[d] = at[d] /\ stage'[d] = stage[d]
                                 /\ tries'[d] = tries[d] /\ held'[d] = held[d]
                                 /\ row'[d] = row[d],
           JobInv(j)', CompletedIsTraced'
    PROVE  IInv'
<1>1. ASSUME NEW d \in Jobs, d # j PROVE JobInv(d)'
    BY <1>1, OtherJob
<1>2. \A d \in Jobs : JobInv(d)'
    BY <1>1
<1>3. IsFiniteSet(file)' /\ (db \subseteq file \cup missed)'
    BY DEF IInv
<1> QED BY <1>2, <1>3 DEF IInv

\* A run starts: no line is of it yet.
LEMMA StartStep ==
    ASSUME IInv, TypeOK', NEW j \in Jobs, Start(j) PROVE IInv'
<1>1. /\ at[j] = "queued" /\ at'[j] = "inside" /\ stage'[j] = 1 /\ tries'[j] = tries[j] + 1
      /\ tries[j] \in Nat /\ UNCHANGED <<held, row, file, db, missed, ended>>
    BY DEF Start, Goto, IInv, TypeOK
<1>2. JobInv(j)
    BY DEF IInv
<1>3. \A line \in file \cup missed : line.job = j => line.try \in Nat /\ line.try <= tries[j]
    BY <1>2 DEF JobInv, LinesFit, IInv, TypeOK, Lines
<1>4. \A line \in file \cup missed :
          line.job = j => line.try <= tries'[j] /\ line.try # tries'[j]
    BY <1>1, <1>3
<1>5. LinesFit(j)' /\ FailuresAreLast(j)'
    BY <1>1, <1>4 DEF LinesFit, FailuresAreLast
<1>6. StagesTraced(j)' /\ RowsFollow(j)'
    BY <1>1 DEF StagesTraced, RowsFollow
<1>7. row[j].by \in Nat /\ row[j].by <= tries[j]
    BY <1>2 DEF JobInv, VerdictsAreLast, IInv, TypeOK
<1>8. VerdictsAreLast(j)'
    BY <1>1, <1>7 DEF VerdictsAreLast
<1>9. CostsFollow(j)' /\ tries'[j] > 0
    BY <1>1, <1>2 DEF JobInv, CostsFollow
<1>10. JobInv(j)'
    BY <1>1, <1>5, <1>6, <1>8, <1>9 DEF JobInv
<1>11. CompletedIsTraced'
    BY <1>1 DEF IInv, CompletedIsTraced
<1>12. \A d \in Jobs \ {j} : /\ at'[d] = at[d] /\ stage'[d] = stage[d]
                             /\ tries'[d] = tries[d] /\ held'[d] = held[d] /\ row'[d] = row[d]
    BY DEF Start, Goto, IInv, TypeOK
<1> QED BY <1>1, <1>10, <1>11, <1>12, QuietFrame

\* A run goes on to its next stage, or to its end; what it held may move to the row.
LEMMA ProceedStep ==
    ASSUME IInv, TypeOK', NEW j \in Jobs, Proceed(j) PROVE IInv'
<1>1. /\ at[j] = "between" /\ UNCHANGED <<tries, ended, file, db, missed>>
      /\ \/ stage[j] < Stages /\ at' = [at EXCEPT ![j] = "inside"]
            /\ stage' = [stage EXCEPT ![j] = @ + 1]
         \/ ~(stage[j] < Stages) /\ at' = [at EXCEPT ![j] = "completing"] /\ stage' = stage
      /\ \/ /\ row' = [row EXCEPT ![j].cost = @ + held[j]]
            /\ held' = [held EXCEPT ![j] = 0]
         \/ UNCHANGED <<row, held>>
    BY DEF Proceed, Goto
<1>2. JobInv(j) /\ stage[j] \in 1 .. Stages /\ Stages \in Nat
    BY TracesAssumption DEF IInv, TypeOK
<1>3. \/ at'[j] = "inside" /\ stage'[j] = stage[j] + 1
      \/ at'[j] = "completing" /\ stage'[j] = stage[j] /\ stage[j] = Stages
    BY <1>1, <1>2 DEF IInv, TypeOK
<1>4. /\ row[j].cost \in Nat /\ held[j] \in Nat
      /\ row'[j].cost + held'[j] = row[j].cost + held[j]
    <2>1. row[j].cost \in Nat /\ held[j] \in Nat
        BY DEF IInv, TypeOK
    <2>2. CASE row' = [row EXCEPT ![j].cost = @ + held[j]] /\ held' = [held EXCEPT ![j] = 0]
        <3>1. row'[j].cost = row[j].cost + held[j] /\ held'[j] = 0
            BY <2>2 DEF IInv, TypeOK
        <3> QED BY <2>1, <3>1
    <2>3. CASE UNCHANGED <<row, held>>
        BY <2>1, <2>3
    <2> QED BY <1>1, <2>1, <2>2, <2>3
<1>5. \A d \in Jobs : row'[d].verdict = row[d].verdict /\ row'[d].by = row[d].by
    BY <1>1 DEF IInv, TypeOK
<1>6. LinesFit(j)'
    <2> SUFFICES ASSUME NEW line \in file \cup missed, line.job = j
                 PROVE  /\ line.try <= tries[j]
                        /\ line.try = tries[j] =>
                              /\ line.stage <= stage'[j]
                              /\ at'[j] = "inside" => line.stage < stage'[j]
        BY <1>1 DEF LinesFit
    <2>1. line.try <= tries[j] /\ (line.try = tries[j] => line.stage <= stage[j])
        BY <1>2 DEF JobInv, LinesFit
    <2>2. line.stage \in Nat
        BY DEF IInv, TypeOK, Lines
    <2> QED BY <1>2, <1>3, <2>1, <2>2
<1>7. FailuresAreLast(j)'
    BY <1>1, <1>2 DEF JobInv, FailuresAreLast
<1>8. RowsFollow(j)'
    BY <1>3 DEF RowsFollow
<1>9. StagesTraced(j)'
    <2>1. \A n \in 1 .. Stages : n <= stage[j] => Traced(j, tries[j], n)'
        BY <1>1, <1>2 DEF JobInv, StagesTraced, Traced
    <2>2. CASE at'[j] = "inside"
        <3>1. \A n \in 1 .. Stages : n < stage'[j] => n <= stage[j]
            BY <1>2, <1>3, <2>2
        <3> QED BY <1>1, <2>1, <2>2, <3>1 DEF StagesTraced, Traced
    <2>3. CASE at'[j] = "completing"
        BY <1>1, <1>3, <2>1, <2>3 DEF StagesTraced, Traced
    <2> QED BY <1>3, <2>2, <2>3
<1>10. VerdictsAreLast(j)'
    <2>1. row[j].by <= tries[j] /\ ~(row[j].verdict = "COMPLETED" /\ row[j].by = tries[j])
        BY <1>1, <1>2 DEF JobInv, VerdictsAreLast
    <2> QED BY <1>1, <1>5, <2>1 DEF VerdictsAreLast
<1>11. CostsFollow(j)'
    BY <1>1, <1>2, <1>4 DEF JobInv, CostsFollow, CostByJob
<1>12. JobInv(j)'
    <2>1. tries'[j] > 0
        BY <1>1, <1>2 DEF JobInv
    <2> QED BY <1>6, <1>7, <1>8, <1>9, <1>10, <1>11, <2>1 DEF JobInv
<1>13. CompletedIsTraced'
    BY <1>1, <1>5 DEF IInv, CompletedIsTraced
<1>14. \A d \in Jobs \ {j} : /\ at'[d] = at[d] /\ stage'[d] = stage[d]
                             /\ tries'[d] = tries[d] /\ held'[d] = held[d] /\ row'[d] = row[d]
    BY <1>1 DEF IInv, TypeOK
<1> QED BY <1>1, <1>12, <1>13, <1>14, QuietFrame

\* A run stops, is put on record, or is killed.
LEMMA EndStep ==
    ASSUME IInv, TypeOK', NEW j \in Jobs, StopBetween(j) \/ Finish(j) \/ Kill(j) PROVE IInv'
<1>1. /\ UNCHANGED <<stage, tries, row, ended, file, db, missed>>
      /\ \/ at[j] = "between" /\ at' = [at EXCEPT ![j] = "failing"]
         \/ at[j] = "settled" /\ at' = [at EXCEPT ![j] = "finished"]
         \/ at' = [at EXCEPT ![j] = "queued"]
         \/ at' = [at EXCEPT ![j] = "finished"]
      /\ held' = held \/ held' = [held EXCEPT ![j] = 0]
    BY DEF StopBetween, Finish, Kill, Goto
<1>2. JobInv(j)
    BY DEF IInv
<1>3. at'[j] \in {"failing", "finished", "queued"} /\ (at'[j] = "failing" => at[j] = "between")
    BY <1>1 DEF IInv, TypeOK
<1>4. held[j] \in Nat /\ held'[j] \in Nat /\ held'[j] <= held[j] /\ row[j].cost \in Nat
    BY <1>1 DEF IInv, TypeOK
<1>5. LinesFit(j)' /\ FailuresAreLast(j)' /\ RowsFollow(j)' /\ StagesTraced(j)'
    BY <1>1, <1>2, <1>3 DEF JobInv, LinesFit, FailuresAreLast, RowsFollow, StagesTraced
<1>6. VerdictsAreLast(j)'
    BY <1>1, <1>2, <1>3 DEF JobInv, VerdictsAreLast
<1>7. CostsFollow(j)'
    <2>1. CostByJob(file, j) \in Nat
        BY CostIsNat DEF IInv
    <2>2. missed = {} => row[j].cost + held[j] <= CostByJob(file, j)
        BY <1>2 DEF JobInv, CostsFollow
    <2>3. missed = {} => row[j].cost + held'[j] <= CostByJob(file, j)
        BY <1>4, <2>1, <2>2
    <2> QED BY <1>1, <2>3 DEF CostsFollow
<1>8. at'[j] \notin {"queued", "finished"} => tries'[j] > 0
    BY <1>1, <1>2, <1>3 DEF JobInv
<1>9. JobInv(j)'
    BY <1>5, <1>6, <1>7, <1>8 DEF JobInv
<1>10. CompletedIsTraced'
    BY <1>1 DEF IInv, CompletedIsTraced
<1>11. \A d \in Jobs \ {j} : /\ at'[d] = at[d] /\ stage'[d] = stage[d]
                             /\ tries'[d] = tries[d] /\ held'[d] = held[d] /\ row'[d] = row[d]
    BY <1>1 DEF IInv, TypeOK
<1> QED BY <1>1, <1>9, <1>10, <1>11, QuietFrame

\* A run gets its verdict; COMPLETED only after the last stage, all of them traced.
LEMMA SettleStep ==
    ASSUME IInv, TypeOK', NEW j \in Jobs, NEW from, NEW verdict,
           \/ from = "completing" /\ verdict = "COMPLETED"
           \/ from = "failing" /\ verdict = "FAILED",
           Conclude(j, from, verdict), Settle(j)
    PROVE  IInv'
<1>1. /\ at[j] = from /\ at' = [at EXCEPT ![j] = "settled"]
      /\ row' = [row EXCEPT ![j].verdict = verdict, ![j].by = tries[j]]
    BY DEF Conclude, Goto
<1>2. held' = [held EXCEPT ![j] = 0] /\ UNCHANGED <<stage, tries, ended, file, db, missed>>
    BY DEF Settle
<1>3. JobInv(j) /\ tries[j] \in Nat /\ held[j] \in Nat /\ row[j].cost \in Nat
    BY DEF IInv, TypeOK
<1>4. /\ at'[j] = "settled" /\ held'[j] = 0
      /\ row'[j].verdict = verdict /\ row'[j].by = tries[j] /\ row'[j].cost = row[j].cost
    BY <1>1, <1>2 DEF IInv, TypeOK
<1>5. LinesFit(j)' /\ FailuresAreLast(j)' /\ RowsFollow(j)' /\ StagesTraced(j)'
    BY <1>2, <1>3, <1>4 DEF JobInv, LinesFit, FailuresAreLast, RowsFollow, StagesTraced
<1>6. VerdictsAreLast(j)'
    BY <1>2, <1>3, <1>4 DEF VerdictsAreLast
<1>7. CostsFollow(j)'
    <2>1. CostByJob(file, j) \in Nat
        BY CostIsNat DEF IInv
    <2>2. missed = {} => row[j].cost + held[j] <= CostByJob(file, j)
        BY <1>3 DEF JobInv, CostsFollow
    <2>3. missed = {} => row[j].cost + 0 <= CostByJob(file, j)
        BY <1>3, <2>1, <2>2
    <2> QED BY <1>2, <1>4, <2>3 DEF CostsFollow
<1>8. tries'[j] > 0
    BY <1>1, <1>2, <1>3 DEF JobInv
<1>9. JobInv(j)'
    BY <1>5, <1>6, <1>7, <1>8 DEF JobInv
<1>10. CompletedIsTraced'
    <2> SUFFICES ASSUME NEW d \in Jobs, row'[d].verdict = "COMPLETED"
                 PROVE  /\ \A n \in 1 .. Stages : Traced(d, row'[d].by, n)
                        /\ \A line \in file :
                              line.job = d /\ line.try = row'[d].by => line.success
        BY <1>2 DEF CompletedIsTraced, Traced
    <2>1. CASE d # j
        <3>1. row'[d] = row[d]
            BY <1>1, <2>1 DEF IInv, TypeOK
        <3> QED BY <3>1 DEF IInv, CompletedIsTraced, Traced
    <2>2. CASE d = j
        <3>1. at[j] = "completing" /\ row'[j].by = tries[j]
            BY <1>1, <1>4, <2>2
        <3>2. \A n \in 1 .. Stages : Traced(j, tries[j], n)
            <4>1. stage[j] = Stages
                BY <1>3, <3>1 DEF JobInv, StagesTraced
            <4>2. \A n \in 1 .. Stages : n <= stage[j]
                BY <4>1, TracesAssumption
            <4> QED BY <1>3, <3>1, <4>2 DEF JobInv, StagesTraced
        <3>3. \A line \in file : line.job = j /\ line.try = tries[j] => line.success
            <4>1. FailuresAreLast(j)
                BY <1>3 DEF JobInv
            <4> QED BY <3>1, <4>1 DEF FailuresAreLast
        <3> QED BY <2>2, <3>1, <3>2, <3>3
    <2> QED BY <2>1, <2>2
<1>11. \A d \in Jobs \ {j} : /\ at'[d] = at[d] /\ stage'[d] = stage[d]
                             /\ tries'[d] = tries[d] /\ held'[d] = held[d] /\ row'[d] = row[d]
    BY <1>1, <1>2 DEF IInv, TypeOK
<1> QED BY <1>2, <1>9, <1>10, <1>11, QuietFrame

\* Every step preserves it.
LEMMA NextIInv == IInv /\ [Next]_vars => IInv'
<1> SUFFICES ASSUME IInv, [Next]_vars PROVE IInv'
    OBVIOUS
<1>1. TypeOK'
    BY NextTypes
<1>2. CASE UNCHANGED vars
    <2>1. ASSUME NEW d \in Jobs PROVE JobInv(d)'
        BY <1>2, OtherJob DEF vars
    <2>2. CompletedIsTraced'
        BY <1>2 DEF vars, IInv, CompletedIsTraced
    <2>3. IsFiniteSet(file)' /\ (db \subseteq file \cup missed)'
        BY <1>2 DEF vars, IInv
    <2> QED BY <1>1, <2>1, <2>2, <2>3 DEF IInv
<1>3. CASE Next
    <2>1. PICK j \in Jobs :
              \/ Start(j) \/ \E how \in {"done", "raised", "cut"} : LeaveStage(j, how)
              \/ CommitTrace(j) \/ CommitFails(j) \/ Proceed(j) \/ StopBetween(j)
              \/ Settle(j) \/ Finish(j) \/ Kill(j)
        BY <1>3 DEF Next
    <2>2. CASE Start(j)
        BY <1>1, <2>2, StartStep
    <2>3. CASE \E how \in {"done", "raised", "cut"} : LeaveStage(j, how)
        BY <1>1, <2>3, LeaveStep
    <2>4. CASE CommitTrace(j) \/ CommitFails(j)
        BY <1>1, <2>4, CommitStep
    <2>5. CASE Proceed(j)
        BY <1>1, <2>5, ProceedStep
    <2>6. CASE StopBetween(j) \/ Finish(j) \/ Kill(j)
        BY <1>1, <2>6, EndStep
    <2>7. CASE Settle(j)
        <3>1. Conclude(j, "completing", "COMPLETED") \/ Conclude(j, "failing", "FAILED")
            BY <2>7 DEF Settle
        <3> QED BY <1>1, <2>7, <3>1, SettleStep
    <2> QED BY <2>1, <2>2, <2>3, <2>4, <2>5, <2>6, <2>7
<1> QED BY <1>2, <1>3

-----------------------------------------------------------------------------
(* The theorems *)

\* The invariant holds in every reachable state.
THEOREM Invariance == Spec => []IInv
BY InitIInv, NextIInv, PTL DEF Spec

\* Every variable keeps its type.
THEOREM TypeCorrect == Spec => []TypeOK
<1>1. IInv => TypeOK
    BY DEF IInv
<1> QED BY <1>1, Invariance, PTL

\* A completed job has the trace of every stage, whatever writes failed and however
\* often it was run.
THEOREM Completeness == Spec => []CompletedIsTraced
<1>1. IInv => CompletedIsTraced
    BY DEF IInv
<1> QED BY <1>1, Invariance, PTL

\* The JSONL file, and with it the dashboard, is never behind the tables.
THEOREM FileFirst == Spec => []FileIsAhead
<1>1. IInv => FileIsAhead
    <2> SUFFICES ASSUME IInv, NEW j \in Jobs, missed = {}
                 PROVE  row[j].cost <= CostByJob(file, j)
        BY DEF IInv, FileIsAhead
    <2>1. row[j].cost + held[j] <= CostByJob(file, j)
        BY DEF IInv, JobInv, CostsFollow
    <2>2. row[j].cost \in Nat /\ held[j] \in Nat /\ CostByJob(file, j) \in Nat
        BY CostIsNat DEF IInv, TypeOK
    <2> QED BY <2>1, <2>2
<1> QED BY <1>1, Invariance, PTL
=============================================================================
