-------------------------- MODULE SyncEngineProofs --------------------------
(***************************************************************************)
(* No page is lost and automatic retries are bounded: for any jobs, any    *)
(* finite set of workers, any list of pages, any number of pages in a run  *)
(* and any number of attempts, however many workers run one job at once    *)
(* and die; and the same where the outbox shares the sweep.                *)
(***************************************************************************)
EXTENDS Integrations, FiniteSetTheorems, TLAPS

Working(w) == runner[w] # Resting
RunsOf(j) == {w \in Runners : runner[w].job = j}
IsFailed(j) == IF job[j].status = "failed" THEN 1 ELSE 0

(* A worker that is not idle has a job and, where it fetches, a page to    *)
(* fetch and pages left in its run; no cursor stands on the last page.     *)
Sound ==
  /\ \A j \in Jobs : job[j].cursor < LastPage
  /\ \A w \in Runners : Working(w) =>
       /\ runner[w].job \in Jobs /\ runner[w].cursor < LastPage
       /\ At(w, "fetch") => runner[w].pages < PagesPerRun

(* A worker that came to the end of the list saw all of it applied.        *)
AtEnd(w) == At(w, "finish") \/ (At(w, "reload") /\ runner[w].cursor = NoCursor)
WholeList == \A w \in Runners : Working(w) /\ AtEnd(w) => applied[runner[w].job] = Pages

(* Each attempt of a job is in a worker, or its failure is recorded, or    *)
(* the sweep took that failure up, and at most one of these.               *)
Counted ==
  \A j \in Jobs :
    /\ redriven[j] + IsFailed(j) + Cardinality(RunsOf(j)) <= job[j].attempts
    /\ redriven[j] < JobAttempts

SyncInv == SyncTypeOK /\ Sound /\ CheckpointCovers /\ WholeList /\ SucceededComplete /\ Counted

----------------------------------------------------------------------------
LEMMA Numbers ==
  /\ LastPage \in Nat /\ LastPage > 0 /\ PagesPerRun \in Nat /\ PagesPerRun > 0
  /\ JobAttempts \in Nat /\ JobAttempts > 0 /\ MaxDeaths \in Nat
  /\ NoJob \notin Jobs /\ NoCursor = 0 /\ Pages = 1..LastPage
  BY SyncAssumption DEF NoCursor, Pages

\* The types in the form the steps below use them.
LEMMA Typed ==
  ASSUME SyncInv
  PROVE  /\ job \in [Jobs -> JobRow] /\ runner \in [Runners -> RunnerRow]
         /\ applied \in [Jobs -> SUBSET Pages] /\ redriven \in [Jobs -> Nat] /\ deaths \in 0..MaxDeaths
         /\ \A j \in Jobs : job[j] \in JobRow /\ job[j].attempts \in Nat /\ redriven[j] \in Nat
         /\ \A w \in Runners : runner[w] \in RunnerRow
  BY DEF SyncInv, SyncTypeOK, JobRow

\* What a worker is doing is a set of finitely many.
LEMMA RunsFinite ==
  ASSUME NEW j
  PROVE  IsFiniteSet(RunsOf(j)) /\ Cardinality(RunsOf(j)) \in Nat
  <1>1. IsFiniteSet(Runners) /\ RunsOf(j) \subseteq Runners
    BY SyncAssumption DEF RunsOf
  <1>2. IsFiniteSet(RunsOf(j))
    BY <1>1, FS_Subset
  <1>3. QED
    BY <1>2, FS_CardinalityType

\* A worker leaves its job.
LEMMA RunsLeft ==
  ASSUME SyncInv, NEW w \in Runners, Working(w), Leave(w)
  PROVE  /\ runner' \in [Runners -> RunnerRow]
         /\ runner'[w] = Resting /\ \A v \in Runners : v # w => runner'[v] = runner[v]
         /\ \A j \in Jobs :
              Cardinality(RunsOf(j)') = Cardinality(RunsOf(j)) - IF runner[w].job = j THEN 1 ELSE 0
  <1>1. Resting \in RunnerRow /\ Resting.job = NoJob
    BY Numbers DEF Resting, RunnerRow
  <1>2. runner' = [runner EXCEPT ![w] = Resting]
    BY DEF Leave
  <1>3. \A j \in Jobs : RunsOf(j)' = RunsOf(j) \ {w}
    BY <1>1, <1>2, Typed, Numbers DEF RunsOf
  <1>4. ASSUME NEW j \in Jobs
        PROVE  Cardinality(RunsOf(j)') = Cardinality(RunsOf(j)) - IF runner[w].job = j THEN 1 ELSE 0
    <2>1. Cardinality(RunsOf(j) \ {w}) = IF w \in RunsOf(j) THEN Cardinality(RunsOf(j)) - 1 ELSE Cardinality(RunsOf(j))
      BY RunsFinite, FS_RemoveElement
    <2>2. w \in RunsOf(j) <=> runner[w].job = j
      BY DEF RunsOf
    <2>3. QED
      BY <1>3, <2>1, <2>2, RunsFinite
  <1>5. QED
    BY <1>1, <1>2, <1>4, Typed

LEMMA InitHolds == SyncInit => SyncInv
  <1> SUFFICES ASSUME SyncInit PROVE SyncInv
    OBVIOUS
  <1>1. /\ \A w \in Runners : runner[w] = Resting /\ ~Working(w)
        /\ \A j \in Jobs : job[j] = [status |-> "none", cursor |-> NoCursor, attempts |-> 0]
        /\ \A j \in Jobs : redriven[j] = 0 /\ applied[j] = {}
    BY DEF SyncInit, Working
  <1>2. Resting \in RunnerRow /\ Resting.job = NoJob
    BY Numbers DEF Resting, RunnerRow
  <1>3. SyncTypeOK
    BY <1>2, Numbers DEF SyncInit, SyncTypeOK, JobRow, JobStatuses
  <1>4. Sound /\ CheckpointCovers /\ WholeList /\ SucceededComplete
    BY <1>1, Numbers DEF Sound, CheckpointCovers, WholeList, SucceededComplete, Working
  <1>5. Counted
    <2>1. \A j \in Jobs : RunsOf(j) = {}
      BY <1>1, <1>2, Numbers DEF RunsOf
    <2>2. Cardinality({}) = 0
      BY FS_EmptySet
    <2>3. \A j \in Jobs : IsFailed(j) = 0 /\ job[j].attempts = 0
      BY <1>1 DEF IsFailed
    <2>4. ASSUME NEW j \in Jobs
          PROVE  redriven[j] + IsFailed(j) + Cardinality(RunsOf(j)) <= job[j].attempts /\ redriven[j] < JobAttempts
      <3>1. redriven[j] = 0 /\ IsFailed(j) = 0 /\ job[j].attempts = 0 /\ Cardinality(RunsOf(j)) = 0
        BY <1>1, <2>1, <2>2, <2>3
      <3>2. QED
        BY <3>1, Numbers
    <2>5. QED
      BY <2>4 DEF Counted
  <1>6. QED
    BY <1>3, <1>4, <1>5 DEF SyncInv

----------------------------------------------------------------------------
(* Rows change status, to none that a worker alone may write.              *)
LEMMA RowsKeep ==
  ASSUME SyncInv, UNCHANGED <<runner, applied, redriven, deaths>>,
         connection' \in {"active", "inactive", "revoked"}, jobQueue' \subseteq Jobs,
         job' \in [Jobs -> JobRow],
         \A j \in Jobs : /\ job'[j].cursor = job[j].cursor /\ job'[j].attempts = job[j].attempts
                         /\ job'[j].status = job[j].status \/ job'[j].status \notin {"succeeded", "failed"}
  PROVE  SyncInv'
  <1>1. SyncTypeOK'
    BY DEF SyncInv, SyncTypeOK
  <1>2. Sound' /\ CheckpointCovers' /\ WholeList' /\ SucceededComplete'
    BY DEF SyncInv, Sound, CheckpointCovers, WholeList, SucceededComplete, Working, At, AtEnd
  <1>3. Counted'
    <2> SUFFICES ASSUME NEW j \in Jobs
                 PROVE  /\ redriven[j] + IsFailed(j)' + Cardinality(RunsOf(j)) <= job'[j].attempts
                        /\ redriven[j] < JobAttempts
      BY DEF Counted, RunsOf
    <2>1. IsFailed(j)' \in 0..1 /\ IsFailed(j) \in 0..1 /\ IsFailed(j)' <= IsFailed(j)
      BY DEF IsFailed
    <2>2. Cardinality(RunsOf(j)) \in Nat
      BY RunsFinite
    <2>3. QED
      BY <2>1, <2>2, Typed DEF SyncInv, Counted
  <1>4. QED
    BY <1>1, <1>2, <1>3 DEF SyncInv

\* One row.
LEMMA RowKeeps ==
  ASSUME SyncInv, UNCHANGED <<runner, applied, redriven, deaths, connection>>,
         jobQueue' \subseteq Jobs, NEW j \in Jobs, NEW status \in {"pending", "paused", "cancelled"},
         SetStatus(j, status)
  PROVE  SyncInv'
  <1>1. job' = [job EXCEPT ![j].status = status]
    BY DEF SetStatus
  <1>2. job' \in [Jobs -> JobRow]
    BY <1>1, Typed DEF JobRow, JobStatuses
  <1>3. \A k \in Jobs : /\ job'[k].cursor = job[k].cursor /\ job'[k].attempts = job[k].attempts
                        /\ job'[k].status = job[k].status \/ job'[k].status \notin {"succeeded", "failed"}
    BY <1>1, Typed DEF JobRow
  <1>4. QED
    BY <1>2, <1>3, RowsKeep DEF SyncInv, SyncTypeOK

LEMMA ApiKeeps ==
  ASSUME SyncInv, NEW j \in Jobs, Api(j)
  PROVE  SyncInv'
  <1>1. jobQueue \subseteq Jobs
    BY DEF SyncInv, SyncTypeOK
  <1>2. CASE Pause(j)
    BY <1>1, <1>2, RowKeeps DEF Pause
  <1>3. CASE Cancel(j)
    BY <1>1, <1>3, RowKeeps DEF Cancel
  <1>4. ASSUME NEW sent \in BOOLEAN, StartSync(j, sent) PROVE SyncInv'
    BY <1>1, <1>4, RowKeeps DEF StartSync, Queued
  <1>5. ASSUME NEW sent \in BOOLEAN, Reopen(j, sent) PROVE SyncInv'
    BY <1>1, <1>5, RowKeeps DEF Reopen, Queued
  <1>6. QED
    BY <1>2, <1>3, <1>4, <1>5 DEF Api

LEMMA SettingsKeep ==
  ASSUME SyncInv, Switch \/ Disconnect
  PROVE  SyncInv'
  <1>1. jobQueue \subseteq Jobs
    BY DEF SyncInv, SyncTypeOK
  <1>2. CASE Switch
    BY <1>1, <1>2, RowsKeep, Typed DEF Switch
  <1>3. CASE Disconnect
    <2>1. job' \in [Jobs -> JobRow]
      BY <1>3, Typed DEF Disconnect, JobRow, JobStatuses
    <2>2. \A k \in Jobs : /\ job'[k].cursor = job[k].cursor /\ job'[k].attempts = job[k].attempts
                          /\ job'[k].status = job[k].status \/ job'[k].status \notin {"succeeded", "failed"}
      BY <1>3, Typed DEF Disconnect, JobRow
    <2>3. QED
      BY <1>1, <1>3, <2>1, <2>2, RowsKeep DEF Disconnect
  <1>4. QED
    BY <1>2, <1>3

----------------------------------------------------------------------------
(* The workers.                                                            *)

LEMMA ClaimKeeps ==
  ASSUME SyncInv, NEW w \in Runners, NEW j \in Jobs, NEW again \in BOOLEAN, ClaimRun(w, j, again)
  PROVE  SyncInv'
  <1> DEFINE run == [at |-> "fetch", job |-> j, cursor |-> job[j].cursor, pages |-> 0, target |-> "none"]
             row == [job[j] EXCEPT !.status = "running", !.attempts = NextAttempt(job[j])]
  <1>1. /\ job' = [job EXCEPT ![j] = row] /\ runner' = [runner EXCEPT ![w] = run]
        /\ runner[w] = Resting /\ job[j].status = "pending"
        /\ UNCHANGED <<connection, applied, redriven, deaths>> /\ jobQueue' \subseteq Jobs
    BY Typed DEF ClaimRun, SyncInv, SyncTypeOK
  <1>2. /\ row \in JobRow /\ row.status = "running" /\ row.cursor = job[j].cursor
        /\ row.attempts = job[j].attempts + 1
    <2>1. job[j] \in JobRow /\ NextAttempt(job[j]) = job[j].attempts + 1 /\ NextAttempt(job[j]) \in Nat
      BY Typed DEF NextAttempt
    <2>2. QED
      BY <2>1 DEF JobRow, JobStatuses
  <1>3. run \in RunnerRow
    BY Typed, Numbers DEF RunnerRow, JobRow
  <1>4. SyncTypeOK'
    BY <1>1, <1>2, <1>3 DEF SyncInv, SyncTypeOK
  <1>5. /\ job'[j] = row /\ \A k \in Jobs : k # j => job'[k] = job[k]
        /\ runner'[w] = run /\ \A v \in Runners : v # w => runner'[v] = runner[v]
    BY <1>1, Typed
  <1>6. Sound' /\ CheckpointCovers' /\ WholeList' /\ SucceededComplete'
    BY <1>1, <1>2, <1>5, Numbers
       DEF SyncInv, Sound, CheckpointCovers, WholeList, SucceededComplete, Working, At, AtEnd
  <1>7. Counted'
    <2> SUFFICES ASSUME NEW k \in Jobs
                 PROVE  /\ redriven[k] + IsFailed(k)' + Cardinality(RunsOf(k)') <= job'[k].attempts
                        /\ redriven[k] < JobAttempts
      BY <1>1 DEF Counted, RunsOf
    <2>1. /\ redriven[k] + IsFailed(k) + Cardinality(RunsOf(k)) <= job[k].attempts
          /\ redriven[k] < JobAttempts
      BY DEF SyncInv, Counted
    <2>2. CASE k = j
      <3>1. RunsOf(k)' = RunsOf(k) \cup {w} /\ w \notin RunsOf(k)
        BY <1>1, <1>5, <2>2, Numbers DEF RunsOf, Resting
      <3>2. Cardinality(RunsOf(k)') = Cardinality(RunsOf(k)) + 1
        BY <3>1, RunsFinite, FS_AddElement
      <3>3. IsFailed(k)' = 0 /\ IsFailed(k) = 0
        BY <1>1, <1>2, <1>5, <2>2 DEF IsFailed
      <3>4. job'[k].attempts = job[k].attempts + 1
        BY <1>2, <1>5, <2>2
      <3> HIDE DEF row, run
      <3>5. QED
        BY <2>1, <3>2, <3>3, <3>4, RunsFinite, Typed
    <2>3. CASE k # j
      <3>1. RunsOf(k)' = RunsOf(k)
        BY <1>1, <1>5, <2>3, Numbers DEF RunsOf, Resting
      <3>2. IsFailed(k)' = IsFailed(k) /\ job'[k] = job[k]
        BY <1>5, <2>3 DEF IsFailed
      <3>3. QED
        BY <2>1, <3>1, <3>2
    <2>4. QED
      BY <2>2, <2>3
  <1>8. QED
    BY <1>4, <1>6, <1>7 DEF SyncInv

\* A worker goes on with its job, whose row keeps its status.
LEMMA RunnerKeeps ==
  ASSUME SyncInv, NEW w \in Runners, Working(w), NEW run \in RunnerRow, run.job = runner[w].job,
         runner' = [runner EXCEPT ![w] = run], run # Resting,
         UNCHANGED <<connection, job, jobQueue, applied, redriven, deaths>>,
         run.cursor = runner[w].cursor, run.at = "fetch" => run.pages < PagesPerRun,
         run.at = "finish" => AtEnd(w), run.at # "reload"
  PROVE  SyncInv'
  <1>1. runner'[w] = run /\ \A v \in Runners : v # w => runner'[v] = runner[v]
    BY Typed
  <1>2. SyncTypeOK'
    BY DEF SyncInv, SyncTypeOK
  <1>3. Sound' /\ CheckpointCovers' /\ WholeList' /\ SucceededComplete'
    BY <1>1 DEF SyncInv, Sound, CheckpointCovers, WholeList, SucceededComplete, Working, At, AtEnd
  <1>4. Counted'
    <2>1. \A j \in Jobs : RunsOf(j)' = RunsOf(j)
      BY <1>1 DEF RunsOf
    <2>2. QED
      BY <2>1 DEF SyncInv, Counted, IsFailed
  <1>5. QED
    BY <1>2, <1>3, <1>4 DEF SyncInv

\* The worker's last act: a row of its job, if any, changes its status.
LEMMA LeavingKeeps ==
  ASSUME SyncInv, NEW w \in Runners, Working(w), Leave(w), NEW status \in JobStatuses,
         UNCHANGED job \/ SetStatus(runner[w].job, status),
         status = "succeeded" => applied[runner[w].job] = Pages,
         UNCHANGED <<connection, applied, redriven>>, jobQueue' \subseteq Jobs, deaths' \in 0..MaxDeaths
  PROVE  SyncInv'
  <1> DEFINE j == runner[w].job
  <1>1. j \in Jobs
    BY DEF SyncInv, Sound
  <1>2. /\ runner' \in [Runners -> RunnerRow]
        /\ runner'[w] = Resting /\ \A v \in Runners : v # w => runner'[v] = runner[v]
        /\ \A k \in Jobs :
             Cardinality(RunsOf(k)') = Cardinality(RunsOf(k)) - IF runner[w].job = k THEN 1 ELSE 0
    BY RunsLeft
  <1>3. /\ job' \in [Jobs -> JobRow]
        /\ \A k \in Jobs : job'[k].cursor = job[k].cursor /\ job'[k].attempts = job[k].attempts
        /\ \A k \in Jobs : k # j => job'[k] = job[k]
        /\ job'[j].status \in {job[j].status, status}
    <2>1. CASE UNCHANGED job
      BY <1>1, <2>1, Typed
    <2>2. CASE SetStatus(j, status)
      <3>1. [job[j] EXCEPT !.status = status] \in JobRow
        BY <1>1, Typed DEF JobRow
      <3>2. job' = [job EXCEPT ![j] = [job[j] EXCEPT !.status = status]]
        BY <1>1, <2>2, Typed DEF SetStatus
      <3>3. QED
        BY <1>1, <3>1, <3>2, Typed DEF JobRow
    <2>3. QED
      BY <2>1, <2>2
  <1>4. SyncTypeOK'
    BY <1>2, <1>3 DEF SyncInv, SyncTypeOK
  <1>5. Sound' /\ CheckpointCovers' /\ WholeList' /\ SucceededComplete'
    BY <1>1, <1>2, <1>3 DEF SyncInv, Sound, CheckpointCovers, WholeList, SucceededComplete, Working, At, AtEnd
  <1>6. Counted'
    <2> SUFFICES ASSUME NEW k \in Jobs
                 PROVE  redriven[k] + IsFailed(k)' + Cardinality(RunsOf(k)') <= job[k].attempts
      BY <1>3 DEF SyncInv, Counted, RunsOf
    <2>1. redriven[k] + IsFailed(k) + Cardinality(RunsOf(k)) <= job[k].attempts
      BY DEF SyncInv, Counted
    <2>2. IsFailed(k) \in 0..1 /\ IsFailed(k)' \in 0..1
      BY DEF IsFailed
    <2>3. CASE k = j
      <3>1. Cardinality(RunsOf(k)') = Cardinality(RunsOf(k)) - 1
        BY <1>2, <2>3
      <3>2. QED
        BY <2>1, <2>2, <3>1, RunsFinite, Typed
    <2>4. CASE k # j
      <3>1. IsFailed(k)' = IsFailed(k) /\ Cardinality(RunsOf(k)') = Cardinality(RunsOf(k))
        BY <1>2, <1>3, <2>4, RunsFinite DEF IsFailed
      <3>2. QED
        BY <2>1, <3>1
    <2>5. QED
      BY <2>3, <2>4
  <1>7. QED
    BY <1>4, <1>5, <1>6 DEF SyncInv

LEMMA CheckpointKeeps ==
  ASSUME SyncInv, NEW w \in Runners, Checkpoint(w)
  PROVE  SyncInv'
  <1> DEFINE j == runner[w].job
             next == NextCursor(runner[w].cursor)
             page == NextPage(runner[w].cursor)
             run == [runner[w] EXCEPT !.at = "reload", !.pages = @ + 1, !.cursor = next]
  <1>1. /\ At(w, "fetch") /\ Working(w)
        /\ applied' = [applied EXCEPT ![j] = @ \cup {page}]
        /\ job' = [job EXCEPT ![j].cursor = next]
        /\ runner' = [runner EXCEPT ![w] = run]
        /\ UNCHANGED <<connection, jobQueue, redriven, deaths>>
    <2>1. At(w, "fetch") /\ Working(w)
      BY DEF Checkpoint, Working, At, Resting
    <2>2. runner' = [runner EXCEPT ![w] = run]
      BY Typed DEF Checkpoint
    <2>3. QED
      BY <2>1, <2>2 DEF Checkpoint
  <1>2. /\ j \in Jobs /\ runner[w].cursor \in Nat /\ runner[w].cursor < LastPage
        /\ runner[w].pages \in Nat /\ runner[w].pages < PagesPerRun
    BY <1>1, Typed, Numbers DEF SyncInv, Sound, RunnerRow
  <1>3. /\ page = runner[w].cursor + 1 /\ page \in Pages
        /\ next \in {NoCursor} \cup Pages /\ next < LastPage
        /\ next = NoCursor => page = LastPage
        /\ next # NoCursor => next = page
    BY <1>2, Numbers DEF NextPage, NextCursor
  <1> HIDE DEF next, page
  <1>4. /\ run \in RunnerRow /\ run # Resting /\ run.job = j /\ run.cursor = next /\ run.at = "reload"
    <2>1. runner[w] \in RunnerRow /\ runner[w].pages + 1 \in 0..PagesPerRun
      BY <1>2, Typed, Numbers
    <2>2. run \in RunnerRow
      BY <1>3, <2>1 DEF RunnerRow
    <2>3. run.at = "reload" /\ run.job = j /\ run.cursor = next
      BY <2>1 DEF RunnerRow
    <2>4. QED
      BY <2>2, <2>3 DEF Resting
  <1>5. /\ job' \in [Jobs -> JobRow] /\ job'[j].cursor = next
        /\ \A k \in Jobs : k # j => job'[k] = job[k]
        /\ \A k \in Jobs : job'[k].status = job[k].status /\ job'[k].attempts = job[k].attempts
    <2>1. [job[j] EXCEPT !.cursor = next] \in JobRow
      BY <1>2, <1>3, Typed DEF JobRow
    <2>2. job' = [job EXCEPT ![j] = [job[j] EXCEPT !.cursor = next]]
      BY <1>1, <1>2, Typed
    <2>3. QED
      BY <1>2, <2>1, <2>2, Typed DEF JobRow
  <1>6. /\ applied' \in [Jobs -> SUBSET Pages]
        /\ applied'[j] = applied[j] \cup {page} /\ \A k \in Jobs : applied[k] \subseteq applied'[k]
        /\ \A k \in Jobs : applied[k] = Pages => applied'[k] = Pages
    BY <1>1, <1>2, <1>3, Typed
  <1>7. runner' \in [Runners -> RunnerRow] /\ runner'[w] = run /\ \A v \in Runners : v # w => runner'[v] = runner[v]
    BY <1>1, <1>4, Typed
  <1> HIDE DEF run
  <1>8. SyncTypeOK'
    BY <1>1, <1>5, <1>6, <1>7 DEF SyncInv, SyncTypeOK
  <1>9. 1..next \subseteq applied'[j] /\ (next = NoCursor => applied'[j] = Pages)
    <2>1. 1..runner[w].cursor \subseteq applied[j]
      BY <1>1 DEF SyncInv, CheckpointCovers, Working
    <2>2. 1..page \subseteq applied'[j]
      BY <1>2, <1>3, <1>6, <2>1
    <2>3. QED
      BY <1>2, <1>3, <1>6, <2>2, Numbers
  <1>10. Sound'
    BY <1>2, <1>3, <1>4, <1>5, <1>7 DEF SyncInv, Sound, Working, At
  <1>11. CheckpointCovers'
    <2>1. ASSUME NEW k \in Jobs PROVE 1..job'[k].cursor \subseteq applied'[k]
      BY <1>5, <1>6, <1>9 DEF SyncInv, CheckpointCovers
    <2>2. ASSUME NEW v \in Runners, runner'[v] # Resting
          PROVE  1..runner'[v].cursor \subseteq applied'[runner'[v].job]
      <3>1. CASE v = w
        BY <1>4, <1>7, <1>9, <3>1
      <3>2. CASE v # w
        <4>1. runner'[v] = runner[v] /\ runner[v].job \in Jobs /\ 1..runner[v].cursor \subseteq applied[runner[v].job]
          BY <1>7, <2>2, <3>2 DEF SyncInv, CheckpointCovers, Sound, Working
        <4>2. QED
          BY <1>6, <4>1
      <3>3. QED
        BY <3>1, <3>2
    <2>3. QED
      BY <2>1, <2>2 DEF CheckpointCovers
  <1>12. WholeList'
    <2> SUFFICES ASSUME NEW v \in Runners, Working(v)', AtEnd(v)'
                 PROVE  applied'[runner'[v].job] = Pages
      BY DEF WholeList
    <2>1. CASE v = w
      BY <1>4, <1>7, <1>9, <2>1 DEF AtEnd, At
    <2>2. CASE v # w
      <3>1. runner'[v] = runner[v] /\ runner[v].job \in Jobs /\ applied[runner[v].job] = Pages
        BY <1>7, <2>2 DEF SyncInv, WholeList, Sound, Working, AtEnd, At
      <3>2. QED
        BY <1>6, <3>1
    <2>3. QED
      BY <2>1, <2>2
  <1>13. SucceededComplete'
    BY <1>5, <1>6 DEF SyncInv, SucceededComplete
  <1>14. Counted'
    <2>1. \A k \in Jobs : RunsOf(k)' = RunsOf(k)
      BY <1>4, <1>7 DEF RunsOf
    <2>2. QED
      BY <1>1, <1>5, <2>1 DEF SyncInv, Counted, IsFailed
  <1>15. QED
    BY <1>8, <1>10, <1>11, <1>12, <1>13, <1>14 DEF SyncInv

LEMMA ReloadKeeps ==
  ASSUME SyncInv, NEW w \in Runners, Reload(w)
  PROVE  SyncInv'
  <1>1. Working(w) /\ At(w, "reload") /\ UNCHANGED <<connection, job, jobQueue, applied, redriven, deaths>>
    BY DEF Reload, Working, At, Resting
  <1>2. jobQueue' \subseteq Jobs /\ deaths' \in 0..MaxDeaths
    BY <1>1 DEF SyncInv, SyncTypeOK
  <1>3. CASE Leave(w)
    BY <1>1, <1>2, <1>3, LeavingKeeps DEF JobStatuses
  <1>4. ASSUME NEW place \in {"finish", "yield", "fetch"}, GoTo(w, place),
               place = "finish" => runner[w].cursor = NoCursor,
               place = "fetch" => ~(runner[w].pages >= PagesPerRun)
        PROVE  SyncInv'
    <2> DEFINE run == [runner[w] EXCEPT !.at = place]
    <2>1. /\ run \in RunnerRow /\ run.at = place /\ run.job = runner[w].job /\ run.cursor = runner[w].cursor
          /\ run.pages = runner[w].pages /\ runner[w].pages \in Nat
      <3>1. runner[w] \in RunnerRow /\ place \in {"finish", "yield", "fetch"}
        BY <1>4, Typed
      <3>2. runner[w].pages \in 0..PagesPerRun
        BY <3>1 DEF RunnerRow
      <3>3. run \in RunnerRow
        BY <3>1 DEF RunnerRow
      <3>4. run.at = place /\ run.job = runner[w].job /\ run.cursor = runner[w].cursor /\ run.pages = runner[w].pages
        BY <3>1 DEF RunnerRow
      <3>5. QED
        BY <3>2, <3>3, <3>4, Numbers
    <2>2. runner' = [runner EXCEPT ![w] = run]
      BY <1>4, Typed DEF GoTo
    <2>3. run # Resting
      BY <2>1 DEF Resting
    <2>4. run.at = "fetch" => run.pages < PagesPerRun
      BY <1>4, <2>1, Numbers
    <2>5. run.at = "finish" => AtEnd(w)
      BY <1>1, <1>4, <2>1 DEF AtEnd
    <2> HIDE DEF run
    <2>6. QED
      BY <1>1, <2>1, <2>2, <2>3, <2>4, <2>5, RunnerKeeps
  <1>5. QED
    BY <1>3, <1>4 DEF Reload

LEMMA CallFailsKeeps ==
  ASSUME SyncInv, NEW w \in Runners, NEW retryable \in BOOLEAN, CallFails(w, retryable)
  PROVE  SyncInv'
  <1> DEFINE target == IF Mine(w).status # "running" THEN "none"
                       ELSE IF ~retryable \/ Exhausted(Mine(w)) THEN "dead_letter" ELSE "failed"
             run == [runner[w] EXCEPT !.at = "failed", !.target = target]
  <1>1. /\ Working(w) /\ runner' = [runner EXCEPT ![w] = run]
        /\ UNCHANGED <<connection, job, jobQueue, applied, redriven, deaths>>
    <2>1. Working(w)
      BY DEF CallFails, Working, At, Resting
    <2>2. runner' = [runner EXCEPT ![w].at = "failed", ![w].target = target]
      BY DEF CallFails
    <2> HIDE DEF target
    <2>3. runner' = [runner EXCEPT ![w] = run]
      BY <2>2, Typed
    <2>4. QED
      BY <2>1, <2>3 DEF CallFails
  <1>2. target \in {"none", "failed", "dead_letter"}
    OBVIOUS
  <1> HIDE DEF target
  <1>3. run \in RunnerRow /\ run.at = "failed" /\ run.job = runner[w].job /\ run.cursor = runner[w].cursor
    BY <1>2, Typed DEF RunnerRow
  <1>4. run # Resting
    BY <1>3 DEF Resting
  <1> HIDE DEF run
  <1>5. QED
    BY <1>1, <1>3, <1>4, RunnerKeeps

LEMMA WorkKeeps ==
  ASSUME SyncInv, NEW w \in Runners, Work(w)
  PROVE  SyncInv'
  <1>1. jobQueue \subseteq Jobs /\ deaths \in 0..MaxDeaths
    BY DEF SyncInv, SyncTypeOK
  <1>2. CASE Finish(w)
    <2>1. Working(w) /\ applied[runner[w].job] = Pages
      BY <1>2 DEF Finish, Working, At, Resting, SyncInv, WholeList, AtEnd
    <2>2. QED
      BY <1>1, <1>2, <2>1, LeavingKeeps DEF Finish, JobStatuses
  <1>3. CASE RecordFailure(w)
    <2>1. Working(w) /\ runner[w].target \in {"none", "failed", "dead_letter"}
      BY <1>3, Typed DEF RecordFailure, Working, At, Resting, RunnerRow
    <2>2. QED
      BY <1>1, <1>3, <2>1, LeavingKeeps DEF RecordFailure, JobStatuses
  <1>4. ASSUME NEW sent \in BOOLEAN, Yield(w, sent) PROVE SyncInv'
    <2>1. Working(w) /\ runner[w].job \in Jobs
      BY <1>4 DEF Yield, Working, At, Resting, SyncInv, Sound
    <2>2. jobQueue' \subseteq Jobs
      BY <1>1, <1>4, <2>1 DEF Yield, Queued
    <2>3. UNCHANGED job \/ SetStatus(runner[w].job, "pending")
      BY <1>4 DEF Yield
    <2>4. QED
      BY <1>1, <1>4, <2>1, <2>2, <2>3, LeavingKeeps DEF Yield, JobStatuses
  <1>5. QED
    BY <1>2, <1>3, <1>4, CheckpointKeeps, ReloadKeeps, CallFailsKeeps DEF Work

LEMMA DiesKeeps ==
  ASSUME SyncInv, NEW w \in Runners, RunnerDies(w)
  PROVE  SyncInv'
  <1>1. Working(w) /\ deaths' \in 0..MaxDeaths /\ jobQueue' \subseteq Jobs
    BY Numbers DEF RunnerDies, Working, SyncInv, SyncTypeOK
  <1>2. QED
    BY <1>1, LeavingKeeps DEF RunnerDies, JobStatuses

LEMMA TakeKeeps ==
  ASSUME SyncInv, NEW w \in Runners, NEW j \in Jobs, Take(w, j)
  PROVE  SyncInv'
  <1>1. jobQueue \subseteq Jobs
    BY DEF SyncInv, SyncTypeOK
  <1>2. CASE SkipRun(w, j)
    BY <1>1, <1>2, RowsKeep, Typed DEF SkipRun, SyncInv, SyncTypeOK
  <1>3. CASE CancelRun(w, j)
    BY <1>1, <1>3, RowKeeps DEF CancelRun
  <1>4. QED
    BY <1>2, <1>3, ClaimKeeps DEF Take

----------------------------------------------------------------------------
(* The sweep: a failed job that it takes up has an attempt to spare, which *)
(* was neither taken up before nor is in a worker.                         *)
LEMMA SweepKeeps ==
  ASSUME SyncInv, NEW old \in SUBSET Jobs, NEW lost \in SUBSET Jobs, SweepJobs(old, lost)
  PROVE  SyncInv'
  <1>1. /\ UNCHANGED <<connection, runner, applied, deaths>>
        /\ old \subseteq Retryable
        /\ job' = [j \in Jobs |-> IF j \in old THEN [job[j] EXCEPT !.status = "pending"] ELSE job[j]]
        /\ redriven' = [j \in Jobs |-> redriven[j] + IF j \in old THEN 1 ELSE 0]
    BY DEF SweepJobs
  <1>2. jobQueue' \subseteq Jobs
    BY DEF SweepJobs, Waiting, SyncInv, SyncTypeOK
  <1>3. /\ job' \in [Jobs -> JobRow]
        /\ \A j \in Jobs : job'[j].cursor = job[j].cursor /\ job'[j].attempts = job[j].attempts
        /\ \A j \in Jobs : job'[j].status = IF j \in old THEN "pending" ELSE job[j].status
    <2>1. \A j \in Jobs : [job[j] EXCEPT !.status = "pending"] \in JobRow
      BY Typed DEF JobRow, JobStatuses
    <2>2. QED
      BY <1>1, <2>1, Typed DEF JobRow
  <1>4. redriven' \in [Jobs -> Nat]
    BY <1>1, Typed
  <1>5. SyncTypeOK'
    BY <1>1, <1>2, <1>3, <1>4 DEF SyncInv, SyncTypeOK
  <1>6. Sound' /\ CheckpointCovers' /\ WholeList' /\ SucceededComplete'
    BY <1>1, <1>3 DEF SyncInv, Sound, CheckpointCovers, WholeList, SucceededComplete, Working, At, AtEnd
  <1>7. Counted'
    <2> SUFFICES ASSUME NEW j \in Jobs
                 PROVE  /\ redriven'[j] + IsFailed(j)' + Cardinality(RunsOf(j)) <= job[j].attempts
                        /\ redriven'[j] < JobAttempts
      BY <1>1, <1>3 DEF Counted, RunsOf
    <2>1. /\ redriven[j] + IsFailed(j) + Cardinality(RunsOf(j)) <= job[j].attempts
          /\ redriven[j] < JobAttempts
      BY DEF SyncInv, Counted
    <2>2. CASE j \in old
      <3>1. job[j].status = "failed" /\ job[j].attempts < JobAttempts
        BY <1>1, <2>2 DEF Retryable
      <3>2. IsFailed(j) = 1 /\ IsFailed(j)' = 0
        BY <1>3, <2>2, <3>1 DEF IsFailed
      <3>3. redriven'[j] = redriven[j] + 1
        BY <1>1, <2>2
      <3>4. QED
        BY <2>1, <3>1, <3>2, <3>3, RunsFinite, Typed, Numbers
    <2>3. CASE j \notin old
      <3>1. IsFailed(j)' = IsFailed(j) /\ redriven'[j] = redriven[j]
        BY <1>1, <1>3, <2>3, Typed DEF IsFailed
      <3>2. QED
        BY <2>1, <3>1
    <2>4. QED
      BY <2>2, <2>3
  <1>8. QED
    BY <1>5, <1>6, <1>7 DEF SyncInv

LEMMA StepKeeps == SyncInv /\ [SyncNext]_syncVars => SyncInv'
  <1> SUFFICES ASSUME SyncInv, [SyncNext]_syncVars PROVE SyncInv'
    OBVIOUS
  <1>1. ASSUME NEW w \in Runners, Work(w) \/ RunnerDies(w) \/ \E j \in Jobs : Take(w, j) PROVE SyncInv'
    BY <1>1, WorkKeeps, DiesKeeps, TakeKeeps
  <1>2. CASE UNCHANGED syncVars
    BY <1>2, RowsKeep, Typed DEF syncVars, SyncInv, SyncTypeOK
  <1>3. QED
    BY <1>1, <1>2, SettingsKeep, ApiKeeps, SweepKeeps DEF SyncNext, SyncStep

(* Every row and every worker keeps a value of its kind.                   *)
THEOREM SyncTypes == SyncSpec => []SyncTypeOK
  <1>1. SyncInv => SyncTypeOK
    BY DEF SyncInv
  <1>2. QED
    BY <1>1, InitHolds, StepKeeps, PTL DEF SyncSpec

(* A cursor that is kept or carried never points past a page that was not  *)
(* applied (the commit of run_job), whoever else runs the job.             *)
THEOREM NoPageLost == SyncSpec => []CheckpointCovers
  <1>1. SyncInv => CheckpointCovers
    BY DEF SyncInv
  <1>2. QED
    BY <1>1, InitHolds, StepKeeps, PTL DEF SyncSpec

(* A job that run_job reports as a success applied the whole list.         *)
THEOREM SuccessIsComplete == SyncSpec => []SucceededComplete
  <1>1. SyncInv => SucceededComplete
    BY DEF SyncInv
  <1>2. QED
    BY <1>1, InitHolds, StepKeeps, PTL DEF SyncSpec

(* The sweep takes a job up again fewer than JobAttempts times, although   *)
(* a worker writes a failure that it decided on earlier.                   *)
THEOREM RetriesBounded == SyncSpec => []RedrivenBounded
  <1>1. SyncInv => RedrivenBounded
    BY DEF SyncInv, Counted, RedrivenBounded
  <1>2. QED
    BY <1>1, InitHolds, StepKeeps, PTL DEF SyncSpec

----------------------------------------------------------------------------
(* A step of Integrations is a step of SyncEngine or leaves it alone.      *)
LEMMA JobsAlone == [IntegrationsNext]_allVars => [SyncNext]_syncVars
  BY DEF IntegrationsNext, allVars, SyncNext, IntegrationsSweep, syncVars, outboxVars

(* Sharing the sweep with the outbox (integrations_sweep), which may fail  *)
(* as a whole, loses the sync engine no page, lets no unfinished job       *)
(* succeed and redrives no job past its attempts.                          *)
THEOREM SharedSweepLosesNothing ==
  IntegrationsSpec => [](CheckpointCovers /\ SucceededComplete /\ RedrivenBounded)
  <1>1. IntegrationsInit => SyncInit
    BY DEF IntegrationsInit
  <1>2. IntegrationsSpec => SyncSpec
    BY <1>1, JobsAlone, PTL DEF IntegrationsSpec, SyncSpec
  <1>3. QED
    BY <1>2, NoPageLost, SuccessIsComplete, RetriesBounded, PTL
=============================================================================
