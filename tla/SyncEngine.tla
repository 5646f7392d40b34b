----------------------------- MODULE SyncEngine -----------------------------
(***************************************************************************)
(* The sync engine (integrations/sync.py, the sync half of jobs.py, and    *)
(* start_sync, control_job and disconnect of the integrations service).    *)
(*                                                                         *)
(* A job belongs to one connection and one entity, and a partial unique    *)
(* index admits one pending or running job for them; the model has one     *)
(* such pair.  A worker claims a pending job, fetches page after page,     *)
(* commits what it applied with the cursor, and then reads its own status  *)
(* again without a lock: what it writes next (succeeded, pending to go on  *)
(* later, failed) is written whatever was committed since that read.       *)
(***************************************************************************)
EXTENDS Integers, FiniteSets

CONSTANTS
  Jobs,            \* sync jobs of one connection and entity
  Runners,         \* workers that run run_sync_job
  LastPage,        \* pages of the provider's list
  PagesPerRun,     \* MAX_PAGES_PER_RUN
  JobAttempts,     \* MAX_JOB_ATTEMPTS
  MaxRuns,         \* bound: attempts of a job, manual retries included
  MaxDeaths,       \* bound: workers that die
  NoJob            \* the job of an idle runner

ASSUME SyncAssumption ==
  /\ IsFiniteSet(Runners)
  /\ LastPage \in Nat \ {0} /\ PagesPerRun \in Nat \ {0} /\ JobAttempts \in Nat \ {0}
  /\ MaxRuns \in Nat /\ MaxDeaths \in Nat
  /\ NoJob \notin Jobs

VARIABLES
  connection,  \* active, inactive or revoked
  job,         \* job[j]: the row
  jobQueue,    \* the jobs that have a run_sync_job
  runner,      \* runner[w]: what the worker is doing
  applied,     \* applied[j]: pages whose records were committed under j (history)
  redriven,    \* redriven[j]: times the sweep took j from failed to pending (history)
  deaths       \* workers that died (bound)

syncVars == <<connection, job, jobQueue, runner, applied, redriven, deaths>>

Pages == 1..LastPage
NoCursor == 0                \* None: before the first page, and after the last
JobStatuses == {"none", "pending", "running", "succeeded", "failed", "paused", "cancelled", "dead_letter"}
Active == {"pending", "running"}

\* SYNC_STATES.
SyncStates ==
  [none        |-> {"pending"},
   pending     |-> {"running", "cancelled", "paused"},
   running     |-> {"succeeded", "failed", "paused", "cancelled", "dead_letter", "pending"},
   failed      |-> {"pending", "dead_letter", "cancelled"},
   paused      |-> {"pending", "cancelled"},
   dead_letter |-> {"pending", "cancelled"},
   succeeded   |-> {},
   cancelled   |-> {}]

Resting == [at |-> "idle", job |-> NoJob, cursor |-> NoCursor, pages |-> 0, target |-> "none"]

SyncInit ==
  /\ connection = "active"
  /\ job = [j \in Jobs |-> [status |-> "none", cursor |-> NoCursor, attempts |-> 0]]
  /\ jobQueue = {}
  /\ runner = [w \in Runners |-> Resting]
  /\ applied = [j \in Jobs |-> {}]
  /\ redriven = [j \in Jobs |-> 0]
  /\ deaths = 0

\* uq_integration_sync_jobs_active, for a transaction that makes `some` pending.
Indexed(some) == Cardinality(some \cup {j \in Jobs : job[j].status \in Active}) <= 1

SetStatus(j, status) == job' = [job EXCEPT ![j].status = status]
Queued(j, sent) == jobQueue' = IF sent THEN jobQueue \cup {j} ELSE jobQueue

----------------------------------------------------------------------------
(* The API.  sent: whether the job reached the queue after the commit.     *)

StartSync(j, sent) ==
  /\ job[j].status = "none"
  /\ connection = "active"
  /\ Indexed({j})
  /\ SetStatus(j, "pending")
  /\ Queued(j, sent)
  /\ UNCHANGED <<connection, runner, applied, redriven, deaths>>

Pause(j) ==
  /\ "paused" \in SyncStates[job[j].status]
  /\ SetStatus(j, "paused")
  /\ UNCHANGED <<connection, jobQueue, runner, applied, redriven, deaths>>

Cancel(j) ==
  /\ "cancelled" \in SyncStates[job[j].status]
  /\ SetStatus(j, "cancelled")
  /\ UNCHANGED <<connection, jobQueue, runner, applied, redriven, deaths>>

\* resume a paused job, retry a failed one.
Reopen(j, sent) ==
  /\ job[j].status \in {"paused", "failed", "dead_letter"}
  /\ job[j].attempts < MaxRuns
  /\ Indexed({j})
  /\ SetStatus(j, "pending")
  /\ Queued(j, sent)
  /\ UNCHANGED <<connection, runner, applied, redriven, deaths>>

Switch ==
  /\ connection' \in {"active", "inactive"} \ {connection}
  /\ connection # "revoked"
  /\ UNCHANGED <<job, jobQueue, runner, applied, redriven, deaths>>

Disconnect ==
  /\ connection # "revoked"
  /\ connection' = "revoked"
  /\ job' = [j \in Jobs |->
       IF job[j].status \in {"pending", "running", "paused", "failed"}
         THEN [job[j] EXCEPT !.status = "cancelled"] ELSE job[j]]
  /\ UNCHANGED <<jobQueue, runner, applied, redriven, deaths>>

----------------------------------------------------------------------------
(* run_job.                                                                *)

At(w, place) == runner[w].at = place
Mine(w) == job[runner[w].job]
Leave(w) == runner' = [runner EXCEPT ![w] = Resting]
GoTo(w, place) == runner' = [runner EXCEPT ![w].at = place]

SkipRun(w, j) ==
  /\ runner[w] = Resting
  /\ j \in jobQueue /\ job[j].status # "pending"
  /\ jobQueue' = jobQueue \ {j}
  /\ UNCHANGED <<connection, job, runner, applied, redriven, deaths>>

\* The connection is gone or not active.
CancelRun(w, j) ==
  /\ runner[w] = Resting
  /\ j \in jobQueue /\ job[j].status = "pending" /\ connection # "active"
  /\ SetStatus(j, "cancelled")
  /\ jobQueue' = jobQueue \ {j}
  /\ UNCHANGED <<connection, runner, applied, redriven, deaths>>

Uncounted(row) == row.attempts                                  \* mutant of NextAttempt
NextAttempt(row) == row.attempts + 1

\* again: the queue runs the job a second time.
ClaimRun(w, j, again) ==
  /\ runner[w] = Resting
  /\ j \in jobQueue /\ job[j].status = "pending" /\ connection = "active"
  /\ job' = [job EXCEPT ![j].status = "running", ![j].attempts = NextAttempt(job[j])]
  /\ runner' = [runner EXCEPT ![w] =
       [at |-> "fetch", job |-> j, cursor |-> job[j].cursor, pages |-> 0, target |-> "none"]]
  /\ jobQueue' = IF again THEN jobQueue ELSE jobQueue \ {j}
  /\ UNCHANGED <<connection, applied, redriven, deaths>>

Skipping(cursor) == cursor + 2                                  \* mutant of NextPage
NextPage(cursor) == cursor + 1
EndsEarly(cursor) ==                                            \* mutant of NextCursor
  IF NextPage(cursor) + 1 >= LastPage THEN NoCursor ELSE NextPage(cursor)
\* next_cursor is None after the last page.
NextCursor(cursor) == IF NextPage(cursor) >= LastPage THEN NoCursor ELSE NextPage(cursor)

\* A page: its records, the stats and the cursor in one commit.
Checkpoint(w) ==
  /\ At(w, "fetch")
  /\ LET j == runner[w].job IN
       /\ applied' = [applied EXCEPT ![j] = @ \cup {NextPage(runner[w].cursor)}]
       /\ job' = [job EXCEPT ![j].cursor = NextCursor(runner[w].cursor)]
       /\ runner' = [runner EXCEPT ![w].at = "reload", ![w].pages = @ + 1,
                                   ![w].cursor = NextCursor(runner[w].cursor)]
  /\ UNCHANGED <<connection, jobQueue, redriven, deaths>>

\* _reload: a plain read.
Reload(w) ==
  /\ At(w, "reload")
  /\ IF Mine(w).status # "running" THEN Leave(w)
     ELSE GoTo(w, IF runner[w].cursor = NoCursor THEN "finish"
                  ELSE IF runner[w].pages >= PagesPerRun THEN "yield" ELSE "fetch")
  /\ UNCHANGED <<connection, job, jobQueue, applied, redriven, deaths>>

\* To pending, to go on in a fresh run; the unique index can refuse it.
Yield(w, sent) ==
  /\ At(w, "yield")
  /\ Leave(w)
  /\ IF Indexed({runner[w].job})
       THEN SetStatus(runner[w].job, "pending") /\ Queued(runner[w].job, sent)
       ELSE UNCHANGED <<job, jobQueue>>
  /\ UNCHANGED <<connection, applied, redriven, deaths>>

Finish(w) ==
  /\ At(w, "finish")
  /\ SetStatus(runner[w].job, "succeeded")
  /\ Leave(w)
  /\ UNCHANGED <<connection, jobQueue, applied, redriven, deaths>>

Exhausted(row) == row.attempts >= JobAttempts
\* The provider call raised an IntegrationError: the status is read again...
CallFails(w, retryable) ==
  /\ At(w, "fetch")
  /\ runner' = [runner EXCEPT ![w].at = "failed", ![w].target =
       IF Mine(w).status # "running" THEN "none"
       ELSE IF ~retryable \/ Exhausted(Mine(w)) THEN "dead_letter" ELSE "failed"]
  /\ UNCHANGED <<connection, job, jobQueue, applied, redriven, deaths>>
\* ...and written, if it was running.
RecordFailure(w) ==
  /\ At(w, "failed")
  /\ IF runner[w].target = "none" THEN UNCHANGED job
                                  ELSE SetStatus(runner[w].job, runner[w].target)
  /\ Leave(w)
  /\ UNCHANGED <<connection, jobQueue, applied, redriven, deaths>>

\* The process is killed, or the job exceeds its 180 seconds.
RunnerDies(w) ==
  /\ runner[w] # Resting
  /\ deaths < MaxDeaths
  /\ deaths' = deaths + 1
  /\ Leave(w)
  /\ UNCHANGED <<connection, job, jobQueue, applied, redriven>>

----------------------------------------------------------------------------
(* The sweep's part: failed jobs that are old enough become pending, and   *)
(* every pending job gets a queue job.  One refused row fails them all.    *)

NoneWaiting == {}                                               \* mutant of Waiting
Waiting == {j \in Jobs : job[j].status = "pending"}
Retryable == {j \in Jobs : job[j].status = "failed" /\ job[j].attempts < JobAttempts}

SweepJobs(old, lost) ==
  /\ old \subseteq Retryable
  /\ old # {} => Indexed(old)
  /\ job' = [j \in Jobs |-> IF j \in old THEN [job[j] EXCEPT !.status = "pending"] ELSE job[j]]
  /\ redriven' = [j \in Jobs |-> redriven[j] + IF j \in old THEN 1 ELSE 0]
  /\ jobQueue' = jobQueue \cup ((old \cup Waiting) \ lost)
  /\ UNCHANGED <<connection, runner, applied, deaths>>

----------------------------------------------------------------------------
Api(j) ==
  \/ Pause(j) \/ Cancel(j)
  \/ \E sent \in BOOLEAN : StartSync(j, sent) \/ Reopen(j, sent)
Take(w, j) == SkipRun(w, j) \/ CancelRun(w, j) \/ \E again \in BOOLEAN : ClaimRun(w, j, again)
Work(w) ==
  \/ Checkpoint(w) \/ Reload(w) \/ Finish(w) \/ RecordFailure(w)
  \/ \E sent \in BOOLEAN : Yield(w, sent)
  \/ \E retryable \in BOOLEAN : CallFails(w, retryable)

SyncStep ==
  \/ Switch \/ Disconnect
  \/ \E j \in Jobs : Api(j)
  \/ \E w \in Runners : Work(w) \/ RunnerDies(w) \/ \E j \in Jobs : Take(w, j)

SyncNext == SyncStep \/ \E old, lost \in SUBSET Jobs : SweepJobs(old, lost)

SyncSpec == SyncInit /\ [][SyncNext]_syncVars

(* The sweep runs every minute and in the end finds every failed job old   *)
(* enough and reaches the queue; a queued job is run; a worker goes on     *)
(* unless it dies.                                                         *)
RunnersGoOn ==
  /\ \A w \in Runners : WF_syncVars(Work(w))
  /\ \A j \in Jobs : SF_syncVars(\E w \in Runners : Take(w, j))
FairSyncSpec == SyncSpec /\ RunnersGoOn /\ WF_syncVars(SweepJobs(Retryable, {}))

----------------------------------------------------------------------------
JobRow == [status : JobStatuses, cursor : {NoCursor} \cup Pages, attempts : Nat]
RunnerRow == [at : {"idle", "fetch", "reload", "yield", "finish", "failed"},
              job : Jobs \cup {NoJob}, cursor : {NoCursor} \cup Pages,
              pages : 0..PagesPerRun, target : {"none", "failed", "dead_letter"}]

(* Every row and every worker has a value of its kind.                     *)
SyncTypeOK ==
  /\ connection \in {"active", "inactive", "revoked"}
  /\ job \in [Jobs -> JobRow]
  /\ jobQueue \subseteq Jobs
  /\ runner \in [Runners -> RunnerRow]
  /\ applied \in [Jobs -> SUBSET Pages]
  /\ redriven \in [Jobs -> Nat]
  /\ deaths \in 0..MaxDeaths

(* A cursor never points past a page that was not applied, although a      *)
(* pause and a resume let two workers run one job and move its cursor      *)
(* back and forth: a later run loses nothing by starting from it.          *)
CheckpointCovers ==
  /\ \A j \in Jobs : 1..job[j].cursor \subseteq applied[j]
  /\ \A w \in Runners : runner[w] # Resting => 1..runner[w].cursor \subseteq applied[runner[w].job]

(* A job that succeeded applied every page of the list, in whatever runs   *)
(* and by whatever workers it took.                                        *)
SucceededComplete == \A j \in Jobs : job[j].status = "succeeded" => applied[j] = Pages

(* "Failed sync jobs are retried automatically after 5 minutes (bounded    *)
(* attempts)": the sweep takes a job up again fewer times than it may run. *)
RedrivenBounded == \A j \in Jobs : redriven[j] < JobAttempts

(* A job that is waiting or running comes to an end or to a pause, though  *)
(* its enqueue is lost or it yields many times, if no worker dies.         *)
JobsSettle == \A j \in Jobs : job[j].status \in Active ~> job[j].status \notin Active

(* SYNC_STATES gives no way out of cancelled: a job that was cancelled is  *)
(* not run again and is not reported as a success.                         *)
CancelledStays ==
  [][\A j \in Jobs : job[j].status = "cancelled" => job'[j].status = "cancelled"]_syncVars

(* The sweep "re-drives anything ... whose worker died" (jobs.py:5-6).     *)
DeadWorkerRedriven ==
  \A j \in Jobs :
    job[j].status = "running" /\ (\A w \in Runners : runner[w].job # j) ~> job[j].status # "running"
=============================================================================
