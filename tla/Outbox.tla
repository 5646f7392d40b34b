------------------------------- MODULE Outbox -------------------------------
(***************************************************************************)
(* The transactional outbox and outbound webhook delivery                  *)
(* (integrations/outbox.py, jobs.py).  An event row is committed with the  *)
(* business change; a dispatcher fans it out to a delivery row for each    *)
(* matching subscription; workers claim a delivery, send it and record the *)
(* answer; the sweep of every minute finds what was lost on the way.       *)
(*                                                                         *)
(* Time is abstract: `due` says that next_attempt_at has passed, and a     *)
(* running row is stale (10 minutes without an update) only when nobody is *)
(* sending it any more, because the queue ends a job after 180 seconds     *)
(* (worker.py job_timeout).                                                *)
(***************************************************************************)
EXTENDS Integers, FiniteSets

CONSTANTS
  Events,       \* outbox events
  Subs,         \* webhook subscriptions
  Wants,        \* Wants[s]: the events whose type s subscribes to
  Workers,      \* processes that run the jobs
  MaxAttempts,  \* settings.delivery_max_attempts
  MaxRetries    \* bound: manual retries

ASSUME OutboxAssumption ==
  /\ Wants \in [Subs -> SUBSET Events]
  /\ MaxAttempts \in Nat \ {0}
  /\ MaxRetries \in Nat

VARIABLES
  event,         \* event[e]: status of the outbox row
  subscription,  \* subscription[s]: enabled, disabled or deleted
  delivery,      \* delivery[d]: the row of a subscription and an event
  queue,         \* the deliveries that have a deliver_webhook job
  worker,        \* worker[w]: what the process is in the middle of
  watching,      \* watching[e]: who was enabled from the emit of e on (history)
  received,      \* received[d]: requests that reached the receiver (history)
  retries        \* manual retries so far (bound)

outboxVars ==
  <<event, subscription, delivery, queue, worker, watching, received, retries>>

Deliveries == Subs \X Events
EventStatuses == {"none", "pending", "dispatched"}
DeliveryStatuses ==
  {"none", "pending", "running", "succeeded", "failed", "cancelled", "dead_letter"}
Claimable == {"pending", "failed"}
Finished == {"succeeded", "cancelled", "dead_letter"}

NoDelivery == [status |-> "none", attempts |-> 0, max |-> 0, due |-> TRUE]
NewDelivery == [status |-> "pending", attempts |-> 0, max |-> MaxAttempts, due |-> TRUE]
Idle == [at |-> "idle", batch |-> {}, targets |-> {}]

Sending(w, d) == worker[w].at = "sending" /\ worker[w].targets = {d}
Enabled(s) == subscription[s] = "enabled"
Open(d) == delivery[d].status \in {"pending", "running", "failed"}

OutboxInit ==
  /\ event = [e \in Events |-> "none"]
  /\ subscription = [s \in Subs |-> "enabled"]
  /\ delivery = [d \in Deliveries |-> NoDelivery]
  /\ queue = {}
  /\ worker = [w \in Workers |-> Idle]
  /\ watching = [e \in Events |-> {}]
  /\ received = [d \in Deliveries |-> 0]
  /\ retries = 0

----------------------------------------------------------------------------
(* Business services and the settings page.                                *)

Emit(e) ==
  /\ event[e] = "none"
  /\ event' = [event EXCEPT ![e] = "pending"]
  /\ watching' = [watching EXCEPT ![e] = {s \in Subs : Enabled(s)}]
  /\ UNCHANGED <<subscription, delivery, queue, worker, received, retries>>

Forget(s) == watching' = [e \in Events |-> watching[e] \ {s}]

UpdateWebhook(s) ==
  /\ \/ Enabled(s) /\ subscription' = [subscription EXCEPT ![s] = "disabled"] /\ Forget(s)
     \/ subscription[s] = "disabled"
        /\ subscription' = [subscription EXCEPT ![s] = "enabled"]
        /\ UNCHANGED watching
  /\ UNCHANGED <<event, delivery, queue, worker, received, retries>>

\* The rows nobody has claimed are cancelled with it; one being sent is not.
DeleteWebhook(s) ==
  /\ subscription[s] # "deleted"
  /\ subscription' = [subscription EXCEPT ![s] = "deleted"]
  /\ delivery' = [d \in Deliveries |->
       IF d[1] = s /\ delivery[d].status \in Claimable
         THEN [delivery[d] EXCEPT !.status = "cancelled", !.due = TRUE]
         ELSE delivery[d]]
  /\ Forget(s)
  /\ UNCHANGED <<event, queue, worker, received, retries>>

\* sent: whether the job reached the queue after the commit.
RetryDelivery(d, sent) ==
  /\ retries < MaxRetries
  /\ Enabled(d[1])
  /\ delivery[d].status \in {"failed", "dead_letter"}
  /\ delivery' = [delivery EXCEPT ![d] =
       [@ EXCEPT !.status = "pending", !.due = TRUE, !.max = delivery[d].attempts + MaxAttempts]]
  /\ queue' = IF sent THEN queue \cup {d} ELSE queue
  /\ retries' = retries + 1
  /\ UNCHANGED <<event, subscription, worker, watching, received>>

----------------------------------------------------------------------------
(* dispatch_pending: one transaction over the pending events that no other *)
(* dispatcher has locked.  It reads the subscriptions as it goes and a     *)
(* change of theirs may commit before it does.                             *)

LockedEvents == UNION {worker[w].batch : w \in Workers}

Targets(batch) == {d \in Subs \X batch : Enabled(d[1]) /\ d[2] \in Wants[d[1]]}
Dispatching(batch) == [at |-> "dispatching", batch |-> batch, targets |-> Targets(batch)]

DispatchWanted(w) ==                                            \* mutant of DispatchRead
  /\ worker[w] = Idle
  /\ LET batch == {e \in Events : event[e] = "pending"} \ LockedEvents IN
       Targets(batch) # {} /\ worker' = [worker EXCEPT ![w] = Dispatching(batch)]
  /\ UNCHANGED <<event, subscription, delivery, queue, watching, received, retries>>

DispatchRead(w) ==
  /\ worker[w] = Idle
  /\ LET batch == {e \in Events : event[e] = "pending"} \ LockedEvents IN
       batch # {} /\ worker' = [worker EXCEPT ![w] = Dispatching(batch)]
  /\ UNCHANGED <<event, subscription, delivery, queue, watching, received, retries>>

OnlySent(w, sent) == sent                                       \* mutant of Created
Created(w, sent) == {d \in worker[w].targets : delivery[d].status = "none"}

\* sent: the new deliveries whose job reached the queue after the commit.
DispatchCommit(w, sent) ==
  /\ worker[w].at = "dispatching"
  /\ sent \subseteq worker[w].targets
  /\ delivery' = [d \in Deliveries |-> IF d \in Created(w, sent) THEN NewDelivery ELSE delivery[d]]
  /\ event' = [e \in Events |-> IF e \in worker[w].batch THEN "dispatched" ELSE event[e]]
  /\ queue' = queue \cup (sent \cap Created(w, sent))
  /\ worker' = [worker EXCEPT ![w] = Idle]
  /\ UNCHANGED <<subscription, watching, received, retries>>

----------------------------------------------------------------------------
(* deliver: one attempt.  The claim is committed before the network call.  *)

Unfinished(d) == delivery[d].status \notin Finished            \* mutant of Due
Due(d) == delivery[d].status \in Claimable /\ delivery[d].due

\* The job of a delivery that is locked, finished, running or not due.
SkipJob(w, d) ==
  /\ worker[w] = Idle
  /\ d \in queue /\ ~Due(d)
  /\ queue' = queue \ {d}
  /\ UNCHANGED <<event, subscription, delivery, worker, watching, received, retries>>

\* The subscription is disabled or deleted: the row is set to cancelled and
\* flushed, and the session of the job ends without a commit.
RefuseJob(w, d) ==
  /\ worker[w] = Idle
  /\ d \in queue /\ Due(d) /\ ~Enabled(d[1])
  /\ queue' = queue \ {d}
  /\ UNCHANGED <<event, subscription, delivery, worker, watching, received, retries>>

\* again: the queue runs the job a second time, as it does after a shutdown.
Claim(w, d, again) ==
  /\ worker[w] = Idle
  /\ d \in queue /\ Due(d) /\ Enabled(d[1])
  /\ delivery' = [delivery EXCEPT ![d].status = "running", ![d].attempts = @ + 1]
  /\ queue' = IF again THEN queue ELSE queue \ {d}
  /\ worker' = [worker EXCEPT ![w] = [at |-> "sending", batch |-> {}, targets |-> {d}]]
  /\ UNCHANGED <<event, subscription, watching, received, retries>>

AlwaysFailed(row) == [row EXCEPT !.status = "failed", !.due = FALSE]  \* mutant of AfterFailure
AfterFailure(row) ==
  IF row.attempts >= row.max THEN [row EXCEPT !.status = "dead_letter", !.due = TRUE]
                             ELSE [row EXCEPT !.status = "failed", !.due = FALSE]

Record(w, d, row) ==
  /\ Sending(w, d)
  /\ delivery' = [delivery EXCEPT ![d] = row]
  /\ worker' = [worker EXCEPT ![w] = Idle]
  /\ UNCHANGED <<event, subscription, queue, watching, retries>>

\* got: a request can fail or time out after the receiver has it.
Succeeds(w, d) ==
  /\ Record(w, d, [delivery[d] EXCEPT !.status = "succeeded", !.due = TRUE])
  /\ received' = [received EXCEPT ![d] = @ + 1]
Fails(w, d, got) ==
  /\ Record(w, d, AfterFailure(delivery[d]))
  /\ received' = IF got THEN [received EXCEPT ![d] = @ + 1] ELSE received
\* The URL or the signing key is refused before anything is sent.
FailsForGood(w, d) ==
  /\ Record(w, d, [delivery[d] EXCEPT !.status = "dead_letter", !.due = TRUE])
  /\ UNCHANGED received

\* The process is killed, at any point of a dispatch or of an attempt.
Dies(w, got) ==
  /\ worker[w] # Idle
  /\ got => worker[w].at = "sending"
  /\ worker' = [worker EXCEPT ![w] = Idle]
  /\ received' = [d \in Deliveries |-> received[d] + IF got /\ Sending(w, d) THEN 1 ELSE 0]
  /\ UNCHANGED <<event, subscription, delivery, queue, watching, retries>>

----------------------------------------------------------------------------
(* integrations_sweep.                                                     *)

BackoffElapses(d) ==
  /\ delivery[d].status = "failed" /\ ~delivery[d].due
  /\ delivery' = [delivery EXCEPT ![d].due = TRUE]
  /\ UNCHANGED <<event, subscription, queue, worker, watching, received, retries>>

AnyRunning(d) == delivery[d].status = "running"                 \* mutant of Stale
Stale(d) == delivery[d].status = "running" /\ \A w \in Workers : ~Sending(w, d)
RetriedAnyway(d) ==                                             \* mutant of Recovered
  IF Stale(d) THEN [delivery[d] EXCEPT !.status = "failed"] ELSE delivery[d]
NoneStale(d) == delivery[d]                                     \* mutant of Recovered
Recovered(d) ==
  IF Stale(d) THEN [AfterFailure(delivery[d]) EXCEPT !.due = TRUE] ELSE delivery[d]

\* due_deliveries, then one job for each row found; some may not reach the queue.
Sweep(lost) ==
  LET row == [d \in Deliveries |-> Recovered(d)]
      found == {d \in Deliveries : row[d].status \in Claimable /\ row[d].due} IN
  /\ delivery' = row
  /\ queue' = queue \cup (found \ lost)
  /\ UNCHANGED <<event, subscription, worker, watching, received, retries>>

----------------------------------------------------------------------------
Settings(s) == UpdateWebhook(s) \/ DeleteWebhook(s)

Dispatch(w) ==
  \/ DispatchRead(w)
  \/ \E sent \in SUBSET worker[w].targets : DispatchCommit(w, sent)

Attempt(w, d) ==
  \/ SkipJob(w, d) \/ RefuseJob(w, d) \/ \E again \in BOOLEAN : Claim(w, d, again)
Answer(w) ==
  \E d \in worker[w].targets :
    Succeeds(w, d) \/ FailsForGood(w, d) \/ \E got \in BOOLEAN : Fails(w, d, got)

OutboxStep ==
  \/ \E e \in Events : Emit(e)
  \/ \E s \in Subs : Settings(s)
  \/ \E d \in Deliveries :
       BackoffElapses(d) \/ \E sent \in BOOLEAN : RetryDelivery(d, sent)
  \/ \E w \in Workers :
       \/ Dispatch(w) \/ Answer(w)
       \/ \E d \in Deliveries : Attempt(w, d)
       \/ \E got \in BOOLEAN : Dies(w, got)

OutboxNext == OutboxStep \/ \E lost \in SUBSET Deliveries : Sweep(lost)

OutboxSpec == OutboxInit /\ [][OutboxNext]_outboxVars

(* The sweep runs every minute on some worker, does not always lose its    *)
(* jobs and does not always die; a queued job is run by some worker; a     *)
(* request ends by its timeout; clocks advance.                            *)
WorkersGoOn ==
  /\ SF_outboxVars(\E w \in Workers : DispatchRead(w))
  /\ SF_outboxVars(\E w \in Workers, sent \in SUBSET Deliveries : DispatchCommit(w, sent))
  /\ SF_outboxVars(\E w \in Workers, d \in Deliveries : Attempt(w, d))
  /\ WF_outboxVars(\E w \in Workers : Answer(w))
  /\ WF_outboxVars(\E d \in Deliveries : BackoffElapses(d))
FairOutboxSpec == OutboxSpec /\ WorkersGoOn /\ WF_outboxVars(Sweep({}))

----------------------------------------------------------------------------
(* Every row and every process has a value of its kind.                    *)
OutboxTypeOK ==
  /\ event \in [Events -> EventStatuses]
  /\ subscription \in [Subs -> {"enabled", "disabled", "deleted"}]
  /\ delivery \in [Deliveries -> [status : DeliveryStatuses, due : BOOLEAN, max : Nat,
                                 attempts : 0..(MaxAttempts * (MaxRetries + 1))]]
  /\ queue \subseteq Deliveries
  /\ worker \in [Workers -> [at : {"idle", "dispatching", "sending"},
                             batch : SUBSET Events, targets : SUBSET Deliveries]]
  /\ watching \in [Events -> SUBSET Subs]
  /\ received \in [Deliveries -> Nat]
  /\ retries \in 0..MaxRetries

(* A delivery is sent by one worker at a time, however many jobs it has,   *)
(* and its row says so: the claim is committed before the network call.    *)
OneSender ==
  \A w \in Workers, d \in Deliveries :
    Sending(w, d) =>
      /\ delivery[d].status = "running"
      /\ \A v \in Workers : Sending(v, d) => v = w

(* An attempt is counted before it is made: the receiver never sees more   *)
(* requests than attempts, an attempt is never made beyond the budget, and *)
(* a row left as failed still has one.                                     *)
WithinBudget ==
  \A d \in Deliveries :
    /\ received[d] <= delivery[d].attempts
    /\ delivery[d].attempts <= delivery[d].max
    /\ delivery[d].status \in Claimable => delivery[d].attempts < delivery[d].max
    /\ delivery[d].status = "succeeded" => received[d] > 0

(* An event that was dispatched has a delivery row for every subscription  *)
(* that wanted it and was enabled from its emit on, whatever crashed or    *)
(* was lost between the two: its rows and its status commit together.      *)
NothingForgotten ==
  \A e \in Events, s \in Subs :
    event[e] = "dispatched" /\ s \in watching[e] /\ e \in Wants[s]
      => delivery[<<s, e>>].status # "none"

(* A success or a cancellation is the end, whatever a late job, a sweep or *)
(* a manual retry does; a dead letter comes back by hand only, to pending. *)
FinalStays ==
  [][\A d \in Deliveries :
       /\ delivery[d].status \in {"succeeded", "cancelled"} =>
            delivery'[d].status = delivery[d].status
       /\ delivery[d].status = "dead_letter" =>
            \/ delivery'[d].status = "dead_letter"
            \/ delivery'[d].status = "pending" /\ retries' > retries]_outboxVars

(* Every event is dispatched, although dispatchers die half-way.           *)
EveryEventDispatched == \A e \in Events : event[e] = "pending" ~> event[e] = "dispatched"

(* A delivery ends unless its subscription is switched off, although       *)
(* processes die in the middle of an attempt and jobs miss the queue.      *)
EveryDeliveryEnds ==
  \A d \in Deliveries :
    Open(d) ~> delivery[d].status \in Finished \/ ~Enabled(d[1])

(* DELETE "cancels pending deliveries (their status becomes `cancelled`)"  *)
(* (docs/contracts/integrations-api.md:239-240): a delivery of a deleted   *)
(* subscription does not stay pending or failed.                           *)
DeletedCancelled ==
  \A d \in Deliveries :
    Open(d) /\ subscription[d[1]] = "deleted" ~> delivery[d].status \in Finished
=============================================================================
