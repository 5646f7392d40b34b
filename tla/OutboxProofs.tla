---------------------------- MODULE OutboxProofs ----------------------------
(***************************************************************************)
(* The safety of Outbox, for any events, subscriptions and workers, any    *)
(* attempt budget and any number of manual retries; and the same where the *)
(* sync engine shares the sweep.                                           *)
(***************************************************************************)
EXTENDS Integrations, TLAPS

Row == [status : DeliveryStatuses, attempts : Nat, max : Nat, due : BOOLEAN]
Process ==
  [at : {"idle", "dispatching", "sending"}, batch : SUBSET Events, targets : SUBSET Deliveries]

(* The rows and processes have values of their kind; attempts are counted  *)
(* without the bound of OutboxTypeOK, which Budgeted gives.                *)
Kinds ==
  /\ event \in [Events -> EventStatuses]
  /\ subscription \in [Subs -> {"enabled", "disabled", "deleted"}]
  /\ delivery \in [Deliveries -> Row]
  /\ queue \subseteq Deliveries
  /\ worker \in [Workers -> Process]
  /\ watching \in [Events -> SUBSET Subs]
  /\ received \in [Deliveries -> Nat]
  /\ retries \in 0..MaxRetries

(* WithinBudget for one delivery, and what keeps it: a manual retry adds   *)
(* at most one budget to the attempts made so far; the attempt of a        *)
(* request under way is counted and the receiver does not have it yet; a   *)
(* delivery that does not exist was not received.                          *)
Limit(r) == MaxAttempts * (r + 1)
Budget(d) ==
  /\ received[d] <= delivery[d].attempts
  /\ delivery[d].attempts <= delivery[d].max
  /\ delivery[d].max <= Limit(retries)
  /\ delivery[d].status \in Claimable => delivery[d].attempts < delivery[d].max
  /\ delivery[d].status = "succeeded" => received[d] > 0
  /\ delivery[d].status = "none" => received[d] = 0
  /\ \A w \in Workers : Sending(w, d) => received[d] < delivery[d].attempts
Budgeted == \A d \in Deliveries : Budget(d)

(* A dispatcher holds the row of every delivery it owes: a subscription    *)
(* that is still watching was enabled when the dispatcher read it.         *)
Owed ==
  /\ \A e \in Events : \A s \in watching[e] : Enabled(s)
  /\ \A w \in Workers : worker[w].at = "dispatching" =>
       \A e \in worker[w].batch :
         /\ event[e] # "none"
         /\ \A s \in watching[e] : e \in Wants[s] => <<s, e>> \in worker[w].targets

OutboxInv ==
  /\ Kinds /\ OneSender
  /\ Budgeted
  /\ Owed /\ NothingForgotten

----------------------------------------------------------------------------
LEMMA KindsInductive == Kinds /\ [OutboxNext]_outboxVars => Kinds'
  <1> SUFFICES ASSUME Kinds, [OutboxNext]_outboxVars PROVE Kinds'
    OBVIOUS
  <1> USE OutboxAssumption DEF Kinds, Row, Process, EventStatuses, DeliveryStatuses
  <1>0. CASE UNCHANGED outboxVars
    BY <1>0 DEF outboxVars
  <1>1. ASSUME NEW e \in Events, Emit(e) PROVE Kinds'
    BY <1>1 DEF Emit
  <1>2. ASSUME NEW s \in Subs, UpdateWebhook(s) PROVE Kinds'
    BY <1>2 DEF UpdateWebhook, Forget
  <1>3. ASSUME NEW s \in Subs, DeleteWebhook(s) PROVE Kinds'
    BY <1>3 DEF DeleteWebhook, Forget
  <1>4. ASSUME NEW d \in Deliveries, BackoffElapses(d) PROVE Kinds'
    BY <1>4 DEF BackoffElapses
  <1>5. ASSUME NEW d \in Deliveries, NEW sent \in BOOLEAN, RetryDelivery(d, sent) PROVE Kinds'
    <2>1. delivery[d] \in Row /\ delivery[d].attempts + MaxAttempts \in Nat
      OBVIOUS
    <2>2. delivery' \in [Deliveries -> Row]
      BY <1>5, <2>1 DEF RetryDelivery
    <2>3. QED
      BY <1>5, <2>2 DEF RetryDelivery
  <1>6. ASSUME NEW w \in Workers, DispatchRead(w) PROVE Kinds'
    BY <1>6 DEF DispatchRead, Dispatching, Targets, LockedEvents, Deliveries
  <1>7. ASSUME NEW w \in Workers, NEW sent \in SUBSET worker[w].targets, DispatchCommit(w, sent)
        PROVE  Kinds'
    BY <1>7 DEF DispatchCommit, Created, NewDelivery, Idle
  <1>8. ASSUME NEW w \in Workers, NEW d \in Deliveries, SkipJob(w, d) \/ RefuseJob(w, d)
        PROVE  Kinds'
    BY <1>8 DEF SkipJob, RefuseJob
  <1>9. ASSUME NEW w \in Workers, NEW d \in Deliveries, NEW again \in BOOLEAN, Claim(w, d, again)
        PROVE  Kinds'
    BY <1>9 DEF Claim
  <1>10. ASSUME NEW w \in Workers, NEW d \in worker[w].targets,
                Succeeds(w, d) \/ FailsForGood(w, d) \/ \E got \in BOOLEAN : Fails(w, d, got)
         PROVE  Kinds'
    <2>1. d \in Deliveries /\ delivery[d] \in Row
      OBVIOUS
    <2>2. AfterFailure(delivery[d]) \in Row
      BY <2>1 DEF AfterFailure
    <2>3. PICK row \in Row : Record(w, d, row)
      BY <1>10, <2>1, <2>2 DEF Succeeds, FailsForGood, Fails
    <2>4. delivery' \in [Deliveries -> Row] /\ worker' \in [Workers -> Process]
      BY <2>1, <2>3 DEF Record, Idle
    <2>5. received' \in [Deliveries -> Nat]
      BY <1>10, <2>1 DEF Succeeds, FailsForGood, Fails
    <2>6. QED
      BY <2>3, <2>4, <2>5 DEF Record
  <1>11. ASSUME NEW w \in Workers, NEW got \in BOOLEAN, Dies(w, got) PROVE Kinds'
    BY <1>11 DEF Dies, Idle
  <1>12. ASSUME NEW lost \in SUBSET Deliveries, Sweep(lost) PROVE Kinds'
    BY <1>12 DEF Sweep, Recovered, AfterFailure
  <1>13. QED
    BY <1>0, <1>1, <1>2, <1>3, <1>4, <1>5, <1>6, <1>7, <1>8, <1>9, <1>10, <1>11, <1>12
    DEF OutboxNext, OutboxStep, Settings, Dispatch, Attempt, Answer

----------------------------------------------------------------------------
(* One sender: only the one process that sends a delivery takes its row    *)
(* out of running, and only a row that nobody sends is claimed.            *)
LEMMA SenderInductive == Kinds /\ OneSender /\ [OutboxNext]_outboxVars => OneSender'
  <1> SUFFICES ASSUME Kinds, OneSender, [OutboxNext]_outboxVars,
                      NEW v \in Workers, NEW q \in Deliveries, Sending(v, q)'
               PROVE  /\ delivery'[q].status = "running"
                      /\ \A u \in Workers : Sending(u, q)' => u = v
    BY DEF OneSender
  <1> DEFINE Goal == /\ delivery'[q].status = "running"
                     /\ \A u \in Workers : Sending(u, q)' => u = v
  <1> USE DEF Kinds, Row, Process, Sending
  <1>0. ASSUME \A u \in Workers : Sending(u, q)' => Sending(u, q),
               delivery'[q].status = delivery[q].status
        PROVE  Goal
    <2>1. Sending(v, q)
      BY <1>0
    <2>2. delivery[q].status = "running" /\ \A u \in Workers : Sending(u, q) => u = v
      BY <2>1 DEF OneSender
    <2>3. QED
      BY <1>0, <2>2
  <1>1. CASE UNCHANGED outboxVars
    BY <1>0, <1>1 DEF outboxVars
  <1>2. ASSUME NEW e \in Events, Emit(e) PROVE Goal
    BY <1>0, <1>2 DEF Emit
  <1>3. ASSUME NEW s \in Subs, UpdateWebhook(s) PROVE Goal
    BY <1>0, <1>3 DEF UpdateWebhook
  <1>4. ASSUME NEW s \in Subs, DeleteWebhook(s) PROVE Goal
    <2>1. Sending(v, q) /\ delivery[q].status = "running"
      BY <1>4 DEF DeleteWebhook, OneSender
    <2>2. QED
      BY <1>0, <1>4, <2>1 DEF DeleteWebhook, Claimable
  <1>5. ASSUME NEW d \in Deliveries, BackoffElapses(d) PROVE Goal
    BY <1>0, <1>5 DEF BackoffElapses
  <1>6. ASSUME NEW d \in Deliveries, NEW sent \in BOOLEAN, RetryDelivery(d, sent) PROVE Goal
    <2>1. delivery[q].status = "running"
      BY <1>6 DEF RetryDelivery, OneSender
    <2>2. q # d /\ delivery'[q] = delivery[q]
      BY <1>6, <2>1 DEF RetryDelivery
    <2>3. QED
      BY <1>0, <1>6, <2>2 DEF RetryDelivery
  <1>7. ASSUME NEW w \in Workers, DispatchRead(w) PROVE Goal
    <2>1. \A u \in Workers : Sending(u, q)' => Sending(u, q)
      BY <1>7 DEF DispatchRead, Dispatching
    <2>2. QED
      BY <1>0, <1>7, <2>1 DEF DispatchRead
  <1>8. ASSUME NEW w \in Workers, NEW sent \in SUBSET worker[w].targets, DispatchCommit(w, sent)
        PROVE  Goal
    <2>1. \A u \in Workers : Sending(u, q)' => Sending(u, q)
      BY <1>8 DEF DispatchCommit, Idle
    <2>2. QED
      BY <1>8, <2>1 DEF DispatchCommit, Created, OneSender
  <1>9. ASSUME NEW w \in Workers, NEW d \in Deliveries, SkipJob(w, d) \/ RefuseJob(w, d) PROVE Goal
    BY <1>0, <1>9 DEF SkipJob, RefuseJob
  <1>10. ASSUME NEW w \in Workers, NEW d \in Deliveries, NEW again \in BOOLEAN, Claim(w, d, again)
         PROVE  Goal
    <2>1. \A u \in Workers : ~Sending(u, d)
      BY <1>10 DEF Claim, Due, Claimable, OneSender
    <2>2. \A u \in Workers : Sending(u, q)' => IF u = w THEN q = d ELSE Sending(u, q)
      BY <1>10 DEF Claim
    <2>3. CASE q = d
      BY <1>10, <2>1, <2>2, <2>3 DEF Claim
    <2>4. CASE q # d
      <3>1. delivery'[q] = delivery[q]
        BY <1>10, <2>4 DEF Claim
      <3>2. \A u \in Workers : Sending(u, q)' => Sending(u, q)
        BY <2>2, <2>4
      <3>3. QED
        BY <1>0, <3>1, <3>2
    <2>5. QED
      BY <2>3, <2>4
  <1>11. ASSUME NEW w \in Workers, NEW d \in worker[w].targets,
                Succeeds(w, d) \/ FailsForGood(w, d) \/ \E got \in BOOLEAN : Fails(w, d, got)
         PROVE  Goal
    <2>1. PICK row : Record(w, d, row)
      BY <1>11 DEF Succeeds, FailsForGood, Fails
    <2>2. \A u \in Workers : Sending(u, q)' => u # w /\ Sending(u, q)
      BY <2>1 DEF Record, Idle
    <2>3. q # d
      BY <2>1, <2>2 DEF Record, OneSender
    <2>4. QED
      BY <2>1, <2>2, <2>3 DEF Record, OneSender
  <1>12. ASSUME NEW w \in Workers, NEW got \in BOOLEAN, Dies(w, got) PROVE Goal
    <2>1. \A u \in Workers : Sending(u, q)' => Sending(u, q)
      BY <1>12 DEF Dies, Idle
    <2>2. QED
      BY <1>0, <1>12, <2>1 DEF Dies
  <1>13. ASSUME NEW lost \in SUBSET Deliveries, Sweep(lost) PROVE Goal
    <2>1. Sending(v, q)
      BY <1>13 DEF Sweep
    <2>2. delivery'[q] = delivery[q]
      BY <1>13, <2>1 DEF Sweep, Recovered, Stale
    <2>3. QED
      BY <1>0, <1>13, <2>2 DEF Sweep
  <1>14. QED
    BY <1>1, <1>2, <1>3, <1>4, <1>5, <1>6, <1>7, <1>8, <1>9, <1>10, <1>11, <1>12, <1>13
    DEF OutboxNext, OutboxStep, Settings, Dispatch, Attempt, Answer

----------------------------------------------------------------------------
(* Budgets.                                                                *)

LEMMA LimitGrows ==
  ASSUME NEW r \in Nat
  PROVE  /\ Limit(r) \in Nat
         /\ MaxAttempts <= Limit(r)
         /\ Limit(r + 1) = Limit(r) + MaxAttempts
         /\ \A k \in Nat : Limit(r) <= Limit(r + k)
  <1>1. MaxAttempts \in Nat
    BY OutboxAssumption
  <1>2. \A m, n \in Nat : m * n \in Nat /\ m * (n + 1) = m * n + m
    OBVIOUS
  <1>3. \A m, n, k \in Nat : m * ((n + k) + 1) = m * (n + 1) + m * k
    OBVIOUS
  <1>4. QED
    BY <1>1, <1>2, <1>3 DEF Limit

LEMMA BudgetInductive ==
  Kinds /\ OneSender /\ Budgeted /\ [OutboxNext]_outboxVars => Budgeted'
  <1> SUFFICES ASSUME Kinds, OneSender, Budgeted, [OutboxNext]_outboxVars, NEW q \in Deliveries
               PROVE  Budget(q)'
    BY DEF Budgeted
  <1> DEFINE SameRow == /\ delivery'[q].status = delivery[q].status
                        /\ delivery'[q].attempts = delivery[q].attempts
                        /\ delivery'[q].max = delivery[q].max
             NoNewSender == \A u \in Workers : Sending(u, q)' => Sending(u, q)
  <1>a. /\ delivery[q] \in Row /\ received[q] \in Nat /\ retries \in Nat /\ MaxAttempts \in Nat \ {0}
        /\ Limit(retries) \in Nat
    BY OutboxAssumption, LimitGrows DEF Kinds
  <1>b. Budget(q)
    BY DEF Budgeted
  <1>0. ASSUME SameRow, NoNewSender, received'[q] = received[q], retries' = retries PROVE Budget(q)'
    BY <1>0, <1>b DEF Budget
  <1> USE DEF Kinds, Sending
  <1>1. CASE UNCHANGED outboxVars
    BY <1>0, <1>1 DEF outboxVars
  <1>2. ASSUME NEW e \in Events, Emit(e) PROVE Budget(q)'
    BY <1>0, <1>2 DEF Emit
  <1>3. ASSUME NEW s \in Subs, UpdateWebhook(s) PROVE Budget(q)'
    BY <1>0, <1>3 DEF UpdateWebhook
  <1>4. ASSUME NEW s \in Subs, DeleteWebhook(s) PROVE Budget(q)'
    <2>1. UNCHANGED <<worker, received, retries>>
      BY <1>4 DEF DeleteWebhook
    <2>2. CASE delivery'[q] = delivery[q]
      BY <1>0, <2>1, <2>2
    <2>3. CASE delivery'[q] = [delivery[q] EXCEPT !.status = "cancelled", !.due = TRUE]
      BY <1>a, <1>b, <2>1, <2>3 DEF Budget, Row, Claimable
    <2>4. QED
      BY <1>4, <2>2, <2>3 DEF DeleteWebhook
  <1>5. ASSUME NEW d \in Deliveries, BackoffElapses(d) PROVE Budget(q)'
    <2>1. SameRow
      BY <1>5 DEF BackoffElapses, Row
    <2>2. QED
      BY <1>0, <1>5, <2>1 DEF BackoffElapses
  <1>6. ASSUME NEW d \in Deliveries, NEW sent \in BOOLEAN, RetryDelivery(d, sent) PROVE Budget(q)'
    <2>1. /\ UNCHANGED <<worker, received>> /\ retries' = retries + 1
          /\ Limit(retries') = Limit(retries) + MaxAttempts
      BY <1>6, <1>a, LimitGrows DEF RetryDelivery
    <2>2. CASE q # d
      <3>1. delivery'[q] = delivery[q]
        BY <1>6, <2>2 DEF RetryDelivery
      <3>2. QED
        BY <1>a, <1>b, <2>1, <3>1 DEF Budget, Row
    <2>3. CASE q = d
      <3>1. delivery'[q] = [delivery[q] EXCEPT !.status = "pending", !.due = TRUE,
                                               !.max = delivery[q].attempts + MaxAttempts]
        BY <1>6, <2>3 DEF RetryDelivery
      <3>2. /\ delivery'[q].attempts = delivery[q].attempts /\ delivery'[q].status = "pending"
            /\ delivery'[q].max = delivery[q].attempts + MaxAttempts
        BY <1>a, <3>1 DEF Row
      <3>3. QED
        BY <1>a, <1>b, <2>1, <3>2 DEF Budget, Row
    <2>4. QED
      BY <2>2, <2>3
  <1>7. ASSUME NEW w \in Workers, DispatchRead(w) PROVE Budget(q)'
    <2>1. NoNewSender
      BY <1>7 DEF DispatchRead, Dispatching
    <2>2. QED
      BY <1>0, <1>7, <2>1 DEF DispatchRead
  <1>8. ASSUME NEW w \in Workers, NEW sent \in SUBSET worker[w].targets, DispatchCommit(w, sent)
        PROVE  Budget(q)'
    <2>1. NoNewSender /\ UNCHANGED <<received, retries>>
      BY <1>8 DEF DispatchCommit, Idle
    <2>2. CASE delivery'[q] = delivery[q]
      BY <1>0, <2>1, <2>2
    <2>3. CASE q \in Created(w, sent) /\ delivery'[q] = NewDelivery
      <3>1. received[q] = 0 /\ \A u \in Workers : ~Sending(u, q)
        BY <1>b, <2>3 DEF Created, Budget, OneSender
      <3>2. MaxAttempts <= Limit(retries)
        BY <1>a, LimitGrows
      <3>3. /\ delivery'[q].attempts = 0 /\ delivery'[q].max = MaxAttempts
            /\ delivery'[q].status = "pending"
        BY <2>3 DEF NewDelivery
      <3>4. /\ received'[q] = 0 /\ Limit(retries)' = Limit(retries)
            /\ \A u \in Workers : ~Sending(u, q)'
        BY <2>1, <3>1 DEF Limit
      <3>5. QED
        BY <1>a, <3>2, <3>3, <3>4 DEF Budget
    <2>4. QED
      BY <1>8, <2>2, <2>3 DEF DispatchCommit
  <1>9. ASSUME NEW w \in Workers, NEW d \in Deliveries, SkipJob(w, d) \/ RefuseJob(w, d)
        PROVE  Budget(q)'
    BY <1>0, <1>9 DEF SkipJob, RefuseJob
  <1>10. ASSUME NEW w \in Workers, NEW d \in Deliveries, NEW again \in BOOLEAN, Claim(w, d, again)
         PROVE  Budget(q)'
    <2>1. /\ UNCHANGED <<received, retries>>
          /\ \A u \in Workers : Sending(u, q)' => Sending(u, q) \/ q = d
      BY <1>10 DEF Claim
    <2>2. CASE q # d
      <3>1. delivery'[q] = delivery[q]
        BY <1>10, <2>2 DEF Claim
      <3>2. QED
        BY <1>0, <2>1, <2>2, <3>1
    <2>3. CASE q = d
      <3>1. delivery[q].attempts < delivery[q].max
        BY <1>10, <1>b, <2>3 DEF Claim, Due, Budget
      <3>2. /\ delivery'[q].status = "running" /\ delivery'[q].max = delivery[q].max
            /\ delivery'[q].attempts = delivery[q].attempts + 1
        BY <1>10, <1>a, <2>3 DEF Claim, Row
      <3>3. QED
        BY <1>a, <1>b, <2>1, <3>1, <3>2 DEF Budget, Row, Claimable, Limit
    <2>4. QED
      BY <2>2, <2>3
  <1>11. ASSUME NEW w \in Workers, NEW d \in worker[w].targets,
                Succeeds(w, d) \/ FailsForGood(w, d) \/ \E got \in BOOLEAN : Fails(w, d, got)
         PROVE  Budget(q)'
    <2>1. PICK row : Record(w, d, row)
      BY <1>11 DEF Succeeds, FailsForGood, Fails
    <2>2. /\ retries' = retries
          /\ \A u \in Workers : Sending(u, q)' => Sending(u, q) /\ u # w
      BY <2>1 DEF Record, Idle
    <2>3. CASE q # d
      <3>1. delivery'[q] = delivery[q]
        BY <2>1, <2>3 DEF Record
      <3>2. received'[q] = received[q]
        BY <1>11, <2>3 DEF Succeeds, FailsForGood, Fails
      <3>3. QED
        BY <1>0, <2>2, <3>1, <3>2
    <2>4. CASE q = d
      <3>1. received[q] < delivery[q].attempts /\ \A u \in Workers : ~Sending(u, q)'
        BY <1>b, <2>1, <2>2, <2>4 DEF Budget, Record, OneSender
      <3>2. /\ received'[q] \in {received[q], received[q] + 1}
            /\ delivery'[q].attempts = delivery[q].attempts
            /\ delivery'[q].max = delivery[q].max
            /\ \/ delivery'[q].status = "succeeded" /\ received'[q] = received[q] + 1
               \/ delivery'[q].status = "dead_letter"
               \/ delivery'[q].status = "failed" /\ delivery[q].attempts < delivery[q].max
        <4>1. CASE Succeeds(w, d)
          BY <1>a, <2>4, <4>1 DEF Succeeds, Record, Row
        <4>2. CASE FailsForGood(w, d)
          BY <1>a, <2>4, <4>2 DEF FailsForGood, Record, Row
        <4>3. ASSUME NEW got \in BOOLEAN, Fails(w, d, got)
              PROVE  /\ received'[q] \in {received[q], received[q] + 1}
                     /\ delivery'[q] = AfterFailure(delivery[q])
          BY <1>a, <2>4, <4>3 DEF Fails, Record
        <4>4. ASSUME delivery'[q] = AfterFailure(delivery[q])
              PROVE  /\ delivery'[q].attempts = delivery[q].attempts
                     /\ delivery'[q].max = delivery[q].max
                     /\ \/ delivery'[q].status = "dead_letter"
                        \/ delivery'[q].status = "failed" /\ delivery[q].attempts < delivery[q].max
          BY <1>a, <4>4 DEF AfterFailure, Row
        <4>5. QED
          BY <1>11, <4>1, <4>2, <4>3, <4>4
      <3>3. QED
        BY <1>a, <1>b, <2>2, <3>1, <3>2 DEF Budget, Row, Claimable, Limit
    <2>5. QED
      BY <2>3, <2>4
  <1>12. ASSUME NEW w \in Workers, NEW got \in BOOLEAN, Dies(w, got) PROVE Budget(q)'
    <2>1. /\ UNCHANGED <<delivery, retries>>
          /\ \A u \in Workers : Sending(u, q)' => Sending(u, q) /\ u # w
      BY <1>12 DEF Dies, Idle
    <2>2. CASE received'[q] = received[q]
      BY <1>0, <2>1, <2>2
    <2>3. CASE Sending(w, q) /\ received'[q] = received[q] + 1
      <3>1. /\ received[q] < delivery[q].attempts /\ \A u \in Workers : ~Sending(u, q)'
            /\ delivery[q].status = "running"
        BY <1>b, <2>1, <2>3 DEF Budget, OneSender
      <3>2. delivery'[q] = delivery[q] /\ Limit(retries)' = Limit(retries)
        BY <2>1 DEF Limit
      <3>3. delivery[q].attempts \in Nat /\ delivery[q].max \in Nat
        BY <1>a DEF Row
      <3>4. QED
        BY <1>a, <1>b, <2>3, <3>1, <3>2, <3>3 DEF Budget
    <2>4. QED
      BY <1>12, <1>a, <2>2, <2>3 DEF Dies
  <1>13. ASSUME NEW lost \in SUBSET Deliveries, Sweep(lost) PROVE Budget(q)'
    <2>1. /\ UNCHANGED <<worker, received, retries>> /\ delivery'[q] = Recovered(q)
      BY <1>13 DEF Sweep
    <2>2. CASE ~Stale(q)
      BY <1>0, <2>1, <2>2 DEF Recovered
    <2>3. CASE Stale(q)
      <3>1. /\ delivery'[q].attempts = delivery[q].attempts
            /\ delivery'[q].max = delivery[q].max
            /\ \/ delivery'[q].status = "dead_letter"
               \/ delivery'[q].status = "failed" /\ delivery[q].attempts < delivery[q].max
        BY <1>a, <2>1, <2>3 DEF Recovered, AfterFailure, Row
      <3>2. \A u \in Workers : ~Sending(u, q)'
        BY <2>1, <2>3 DEF Stale
      <3>3. received'[q] = received[q] /\ Limit(retries)' = Limit(retries)
        BY <2>1 DEF Limit
      <3>4. delivery[q].attempts \in Nat /\ delivery[q].max \in Nat
        BY <1>a DEF Row
      <3>5. QED
        BY <1>a, <1>b, <3>1, <3>2, <3>3, <3>4 DEF Budget, Claimable
    <2>4. QED
      BY <2>2, <2>3
  <1>14. QED
    BY <1>1, <1>2, <1>3, <1>4, <1>5, <1>6, <1>7, <1>8, <1>9, <1>10, <1>11, <1>12, <1>13
    DEF OutboxNext, OutboxStep, Settings, Dispatch, Attempt, Answer

----------------------------------------------------------------------------
(* No row disappears, and no event is emitted twice.                       *)
LEMMA RowsRemain ==
  Kinds /\ OneSender /\ [OutboxNext]_outboxVars =>
    \A q \in Deliveries : delivery[q].status # "none" => delivery'[q].status # "none"
  <1> SUFFICES ASSUME Kinds, OneSender, [OutboxNext]_outboxVars,
                      NEW q \in Deliveries, delivery[q].status # "none"
               PROVE  delivery'[q].status # "none"
    OBVIOUS
  <1>a. delivery[q] \in Row
    BY DEF Kinds
  <1>1. CASE delivery' = delivery
    BY <1>1
  <1>2. ASSUME NEW s \in Subs, DeleteWebhook(s) PROVE delivery'[q].status # "none"
    BY <1>2, <1>a DEF DeleteWebhook, Row
  <1>3. ASSUME NEW d \in Deliveries, BackoffElapses(d) PROVE delivery'[q].status # "none"
    BY <1>3, <1>a DEF BackoffElapses, Row, Kinds
  <1>4. ASSUME NEW d \in Deliveries, NEW sent \in BOOLEAN, RetryDelivery(d, sent)
        PROVE  delivery'[q].status # "none"
    BY <1>4, <1>a DEF RetryDelivery, Row, Kinds
  <1>5. ASSUME NEW w \in Workers, NEW sent \in SUBSET worker[w].targets, DispatchCommit(w, sent)
        PROVE  delivery'[q].status # "none"
    BY <1>5 DEF DispatchCommit, NewDelivery
  <1>6. ASSUME NEW w \in Workers, NEW d \in Deliveries, NEW again \in BOOLEAN, Claim(w, d, again)
        PROVE  delivery'[q].status # "none"
    BY <1>6, <1>a DEF Claim, Row, Kinds
  <1>7. ASSUME NEW w \in Workers, NEW d \in worker[w].targets,
               Succeeds(w, d) \/ FailsForGood(w, d) \/ \E got \in BOOLEAN : Fails(w, d, got)
        PROVE  delivery'[q].status # "none"
    <2>1. d \in Deliveries /\ delivery[d] \in Row
      BY DEF Kinds, Process
    <2>2. AfterFailure(delivery[d]).status # "none"
      BY <2>1 DEF AfterFailure, Row
    <2>3. ASSUME NEW row, Record(w, d, row), row.status # "none" PROVE delivery'[q].status # "none"
      BY <2>1, <2>3 DEF Record, Kinds
    <2>4. CASE Succeeds(w, d)
      BY <2>1, <2>3, <2>4 DEF Succeeds, Row
    <2>5. CASE FailsForGood(w, d)
      BY <2>1, <2>3, <2>5 DEF FailsForGood, Row
    <2>6. QED
      BY <1>7, <2>2, <2>3, <2>4, <2>5 DEF Fails
  <1>8. ASSUME NEW lost \in SUBSET Deliveries, Sweep(lost) PROVE delivery'[q].status # "none"
    BY <1>8, <1>a DEF Sweep, Recovered, AfterFailure, Row
  <1>9. QED
    BY <1>1, <1>2, <1>3, <1>4, <1>5, <1>6, <1>7, <1>8
    DEF OutboxNext, OutboxStep, outboxVars, Settings, Dispatch, Attempt, Answer, Emit,
        UpdateWebhook, DispatchRead, SkipJob, RefuseJob, Dies

LEMMA OwedInductive == Kinds /\ Owed /\ [OutboxNext]_outboxVars => Owed'
  <1> SUFFICES ASSUME Kinds, Owed, [OutboxNext]_outboxVars PROVE Owed'
    OBVIOUS
  <1> DEFINE Watched(e) == \A s \in watching[e] : Enabled(s)
             Read(w) == worker[w].at = "dispatching" =>
               \A e \in worker[w].batch :
                 /\ event[e] # "none"
                 /\ \A s \in watching[e] : e \in Wants[s] => <<s, e>> \in worker[w].targets
  <1>0. /\ \A e \in Events : Watched(e)
        /\ \A w \in Workers : Read(w)
    BY DEF Owed
  <1> SUFFICES (\A e \in Events : Watched(e))' /\ (\A w \in Workers : Read(w))'
    BY DEF Owed
  <1>a. ASSUME \A e \in Events : event[e] # "none" => event'[e] # "none" /\ watching'[e] \subseteq watching[e],
               \A w \in Workers : worker'[w].at = "dispatching" => worker'[w] = worker[w]
        PROVE  (\A w \in Workers : Read(w))'
    BY <1>0, <1>a DEF Kinds, Process
  <1>b. ASSUME \A e \in Events : watching'[e] \subseteq watching[e],
               \A e \in Events : \A s \in watching'[e] : subscription'[s] = subscription[s]
        PROVE  (\A e \in Events : Watched(e))'
    BY <1>0, <1>b DEF Enabled
  <1>1. CASE UNCHANGED <<watching, subscription>> /\ UNCHANGED event
             /\ \A w \in Workers : worker'[w].at = "dispatching" => worker'[w] = worker[w]
    BY <1>1, <1>a, <1>b
  <1>2. ASSUME NEW e \in Events, Emit(e) PROVE Owed'
    <2>1. (\A f \in Events : Watched(f))'
      BY <1>0, <1>2 DEF Emit, Enabled, Kinds
    <2>2. (\A w \in Workers : Read(w))'
      BY <1>a, <1>2 DEF Emit, Kinds
    <2>3. QED
      BY <2>1, <2>2 DEF Owed
  <1>3. ASSUME NEW s \in Subs, UpdateWebhook(s) PROVE Owed'
    <2>1. \A e \in Events : watching'[e] \subseteq watching[e]
      BY <1>3 DEF UpdateWebhook, Forget
    <2>2. \A e \in Events : \A t \in watching'[e] : subscription'[t] = subscription[t]
      BY <1>0, <1>3 DEF UpdateWebhook, Forget, Enabled, Kinds
    <2>3. UNCHANGED <<event, worker>>
      BY <1>3 DEF UpdateWebhook
    <2>4. QED
      BY <1>a, <1>b, <2>1, <2>2, <2>3 DEF Owed
  <1>4. ASSUME NEW s \in Subs, DeleteWebhook(s) PROVE Owed'
    <2>1. \A e \in Events : watching'[e] = watching[e] \ {s}
      BY <1>4 DEF DeleteWebhook, Forget
    <2>2. \A e \in Events : \A t \in watching'[e] : subscription'[t] = subscription[t]
      BY <1>4, <2>1 DEF DeleteWebhook, Kinds
    <2>3. UNCHANGED <<event, worker>>
      BY <1>4 DEF DeleteWebhook
    <2>4. QED
      BY <1>a, <1>b, <2>1, <2>2, <2>3 DEF Owed
  <1>5. ASSUME NEW w \in Workers, DispatchRead(w) PROVE Owed'
    <2>1. UNCHANGED <<event, watching, subscription>>
      BY <1>5 DEF DispatchRead
    <2>2. PICK batch \in SUBSET Events :
            /\ \A e \in batch : event[e] = "pending"
            /\ worker' = [worker EXCEPT ![w] = Dispatching(batch)]
      BY <1>5 DEF DispatchRead
    <2>3. \A e \in batch : \A s \in watching[e] : e \in Wants[s] => <<s, e>> \in Targets(batch)
      BY <1>0 DEF Targets, Kinds
    <2>4. ASSUME NEW u \in Workers PROVE Read(u)'
      <3>1. CASE u = w
        BY <2>1, <2>2, <2>3, <3>1 DEF Dispatching, Kinds
      <3>2. CASE u # w
        BY <1>0, <2>1, <2>2, <3>2 DEF Kinds
      <3>3. QED
        BY <3>1, <3>2
    <2>5. QED
      BY <1>b, <2>1, <2>4 DEF Owed
  <1>6. ASSUME NEW w \in Workers, NEW sent \in SUBSET worker[w].targets, DispatchCommit(w, sent)
        PROVE  Owed'
    <2>1. UNCHANGED <<watching, subscription>>
      BY <1>6 DEF DispatchCommit
    <2>2. \A e \in Events : event[e] # "none" => event'[e] # "none"
      BY <1>6 DEF DispatchCommit
    <2>3. \A u \in Workers : worker'[u].at = "dispatching" => worker'[u] = worker[u]
      BY <1>6 DEF DispatchCommit, Idle, Kinds
    <2>4. QED
      BY <1>a, <1>b, <2>1, <2>2, <2>3 DEF Owed
  <1>7. ASSUME NEW w \in Workers, NEW d \in Deliveries, NEW again \in BOOLEAN, Claim(w, d, again)
        PROVE  Owed'
    BY <1>a, <1>b, <1>7 DEF Claim, Kinds, Owed
  <1>8. ASSUME NEW w \in Workers, NEW d \in worker[w].targets,
               Succeeds(w, d) \/ FailsForGood(w, d) \/ \E got \in BOOLEAN : Fails(w, d, got)
        PROVE  Owed'
    <2>1. PICK row : Record(w, d, row)
      BY <1>8 DEF Succeeds, FailsForGood, Fails
    <2>2. UNCHANGED subscription
      BY <2>1 DEF Record
    <2>3. QED
      BY <1>a, <1>b, <2>1, <2>2 DEF Record, Idle, Kinds, Owed
  <1>9. ASSUME NEW w \in Workers, NEW got \in BOOLEAN, Dies(w, got) PROVE Owed'
    BY <1>a, <1>b, <1>9 DEF Dies, Idle, Kinds, Owed
  <1>10. QED
    BY <1>1, <1>2, <1>3, <1>4, <1>5, <1>6, <1>7, <1>8, <1>9
    DEF OutboxNext, OutboxStep, outboxVars, Settings, Dispatch, Attempt, Answer, BackoffElapses,
        RetryDelivery, SkipJob, RefuseJob, Sweep, Owed

LEMMA NothingForgottenInductive ==
  Kinds /\ OneSender /\ Owed /\ NothingForgotten /\ [OutboxNext]_outboxVars => NothingForgotten'
  <1> SUFFICES ASSUME Kinds, OneSender, Owed, NothingForgotten, [OutboxNext]_outboxVars,
                      NEW e \in Events, NEW s \in Subs,
                      event'[e] = "dispatched", s \in watching'[e], e \in Wants[s]
               PROVE  delivery'[<<s, e>>].status # "none"
    BY DEF NothingForgotten
  <1>1. <<s, e>> \in Deliveries
    BY DEF Deliveries
  <1>2. CASE event[e] = "dispatched" /\ s \in watching[e]
    BY <1>1, <1>2, RowsRemain DEF NothingForgotten
  <1>3. CASE \E w \in Workers : \E sent \in SUBSET worker[w].targets : DispatchCommit(w, sent)
    <2>1. PICK w \in Workers : \E sent \in SUBSET worker[w].targets : DispatchCommit(w, sent)
      BY <1>3
    <2>2. PICK sent \in SUBSET worker[w].targets : DispatchCommit(w, sent)
      BY <2>1
    <2>3. s \in watching[e]
      BY <2>2 DEF DispatchCommit
    <2>4. CASE e \in worker[w].batch
      <3>1. <<s, e>> \in worker[w].targets
        BY <2>2, <2>3, <2>4 DEF Owed, DispatchCommit
      <3>2. QED
        BY <1>1, <2>2, <3>1 DEF DispatchCommit, Created, NewDelivery
    <2>5. CASE e \notin worker[w].batch
      BY <1>2, <2>2, <2>3, <2>5 DEF DispatchCommit
    <2>6. QED
      BY <2>4, <2>5
  <1>4. CASE UNCHANGED event /\ \A f \in Events : watching'[f] \subseteq watching[f]
    BY <1>2, <1>4
  <1>5. ASSUME NEW f \in Events, Emit(f) PROVE FALSE \/ (event[e] = "dispatched" /\ s \in watching[e])
    BY <1>5 DEF Emit, Kinds
  <1>6. QED
    BY <1>2, <1>3, <1>4, <1>5
    DEF OutboxNext, OutboxStep, outboxVars, Settings, Dispatch, Attempt, Answer, UpdateWebhook,
        DeleteWebhook, Forget, BackoffElapses, RetryDelivery, DispatchRead, SkipJob, RefuseJob,
        Claim, Succeeds, FailsForGood, Fails, Record, Dies, Sweep

----------------------------------------------------------------------------
LEMMA InitInv == OutboxInit => OutboxInv
  <1> SUFFICES ASSUME OutboxInit PROVE OutboxInv
    OBVIOUS
  <1> USE OutboxAssumption DEF OutboxInit
  <1>1. Kinds
    BY DEF Kinds, EventStatuses, DeliveryStatuses, Row, Process, Idle, NoDelivery
  <1>2. OneSender
    BY DEF OneSender, Sending, Idle
  <1>3. Budgeted
    <2>1. Limit(0) \in Nat
      BY LimitGrows
    <2>2. QED
      BY <2>1 DEF Budgeted, Budget, Sending, Idle, NoDelivery, Claimable
  <1>4. Owed
    BY DEF Owed, Idle
  <1>5. NothingForgotten
    BY DEF NothingForgotten
  <1>6. QED
    BY <1>1, <1>2, <1>3, <1>4, <1>5 DEF OutboxInv

LEMMA InvInductive == OutboxInv /\ [OutboxNext]_outboxVars => OutboxInv'
  BY KindsInductive, SenderInductive, BudgetInductive, OwedInductive, NothingForgottenInductive
  DEF OutboxInv

(* Every reachable state of the outbox satisfies the invariant.            *)
THEOREM Invariance == OutboxSpec => []OutboxInv
  BY InitInv, InvInductive, PTL DEF OutboxSpec

(* The rows, the queue and the workers have values of their kind, and no   *)
(* delivery is attempted more often than its first budget and one more for *)
(* every manual retry.                                                     *)
THEOREM TypeCorrect == OutboxSpec => []OutboxTypeOK
  <1>1. OutboxInv => OutboxTypeOK
    <2> SUFFICES ASSUME OutboxInv PROVE OutboxTypeOK
      OBVIOUS
    <2>1. ASSUME NEW d \in Deliveries PROVE delivery[d].attempts \in 0..(MaxAttempts * (MaxRetries + 1))
      <3>1. PICK k \in Nat : MaxRetries = retries + k
        <4>1. MaxRetries - retries \in Nat /\ MaxRetries = retries + (MaxRetries - retries)
          BY OutboxAssumption DEF OutboxInv, Kinds
        <4>2. QED
          BY <4>1
      <3>2. retries \in Nat /\ delivery[d].attempts \in Nat /\ delivery[d].max \in Nat
        BY DEF OutboxInv, Kinds, Row
      <3>3. Limit(retries) <= Limit(MaxRetries) /\ Limit(retries) \in Nat /\ Limit(MaxRetries) \in Nat
        BY <3>1, <3>2, LimitGrows, OutboxAssumption
      <3>4. delivery[d].attempts <= delivery[d].max /\ delivery[d].max <= Limit(retries)
        BY DEF OutboxInv, Budgeted, Budget
      <3>5. delivery[d].attempts \in 0..Limit(MaxRetries)
        BY <3>2, <3>3, <3>4
      <3>6. QED
        BY <3>5 DEF Limit
    <2>2. QED
      BY <2>1 DEF OutboxInv, Kinds, Row, Process, OutboxTypeOK
  <1>2. QED
    BY <1>1, Invariance, PTL

(* However many jobs a delivery has, and whatever crashes, one worker at a *)
(* time sends it.                                                          *)
THEOREM OneSenderHolds == OutboxSpec => []OneSender
  BY Invariance, PTL DEF OutboxInv

(* Attempts are counted before they are made and stay within the budget.   *)
THEOREM BudgetHolds == OutboxSpec => []WithinBudget
  <1>1. OutboxInv => WithinBudget
    BY DEF OutboxInv, Budgeted, Budget, WithinBudget
  <1>2. QED
    BY <1>1, Invariance, PTL

(* A dispatched event has a row for everybody who waited for it.           *)
THEOREM NothingForgottenHolds == OutboxSpec => []NothingForgotten
  BY Invariance, PTL DEF OutboxInv

----------------------------------------------------------------------------
(* What a step may do to a row that is final: only a manual retry does     *)
(* anything, since a job and the sweep leave it alone and whoever sends a  *)
(* delivery has its row in running.                                        *)
LEMMA FinalStep ==
  ASSUME OutboxInv, [OutboxNext]_outboxVars, NEW q \in Deliveries,
         delivery[q].status \in Finished
  PROVE  \/ delivery'[q].status = delivery[q].status
         \/ /\ delivery[q].status = "dead_letter" /\ delivery'[q].status = "pending"
            /\ retries' > retries
  <1> DEFINE Same == delivery'[q].status = delivery[q].status
  <1>a. /\ delivery[q] \in Row /\ delivery \in [Deliveries -> Row] /\ retries \in Nat
        /\ \A w \in Workers : ~Sending(w, q)
    BY DEF OutboxInv, Kinds, OneSender, Finished
  <1>1. CASE delivery' = delivery
    BY <1>1
  <1>2. ASSUME NEW s \in Subs, DeleteWebhook(s) PROVE Same
    BY <1>2 DEF DeleteWebhook, Finished, Claimable
  <1>3. ASSUME NEW d \in Deliveries, BackoffElapses(d) PROVE Same
    BY <1>3, <1>a DEF BackoffElapses, Row
  <1>4. ASSUME NEW d \in Deliveries, NEW sent \in BOOLEAN, RetryDelivery(d, sent), ~Same
        PROVE  /\ delivery[q].status = "dead_letter" /\ delivery'[q].status = "pending"
               /\ retries' > retries
    <2>1. q = d
      BY <1>4, <1>a DEF RetryDelivery
    <2>2. QED
      BY <1>4, <1>a, <2>1 DEF RetryDelivery, Finished, Row
  <1>5. ASSUME NEW w \in Workers, NEW sent \in SUBSET worker[w].targets, DispatchCommit(w, sent)
        PROVE  Same
    BY <1>5 DEF DispatchCommit, Created, Finished
  <1>6. ASSUME NEW w \in Workers, NEW d \in Deliveries, NEW again \in BOOLEAN, Claim(w, d, again)
        PROVE  Same
    BY <1>6, <1>a DEF Claim, Due, Claimable, Finished
  <1>7. ASSUME NEW w \in Workers, NEW d \in worker[w].targets,
               Succeeds(w, d) \/ FailsForGood(w, d) \/ \E got \in BOOLEAN : Fails(w, d, got)
        PROVE  Same
    <2>1. PICK row : Record(w, d, row)
      BY <1>7 DEF Succeeds, FailsForGood, Fails
    <2>2. q # d
      BY <1>a, <2>1 DEF Record
    <2>3. QED
      BY <1>a, <2>1, <2>2 DEF Record
  <1>8. ASSUME NEW lost \in SUBSET Deliveries, Sweep(lost) PROVE Same
    BY <1>8 DEF Sweep, Recovered, Stale, Finished
  <1>9. QED
    BY <1>1, <1>2, <1>3, <1>4, <1>5, <1>6, <1>7, <1>8
    DEF OutboxNext, OutboxStep, outboxVars, Settings, Dispatch, Attempt, Answer, Emit,
        UpdateWebhook, DispatchRead, SkipJob, RefuseJob, Dies

(* A success and a cancellation are final; a dead letter is left by hand   *)
(* only, to be pending again.                                              *)
THEOREM FinalHolds == OutboxSpec => FinalStays
  <1>1. OutboxInv /\ [OutboxNext]_outboxVars =>
          [\A d \in Deliveries :
             /\ delivery[d].status \in {"succeeded", "cancelled"} =>
                  delivery'[d].status = delivery[d].status
             /\ delivery[d].status = "dead_letter" =>
                  \/ delivery'[d].status = "dead_letter"
                  \/ delivery'[d].status = "pending" /\ retries' > retries]_outboxVars
    BY FinalStep DEF Finished
  <1>2. QED
    BY <1>1, Invariance, PTL DEF OutboxSpec, FinalStays

----------------------------------------------------------------------------
(* A step of Integrations is a step of Outbox or leaves it alone: whatever *)
(* sync jobs the one transaction of the sweep also writes                  *)
(* (integrations_sweep), the deliveries see one sweep or none.             *)
LEMMA DeliveriesAlone == [IntegrationsNext]_allVars => [OutboxNext]_outboxVars
  BY DEF IntegrationsNext, allVars, OutboxNext, IntegrationsSweep, syncVars, outboxVars

THEOREM OutboxWithin == IntegrationsSpec => OutboxSpec
  <1>1. IntegrationsInit => OutboxInit
    BY DEF IntegrationsInit
  <1>2. QED
    BY <1>1, DeliveriesAlone, PTL DEF IntegrationsSpec, OutboxSpec

(* Sharing the sweep with the sync engine costs deliveries none of their   *)
(* safety: one sender, the budget, nothing forgotten, final rows.          *)
THEOREM SharedSweepSafe ==
  IntegrationsSpec => [](OneSender /\ WithinBudget /\ NothingForgotten) /\ FinalStays
  BY OutboxWithin, OneSenderHolds, BudgetHolds, NothingForgottenHolds, FinalHolds, PTL
=============================================================================
