---------------------------- MODULE Integrations ----------------------------
(***************************************************************************)
(* The outbox and the sync engine share one sweep (jobs.py                 *)
(* integrations_sweep): stale and due deliveries and failed sync jobs are  *)
(* written in one transaction, whose jobs are queued after its commit.     *)
(* When the unique index on active sync jobs refuses one of its rows, the  *)
(* transaction fails and nothing is queued.                                *)
(***************************************************************************)
EXTENDS Outbox, SyncEngine

allVars == <<outboxVars, syncVars>>

IntegrationsInit == OutboxInit /\ SyncInit

\* mutant of IntegrationsSweep: the sync half alone
SyncHalf(old, lostDeliveries, lostJobs) == SweepJobs(old, lostJobs) /\ UNCHANGED outboxVars
IntegrationsSweep(old, lostDeliveries, lostJobs) ==
  SweepJobs(old, lostJobs) /\ Sweep(lostDeliveries)

IntegrationsNext ==
  \/ OutboxStep /\ UNCHANGED syncVars
  \/ SyncStep /\ UNCHANGED outboxVars
  \/ \E old, lostJobs \in SUBSET Jobs, lostDeliveries \in SUBSET Deliveries :
       IntegrationsSweep(old, lostDeliveries, lostJobs)

IntegrationsSpec == IntegrationsInit /\ [][IntegrationsNext]_allVars

(* As in the two parts, with the one sweep of both.                        *)
FairIntegrationsSpec ==
  IntegrationsSpec /\ WorkersGoOn /\ RunnersGoOn /\ WF_allVars(IntegrationsSweep(Retryable, {}, {}))

----------------------------------------------------------------------------
(* The sweep "re-drives anything ... whose backoff elapsed" (jobs.py:5): a *)
(* delivery whose retry is due does not stay failed.  (EveryDeliveryEnds   *)
(* and JobsSettle are checked of this module too, with one sync job.)      *)
BackoffRedriven ==
  \A d \in Deliveries :
    delivery[d].status = "failed" /\ delivery[d].due ~> delivery[d].status # "failed"
=============================================================================
