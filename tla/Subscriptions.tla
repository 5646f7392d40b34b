--------------------------- MODULE Subscriptions ---------------------------
(***************************************************************************)
(* A business's own subscription (pi_saas/billing.py, manual_billing.py,   *)
(* entitlement.py, jobs.py), which it pays by card through Stripe's hosted *)
(* checkout or by hand, by bank or in cash, verified by an operator.       *)
(*                                                                         *)
(* Every handler locks the row of the subscription first and holds it to   *)
(* its commit, so each is one action; checkout commits in the middle, to   *)
(* keep the idempotency key of an attempt before it calls Stripe.  Stripe  *)
(* acts by itself and reports each act by events that are stored once and  *)
(* applied in any order, one of them long after another.                   *)
(*                                                                         *)
(* One clock gives the second of an event and measures the periods; what   *)
(* happens between two of its ticks happens in the same second.  0 stands  *)
(* for a date, a subscription or a checkout that is not there.             *)
(***************************************************************************)
EXTENDS Integers, Sequences

CONSTANTS
  Plans,
  Payments,      \* request keys of payments by hand
  MaxCheckouts,  \* bound: checkout attempts, each of at most one card subscription
  Period,        \* that a payment pays for
  TrialEnd,
  Slack,         \* for the event of a renewal (two days)
  Grace,         \* pi_past_due_grace_days
  MaxTime,       \* bound: of the clock
  MaxActs        \* bound: what Stripe does

Checkouts == 1..MaxCheckouts

ASSUME SubscriptionsAssumption ==
  /\ Plans # {}
  /\ MaxCheckouts \in Nat /\ Period \in Nat \ {0}
  /\ TrialEnd \in Nat /\ Slack \in Nat /\ Grace \in Nat
  /\ MaxTime \in Nat \ {0} /\ MaxActs \in Nat

VARIABLES
  now,
  sub,       \* the row of the subscription
  attempt,   \* checkout attempts in the order of created_at
  session,   \* session[c]: Stripe's checkout session of attempt c
  card,      \* card[c]: Stripe's subscription bought in that session
  event,     \* events not applied yet
  settled,   \* invoices recorded as paid
  payment,   \* payment[p]: a payment by hand; cancelled and rejected ones are "closed"
  keys,      \* card subscriptions whose cancellation was asked for: the key is used
  acts,      \* counter (bound), and the number of an event
  doubled    \* whether one more payment was taken beside a live one (history)

subVars == <<now, sub, attempt, session, card, event, settled, payment, keys, acts, doubled>>

stripeVars == <<session, card, event, keys, acts>>

NoPlan == "no plan"
NoCard == [state |-> "none", plan |-> NoPlan, ending |-> FALSE, end |-> 0]
NoPayment == [status |-> "none", plan |-> NoPlan, start |-> 0, end |-> 0, prev |-> 0]

SubInit ==
  /\ now = 1
  /\ \E plan \in Plans :
       sub = [plan |-> plan, status |-> "trialing", ending |-> FALSE, by |-> "manual", ext |-> 0,
              last |-> 0, end |-> 0, grace |-> 0]
  /\ attempt = <<>>
  /\ session = [c \in Checkouts |-> "none"] /\ card = [c \in Checkouts |-> NoCard]
  /\ event = {} /\ settled = {} /\ keys = {} /\ acts = 0
  /\ payment = [p \in Payments |-> NoPayment]
  /\ doubled = FALSE

Charging(c) == card[c].state \in {"active", "past_due"}
HasCard == sub.ext # 0 /\ sub.status # "canceled"
PaidByHand == sub.by = "manual" /\ sub.status = "active" /\ sub.end > now
Pending == \E p \in Payments : payment[p].status \in {"awaiting", "submitted"}
Late(c) == attempt[c].expires <= now

\* The attempts that block another purchase: a completed one blocks it until
\* the subscription it brought was cancelled.
Blocking ==
  {c \in DOMAIN attempt :
     \/ attempt[c].status \in {"creating", "open"}
     \/ attempt[c].status = "complete" /\ ~(sub.ext # 0 /\ sub.status = "canceled")}
Latest == {c \in Blocking : \A d \in Blocking : d <= c}

----------------------------------------------------------------------------
(* checkout                                                                *)

MayBuy == ~HasCard /\ ~PaidByHand /\ ~Pending

\* Up to the commit that keeps the key.  An attempt that is over is given up
\* only when Stripe says that its session expired.
OpenCheckout(plan) ==
  LET over == {c \in Latest : Late(c) /\ attempt[c].status # "creating" /\ session[c] = "expired"}
      kept == [c \in DOMAIN attempt |-> IF c \in over THEN [attempt[c] EXCEPT !.status = "expired"]
                                        ELSE attempt[c]] IN
  /\ Len(attempt) < MaxCheckouts
  /\ MayBuy /\ Latest \subseteq over
  /\ attempt' = Append(kept, [status |-> "creating", plan |-> plan, expires |-> now + 1])
  /\ UNCHANGED <<now, sub, stripeVars, settled, payment, doubled>>

\* By the same request or by a later one, with the same key: Stripe has one
\* session for it.  The answer may be lost.
CallCheckout(c, answered) ==
  /\ c \in DOMAIN attempt /\ attempt[c].status = "creating" /\ ~Late(c)
  /\ session' = [session EXCEPT ![c] = IF @ = "none" THEN "open" ELSE @]
  /\ attempt' = IF answered THEN [attempt EXCEPT ![c].status = "open"] ELSE attempt
  /\ UNCHANGED <<now, sub, card, event, settled, payment, keys, acts, doubled>>

----------------------------------------------------------------------------
(* Stripe: the customer at the checkout, renewals, and the portal.         *)

Tells(c, kinds, row) ==
  /\ acts < MaxActs /\ acts' = acts + 1
  /\ card' = [card EXCEPT ![c] = row]
  /\ event' = event \cup {[kind |-> k, card |-> c, of |-> row, at |-> now, no |-> acts] : k \in kinds}
StripeActs(c, kinds, row) ==
  /\ Tells(c, kinds, row)
  /\ UNCHANGED <<now, sub, attempt, settled, payment, keys>>

AnyCharging == \E c \in Checkouts : Charging(c)
HandPaid == \E p \in Payments : payment[p].status = "approved" /\ payment[p].end > now

\* The business has the link once the attempt is open.
Buy(c) ==
  /\ session[c] = "open" /\ attempt[c].status # "creating"
  /\ session' = [session EXCEPT ![c] = "complete"]
  /\ StripeActs(c, {"state", "session", "paid"},
       [state |-> "active", plan |-> attempt[c].plan, ending |-> FALSE, end |-> now + Period])
  /\ doubled' = (doubled \/ AnyCharging \/ HandPaid)

SessionExpires(c) ==
  /\ session[c] = "open" /\ Late(c)
  /\ session' = [session EXCEPT ![c] = "expired"]
  /\ UNCHANGED <<now, sub, attempt, card, event, settled, payment, keys, acts, doubled>>

Renew(c) ==
  /\ card[c].state = "active" /\ ~card[c].ending /\ card[c].end <= now
  /\ \/ StripeActs(c, {"state", "paid"}, [card[c] EXCEPT !.end = @ + Period])
     \/ StripeActs(c, {"state", "failed"}, [card[c] EXCEPT !.end = @ + Period, !.state = "past_due"])
  /\ UNCHANGED <<session, doubled>>

Recover(c) ==
  /\ card[c].state = "past_due"
  /\ StripeActs(c, {"state", "paid"}, [card[c] EXCEPT !.state = "active"])
  /\ doubled' = (doubled \/ HandPaid)
  /\ UNCHANGED session

EndCard(c) ==
  /\ Charging(c)
  /\ StripeActs(c, {"state"}, [card[c] EXCEPT !.state = "ended"])
  /\ UNCHANGED <<session, doubled>>

Portal(c, plan, ending) ==
  /\ Charging(c) /\ (plan = card[c].plan) # (ending = card[c].ending)
  /\ StripeActs(c, {"state"}, [card[c] EXCEPT !.plan = plan, !.ending = ending])
  /\ UNCHANGED <<session, doubled>>

----------------------------------------------------------------------------
(* apply_event                                                             *)

Older(e) == sub.last # 0 /\ e.at < sub.last
\* The row has been paid by hand since: old news, or news of its old card.
Fenced(e) == sub.by = "manual" /\ sub.last # 0 /\ (e.at <= sub.last \/ e.card = sub.ext)

\* STRIPE_STATUS.  The cards of the model are active, past due or ended: not
\* trialing, incomplete, unpaid, paused or incomplete_expired.
StripeStatus(row) == row.state                                         \* mutant of StatusOf
StatusOf(row) == IF row.state = "ended" THEN "canceled" ELSE row.state
Follow(row, c, at) ==
  LET status == StatusOf(row) IN
  [plan |-> row.plan, status |-> status, ending |-> row.ending, by |-> "stripe", ext |-> c, last |-> at,
   end |-> row.end,
   grace |-> CASE status = "past_due" /\ sub.status # "past_due" -> now + Grace
               [] status = "active" -> row.end + Slack
               [] OTHER -> sub.grace]

Bill(e) == <<e.card, e.of.end>>
ApplyState(e) == sub' = Follow(e.of, e.card, e.at) /\ UNCHANGED <<attempt, settled>>
ApplySession(e) ==
  /\ sub' = [sub EXCEPT !.ext = e.card, !.by = "stripe"]
  /\ attempt' = [attempt EXCEPT ![e.card].status = "complete"]
  /\ UNCHANGED settled

\* An invoice, paid or not, counts as news of the subscription if it is the
\* newest; one that was paid is not reopened.
ApplyInvoice(e) ==
  LET counts == ~Older(e) /\ ~(e.kind = "failed" /\ Bill(e) \in settled)
      news == CASE e.kind = "failed" /\ sub.status \in {"active", "trialing"} ->
                     [sub EXCEPT !.status = "past_due", !.grace = now + Grace]
                [] e.kind = "paid" /\ sub.status = "past_due" -> [sub EXCEPT !.status = "active"]
                [] OTHER -> sub IN
  /\ settled' = IF e.kind = "paid" THEN settled \cup {Bill(e)} ELSE settled
  /\ sub' = IF counts THEN [news EXCEPT !.last = e.at] ELSE sub
  /\ UNCHANGED attempt

Apply(e) ==
  /\ event' = event \ {e}
  /\ \/ /\ Fenced(e) \/ (e.kind \in {"state", "session"} /\ Older(e))
        /\ UNCHANGED <<sub, attempt, settled>>
     \/ /\ ~Fenced(e)
        /\ \/ e.kind = "state" /\ ~Older(e) /\ ApplyState(e)
           \/ e.kind = "session" /\ ~Older(e) /\ ApplySession(e)
           \/ e.kind \in {"paid", "failed"} /\ ApplyInvoice(e)
  /\ UNCHANGED <<now, session, card, payment, keys, acts, doubled>>

\* Its price is mapped to no plan: it failed at every attempt.
GiveUp(e) ==
  /\ e.kind = "state"
  /\ event' = event \ {e}
  /\ UNCHANGED <<now, sub, attempt, session, card, settled, payment, keys, acts, doubled>>

----------------------------------------------------------------------------
(* cancel and change_plan                                                  *)

\* taken: Stripe did it.  A key that was used before is answered again
\* without effect, and an answer may be lost.
CancelCard(taken, answered) ==
  LET c == sub.ext IN
  /\ sub.by = "stripe" /\ HasCard
  /\ IF taken THEN Charging(c) /\ Tells(c, {"state"}, [card[c] EXCEPT !.ending = TRUE])
     ELSE answered /\ c \in keys /\ UNCHANGED <<card, event, acts>>
  /\ keys' = keys \cup {c}
  /\ sub' = IF answered THEN [sub EXCEPT !.ending = TRUE] ELSE sub
  /\ UNCHANGED <<now, attempt, session, settled, payment, doubled>>

CancelByHand ==
  /\ sub.status # "canceled" /\ ~(sub.by = "stripe" /\ sub.ext # 0)
  /\ sub' = IF sub.status = "active" /\ sub.end > now
              THEN [sub EXCEPT !.ending = TRUE, !.grace = sub.end]
              ELSE [sub EXCEPT !.status = "canceled"]
  /\ UNCHANGED <<now, attempt, stripeVars, settled, payment, doubled>>

ChangePlan(plan) ==
  /\ sub.by = "stripe" /\ sub.ext # 0 /\ sub.status \in {"active", "trialing", "past_due"}
  /\ plan # card[sub.ext].plan
  /\ Portal(sub.ext, plan, card[sub.ext].ending)

----------------------------------------------------------------------------
(* manual_billing                                                          *)

AnyAttempt == {c \in Blocking : attempt[c].status = "complete"}      \* mutant of CheckoutPending
CheckoutPending == Blocking
RefusedForCard == HasCard

Request(p, plan) ==
  /\ payment[p].status = "none"
  /\ ~RefusedForCard /\ CheckoutPending = {} /\ ~Pending
  /\ sub.status = "active" /\ sub.end > now => plan = sub.plan
  /\ payment' = [payment EXCEPT ![p].status = "awaiting", ![p].plan = plan]
  /\ UNCHANGED <<now, sub, attempt, stripeVars, settled, doubled>>

Settles(p, from, to) ==
  /\ payment[p].status = from
  /\ payment' = [payment EXCEPT ![p].status = to]
  /\ UNCHANGED <<now, sub, attempt, stripeVars, settled, doubled>>
Submit(p) == Settles(p, "awaiting", "submitted")
CancelPayment(p) == Settles(p, "awaiting", "closed")
Reject(p) == Settles(p, "submitted", "closed")

Running == IF sub.status = "active" THEN sub.end ELSE 0
StartNow == now                                                       \* mutant of StartOf
StartOf == IF Running > now THEN Running ELSE now
Unfenced(p) == [sub EXCEPT !.plan = payment[p].plan, !.status = "active",  \* mutant of Granted
                           !.ending = FALSE, !.by = "manual",
                           !.end = StartOf + Period, !.grace = StartOf + Period]
Granted(p) == [sub EXCEPT !.plan = payment[p].plan, !.status = "active", !.ending = FALSE,
                          !.by = "manual", !.last = now,
                          !.end = StartOf + Period, !.grace = StartOf + Period]
Approve(p) ==
  /\ payment[p].status = "submitted"
  /\ ~RefusedForCard
  /\ Running > now => payment[p].plan = sub.plan
  /\ sub' = Granted(p)
  /\ payment' = [payment EXCEPT ![p].status = "approved", ![p].prev = Running,
                                ![p].start = StartOf, ![p].end = StartOf + Period]
  /\ doubled' = (doubled \/ AnyCharging)
  /\ UNCHANGED <<now, attempt, stripeVars, settled>>

Refund(p) ==
  LET end == IF payment[p].prev # 0 THEN payment[p].prev ELSE now IN
  /\ payment[p].status = "approved"
  /\ sub.by = "manual" /\ sub.end = payment[p].end
  /\ sub' = [sub EXCEPT !.end = end, !.grace = end, !.status = IF end > now THEN "active" ELSE "past_due"]
  /\ payment' = [payment EXCEPT ![p].status = "refunded"]
  /\ UNCHANGED <<now, attempt, stripeVars, settled, doubled>>

----------------------------------------------------------------------------
(* sweep_lifecycle, entitlement, and time.                                 *)

Lapsed ==
  \/ sub.status = "past_due" /\ sub.grace # 0 /\ sub.grace <= now
  \/ sub.by = "manual" /\ sub.status = "active" /\ sub.end # 0 /\ sub.end <= now
Sweep ==
  /\ Lapsed
  /\ sub' = [sub EXCEPT !.status = IF sub.ending THEN "canceled" ELSE "suspended"]
  /\ UNCHANGED <<now, attempt, stripeVars, settled, payment, doubled>>

SubscriptionActive ==
  CASE sub.status = "trialing" -> TrialEnd > now
    [] sub.status = "active" ->
         sub.end > now \/ sub.end = 0 \/ (~sub.ending /\ sub.grace > now)
    [] sub.status = "past_due" -> sub.grace > now
    [] OTHER -> FALSE

Tick ==
  /\ now < MaxTime /\ now' = now + 1
  /\ UNCHANGED <<sub, attempt, stripeVars, settled, payment, doubled>>

----------------------------------------------------------------------------
Stripe ==
  \E c \in Checkouts :
    \/ Buy(c) \/ SessionExpires(c) \/ Renew(c) \/ Recover(c) \/ EndCard(c)
    \/ \E plan \in Plans, ending \in BOOLEAN : Portal(c, plan, ending)

Business ==
  \/ \E plan \in Plans : OpenCheckout(plan) \/ ChangePlan(plan)
  \/ \E c \in Checkouts, answered \in BOOLEAN : CallCheckout(c, answered)
  \/ \E taken, answered \in BOOLEAN : CancelCard(taken, answered)
  \/ CancelByHand

ByHand ==
  \E p \in Payments :
    \/ \E plan \in Plans : Request(p, plan)
    \/ Submit(p) \/ CancelPayment(p) \/ Reject(p) \/ Approve(p) \/ Refund(p)

SubNext ==
  \/ Stripe \/ Business \/ ByHand
  \/ \E e \in event : Apply(e) \/ GiveUp(e)
  \/ Sweep \/ Tick

SubSpec == SubInit /\ [][SubNext]_subVars

----------------------------------------------------------------------------
SubRow == [plan : Plans, status : {"trialing", "active", "past_due", "suspended", "canceled"},
           ending : BOOLEAN, by : {"manual", "stripe"}, ext : Checkouts \cup {0},
           last : Nat, end : Nat, grace : Nat]
AttemptRow == [status : {"creating", "open", "complete", "expired"}, plan : Plans, expires : Nat]
CardRow == [state : {"none", "active", "past_due", "ended"}, plan : Plans \cup {NoPlan},
            ending : BOOLEAN, end : Nat]
EventRow == [kind : {"state", "session", "paid", "failed"}, card : Checkouts, of : CardRow,
             at : Nat, no : Nat]
PaymentRow == [status : {"none", "awaiting", "submitted", "approved", "closed", "refunded"},
               plan : Plans \cup {NoPlan}, start : Nat, end : Nat, prev : Nat]

(* Every row has a value of its kind.                                      *)
SubTypeOK ==
  /\ now \in 1..MaxTime /\ acts \in 0..MaxActs
  /\ sub \in SubRow
  /\ attempt \in Seq(AttemptRow) /\ Len(attempt) <= MaxCheckouts
  /\ session \in [Checkouts -> {"none", "open", "complete", "expired"}]
  /\ card \in [Checkouts -> CardRow]
  /\ event \subseteq EventRow
  /\ settled \subseteq Checkouts \X Nat
  /\ payment \in [Payments -> PaymentRow]
  /\ keys \subseteq Checkouts /\ doubled \in BOOLEAN

(* A business is never asked for one subscription by card and by hand at   *)
(* once: while a payment by hand is pending no session can be paid, and no *)
(* attempt can still open one, whatever answers of Stripe were lost.       *)
OneWayToPay ==
  Pending => \A c \in DOMAIN attempt :
    session[c] # "open" /\ ~(attempt[c].status = "creating" /\ ~Late(c))

(* Who paid by hand has what was paid for until it ends, whatever events   *)
(* of cards come late and whatever is cancelled, renewed, refunded or      *)
(* swept; and no time is paid twice.  (If one more payment was taken       *)
(* beside a live one, CollectedOnce, all bets are off.)                    *)
PaidTimeIsGiven ==
  ~doubled =>
    /\ \A p \in Payments : payment[p].status = "approved" /\ payment[p].end > now =>
         SubscriptionActive /\ sub.by = "manual" /\ sub.end >= payment[p].end /\ sub.plan = payment[p].plan
    /\ \A p, q \in Payments :
         p # q /\ payment[p].status = "approved" /\ payment[q].status = "approved" =>
           payment[p].end <= payment[q].start \/ payment[q].end <= payment[p].start

(* "Resolve the existing card subscription before approving a manual       *)
(* payment": nothing is paid beside a subscription that still charges.     *)
CollectedOnce == ~doubled

(* "Renew your current plan, or change plans after your paid period ends": *)
(* who pays by hand is not sent to a card subscription that has ended.     *)
RenewalNotRefused == PaidByHand /\ RefusedForCard => Charging(sub.ext)

(* "An old canceled Stripe subscription must not reclaim a manually paid    *)
(* account" (billing.py): only who paid by hand is fenced.  The first paid *)
(* invoice, applied before the subscription it is for, raises the fence    *)
(* against it: who bought by card stays on trial.                          *)
OnlyHandPaidFenced ==
  \A e \in event : Fenced(e) => \E p \in Payments : payment[p].status \in {"approved", "refunded"}

(* "Out-of-order: a newer state was already applied" (billing.py): once no *)
(* event waits the row shows the state of its card subscription.           *)
RowFollowsStripe ==
  event = {} /\ sub.by = "stripe" /\ sub.status # "suspended" =>
    sub.status = StatusOf(card[sub.ext]) /\ sub.plan = card[sub.ext].plan

(* "A card checkout is pending. Reopen it to finish or confirm its expiry  *)
(* first": a checkout that blocks another purchase is not a paid one.      *)
PendingIsUnpaid ==
  event = {} => \A c \in DOMAIN attempt : attempt[c].status = "open" => session[c] # "complete"
=============================================================================
