# Unified business platform: TLA+ models, checks and proofs

This directory is a verification development for the platform's API and worker
(`src/apps/api/app`): TLA+ modules that model its protocols, TLC configurations that check
them on small instances, and TLAPS proofs for every instance. Line numbers are those of the
files under `src/`; paths below are relative to `src/apps/api/app` unless they start with
`src/`. `PROJECT.json` maps each definition to its lines and lists runs, hazards and findings.

## 1. Inventory

A Python service (FastAPI, SQLAlchemy async, PostgreSQL at READ COMMITTED) and an ARQ worker
(Redis queue, at-least-once jobs, `job_timeout` 180 s, `max_tries` 3, results kept 60 s, during
which a job with the same id is dropped). An HTTP request is one transaction, committed at its
end; background jobs commit where they say so. Jobs are enqueued after the commit, so a crash
can lose them, and cron sweeps look for what was lost.

| part | state it keeps | operations | what is hard | correct when |
|---|---|---|---|---|
| Orders `modules/orders` | order rows and lines, status machine | draft, edit, from quote, confirm, progress, cancel | confirm locks one stock row per line, in cart order; price drift | status, stock and invoice tell the same story |
| Inventory `modules/inventory` | stock levels, movement ledger with idempotency keys | move, adjust, low-stock alert | lost updates, deadlocks | ledger chains, never below zero |
| Billing `modules/billing` | invoices, payments | create, issue, void, record payment | cancel against payment, repeated keys | paid amount, status and payments agree |
| Numbers `shared/sequences.py` | one row per document kind | next_number | rollback after a number was taken | unique, no gaps |
| Quotes, sales, finance, catalogue, customers | rows with status machines | CRUD and approvals | a quote converted twice | one order per quote |
| Outbox `integrations/outbox.py`, `jobs.py` | events, deliveries, subscriptions | emit, dispatch, deliver, sweep, retry, delete | crash between claim and answer, lost and repeated jobs, subscription changes | one sender, bounded attempts, nothing lost, everything ends |
| Sync engine `integrations/sync.py` | sync jobs with cursor, attempts | start, run page by page, pause, resume, cancel, retry, disconnect | status read without lock and written later | control actions stick, no page skipped |
| Workflow operations `integrations/workflows.py` | operations | fanout, deliver, due | ambiguous answers | never sent twice by itself |
| Inbound webhooks `integrations/webhooks.py` | inbound events | receive, process, replay, sweep | duplicates, stale `processing` | processed once, in the end |
| Connection runtime, circuit `integrations/runtime.py`, `circuit.py` | connection status, breaker columns | call, record success or failure | concurrent calls over one row | opens at the threshold, one probe |
| Online checkout `integrations/business.py` | checkout operations | checkout, settle | provider pays after the balance changed | money booked once or put up for review |
| Customer payments `modules/pi_saas/customer_payments.py` | payment requests by card or transfer | ask, report, verify, refresh, expire, cancel | status read without a lock, several requests for one balance | what is shown as paid is booked, once |
| PI pipeline `modules/pi/runtime.py`, `outage.py`, `service.py` | inbound events and messages, conversation mode, runs, replies | persist, coalesce, draft, answer, send, take over, sweep, replay | claim, crash, human take-over, newer message while composing | no reply twice, none after a take-over, every message ends |
| PI SaaS billing `modules/pi_saas/billing.py`, `manual_billing.py`, `entitlement.py` | the business's own subscription, checkout attempts, payments by hand | card checkout, Stripe events, request, approve, refund, cancel, sweep | events in any order, lost answers, two ways to pay | never two ways at once, what was paid for is given |
| PI SaaS, the rest of `modules/pi_saas` | numbers, campaigns, deals | number pool, campaigns | crash inside a campaign | (not modelled) |
| PI conversation `modules/pi/*` | prompts, memory, lexicons | compose and check replies | text | (not a protocol) |
| Auth, access, tenants, audit, HR, reports, front ends, migrations | identities, records, views | | | (not modelled) |

The parts meet in the database. Orders call inventory and billing inside their transaction;
all of them write outbox events in it; the dispatcher turns events into deliveries and workflow
operations; `integrations_sweep` serves deliveries, inbound events, sync jobs and operations;
the settings page changes rows that workers are using. The hazards that follow from this are
listed in `PROJECT.json`, each at its line.

## 2. Modules

| module | models | composed with |
|---|---|---|
| `OrderBook` | what order-to-cash promises: each request one atomic change | abstract specification |
| `OrderToCash` | the same requests lock by lock, with rollback and deadlock | EXTENDS and implements `OrderBook` |
| `Outbox` | emit, dispatch, delivery, its part of the sweep | |
| `SyncEngine` | sync jobs and their part of the sweep | |
| `Integrations` | both under the one sweep transaction | EXTENDS `Outbox`, `SyncEngine` |
| `Operations` | notifications through a connection: operations, breaker, the connection's row, staff | |
| `CustomerPayments` | payment requests, checkout, settlement, inbound payment events | |
| `PiPromise` | what the assistant promises the customer of a chat | abstract specification |
| `PiTurns` | the assistant's turns: events, messages, drafts, replies, outages, staff | implements `PiPromise` |
| `Subscriptions` | a business's own subscription by card and by hand | |
| `*Proofs` | theorems about the module they are named after | EXTEND it |
| `MC*` | instances for TLC | |

### OrderBook and OrderToCash

`order`, `onHand`, `moves`, `invoice` and `payment` are the committed rows. A cart is a list of
lines with its units (`Demand`), its price per price list (`CartTotal`) and its fulfilment type
(`Kind`); `moves` are the keyed movements (`order:<id>:line:<n>` sales and returns), whose unique
key is why they are a set. `Confirm`, `Progress` and `Cancel` are `OrderService.transition` with
`_confirm_effects` and `_cancel_effects`; `Issue` and `Void` are `BillingService.act`; `Pay` is
`record_payment`.

`OrderToCash` gives `confirm`, `cancel` and `record_payment` a session (`tx`) that takes one row
lock per step (`lock`), keeps its own versions of rows (`level`, `bill`) and publishes them at
its commit. `_locked_level` re-reads the row once its lock is granted (`LockedLevel`);
`void_for_order` looks for the invoice without a lock and `act` re-reads it under one;
`record_payment` looks for its key before the balance and the unique index decides at the
insert. `Fail` is a lost connection at any step and `BreakDeadlock` PostgreSQL's detector.
Requests on one row are one step, enabled when the row's lock is free.

Abstracted: amounts are small naturals (the code's `Decimal` is quantized to cents before every
comparison), one stock location, one workspace, refused requests that change nothing, the
texts of documents, due dates and notifications.

### Outbox

`event`, `subscription` and `delivery` are the rows; `queue` the deliveries that have a
`deliver_webhook` job; `worker` what each process is in the middle of. `DispatchRead` and
`DispatchCommit` are `dispatch_pending` in its transaction: the events are locked with SKIP LOCKED
and a change of a subscription can commit between the two. `Claim` commits `running` before the
request; `Succeeds`, `Fails` and `FailsForGood` record the answer; `Dies` kills the process at any
point. `SkipJob` is a job whose row is not due; `RefuseJob` one whose subscription is off, which
writes `cancelled` without committing it and so changes nothing. `Sweep` is `due_deliveries` and the enqueue that
follows. Time is abstract: `due` stands for `next_attempt_at`, `BackoffElapses` for the clock; a running
row is stale (ten minutes) only when nobody is sending it, because a job is killed after three.
`received` and `watching` record history for the properties and are not in the code.

Abstracted: the event types of a subscription do not change (`Wants`); the subscriptions of all
events of a batch are read at one moment; the limits of 200 and of the batch size; the echo
skip (nothing emits an event with a webhook's origin); `failure_count`, which is only displayed.

### SyncEngine and Integrations

The jobs of one connection and entity, under the partial unique index on active jobs
(`Indexed`). A worker (`runner`) claims a job, and each page is `Checkpoint` (records and cursor in
one commit), then `Reload` (a plain read). What follows the read (`Finish`, `Yield`,
`RecordFailure`) is a later step that writes whatever was committed in between. `StartSync`,
`Pause`, `Cancel`, `Reopen`, `Switch` and `Disconnect` are the API. `RunnerDies` is a kill, the job
timeout or any exception that is not an `IntegrationError`. In `Integrations` the
sweep is one transaction: `SweepJobs` and `Sweep` happen together or not at all.

Abstracted: the mapping of records (`apply_customer`) to the set of pages applied; the five
minutes before an automatic retry, which is a choice of `SweepJobs` (`old`).

### Operations

`op` holds the operation rows of deliveries, one for each recipient; `conn` the connection's row (status,
circuit, failure count, rate limit); `worker` a call of `deliver` in progress with the connection as it
was read. `Fanout` is the dispatcher's half (`fanout_event`); `Drop`, `Claim` and `HangUp` are `deliver`
and `WorkflowService._send` before, at and after the provider call; `Commit` is what
`ConnectionRuntime.call` writes when it ends, only the columns it changed; `Sweep` is `due` with the
rows that a dead worker left; `Retry`, `SaveRule`, `Test`, `Rotate`, `Enable`, `Disable` and `Disconnect`
are the routes of staff, under the connection's row lock. `received` counts what the provider took, `risk` how often
a person accepted a duplicate (a retry of an operation that may have arrived), `cut` how often a mail server had the mail although
the connection to it was lost; all three are history. `provider` is of one of three kinds: it recognises a repeated key (`Keyed`; `old` says that its memory
of one has run out), it is a mail server, or neither. How a call ends (`Endings`) tells `deliver` whether it may be repeated (`Retries`); in
which endings the message may have arrived all the same is `MaybeTaken`. With a mail server that includes an ending that counts as not
sent: `smtp.py:182-191` tells only a `TimeoutError` apart, and a connection lost after the mail was handed over is `retryable`, also when
`smtplib` lost it to a time limit of its own. So
`NoBlindResend` and `CancelledUnsent` except such mails by name (`cut`); that one is sent again is `SentOnce` in section 4.

Abstracted: of the provider adapters everything but that classification; the texts and recipients; the seconds of back-off, cooldown and rate limit, which are running or past;
OAuth renewal (`expired`); `with_retry`, which nothing calls.

### CustomerPayments

One invoice and the payment requests for it. `request`, `op` and `event` are the rows, an operation for
each pair of a card request and the amount paid before it (`dedupe_key`); `session` is the card provider's.
`AskTransfer`, `AskAgain` and `AddRequest` are `create_request`; `OpenCheckout`, `GetLink`, `CheckoutFails` and
`CheckoutDies` are `checkout` with its commit in the middle; `Settle` and `SettleFails` are the processing of an
inbound event with `settle_checkout`; `Verify`, `SayPaid`, `Cancel`, `RecordPayment`, `Void` and `Replay` are people.
`Expire` and `Refresh` read the request without a lock and `Write` writes its status later. `PayByCard` and `Clears` are the
customer at the provider: a method may take days, and its success is a second event. Checkout and settlement lock the same rows
in opposite orders; the deadlock PostgreSQL breaks is `CheckoutDies` or `SettleFails`.

Abstracted: the status of the connection; a checkout started without a payment request; the
provider's fee, currencies and texts.

### PiPromise and PiTurns

One WhatsApp chat in brain mode. `event`, `inbound`, `run` and `reply` are the rows of one message of the customer:
the webhook's receipt, the message, its `PiAgentRun` and the outgoing row whose key is `reply:<message>`; `rows` is the order of
`created_at`, `newest` and `chat` the conversation's columns. A worker (`worker`) goes through `Open` (the claim of
the event), `Persist` (the first transaction; `OtherChat` when the contact's row is new), `SetAside`, `Coalesce` or `Proceeds` (the newer-message
check after the typing pause), `ReadChat` (what `burst_before` reads), `Draft`/`Answer`/`HandOff`/`Park` (the end of the turn under
row locks, with the checks of `RefuseDraft`), and for a reply `Pick` (the first read, without a lock), `Claim`, `Recheck`, `Sent`, `Rejected`
or `SendDies`. `TurnDies` and `SendDies` stop a worker wherever it is. `ExpireTurn`, `ExpireReply` and `OutageSweep` are the sweeps; `ChangeChat`,
`ReplayEvent` and `Switch` are staff.

`on` says that `system_scope` finds the connection, its tenant and the product active. `Switch` turns it at any moment. A job that then
opens an event ignores it for good and leaves the message as it is (`Ignore`, runtime.py:883-887); a draft is refused, a reply skipped, by `SkipOff` even over
the claim of another job; the sweeps give up without a hand-off (`ToPerson`). `OutageSweep` does not look at it: each
parked message is settled, dropped (the chat is not the assistant's any more, or `age` is `"late"`, a day), run again when its
back-off is over (`"due"`), or left (`"early"`). What comes of a message that is run again while the connection is off is `HeldIsAnswered` in section 4.

Jobs are not counted: an event or a reply that is due may be run by any free worker, also beside another,
which covers repeated webhooks, both sweeps and replays. `PiTurns` implements `PiPromise` under
`reply <- [m |-> PromisedReply(m)]`, where what WhatsApp received (`given`) and not the row's status says that a reply was given:
`PromiseKept` forbids a second one, one to an older picture of the chat, and one after a person took over. A reply
counts as fitting what its claim found to be newest (`fits`): the code re-checks under the lock of the conversation
and cannot take back what is being sent.

Abstracted: the model's words and the rules that judge them (any draft, a hand-off or an outage may come out);
approval of replies, media, delivery receipts, tools other than the reply, the modes other than brain; a conversation without notes, whose replies are
sent without asking for a newer message (`handlers.py:707-709` sets `service_inbound_at` only with a `service_brief`); team members who talk to NORI on
the platform's own number, whose events end before anything is stored (runtime.py:892-909); a customer's opt-out, automatic replies switched off and a plan
that lapses; the alert after two hours of an outage, which is one of the acts of staff on the chat; system notices, which have no row here.

### Subscriptions

`sub` is the row of a business's subscription, `attempt` its checkout attempts, `payment` the requests of payment by bank or
cash, `settled` the platform invoices recorded as paid, `event` the stored and unapplied Stripe events. `OpenCheckout` and `CallCheckout` are `checkout` up to its
commit and after it (the answer may be lost, and a later request repeats the call with the same key);
`Apply` is `apply_event` with `_invoice`; `GiveUp` an event that failed at its last attempt; `CancelCard` and
`CancelByHand` are `cancel`, `ChangePlan` is `change_plan`, `Request`, `Submit`, `CancelPayment`, `Reject`, `Approve` and `Refund` are
`manual_billing.py`, `Sweep` is `sweep_lifecycle`, `SubscriptionActive` is `subscription_active`. `Buy`, `Renew`, `Recover`, `EndCard`,
`Portal` and `SessionExpires` are Stripe, external: each writes its own `card` and reports it by one event of each kind, which are applied in any order and
at any time. Every handler locks the subscription first, which makes each one action. The clock has seconds: what happens between two
of its ticks has one time stamp, as with Stripe's `created`. `doubled` is history: more money was taken beside a
subscription or a paid period that was live.

Abstracted: amounts, months and proofs of a payment; the unique bank reference; `pending_plan_key`; e-mails; the
subscription override of an operator; of `STRIPE_STATUS` (`billing.py:67-76`) the states `trialing`, `incomplete`, `unpaid`, `paused` and
`incomplete_expired`: a card is active, past due or ended.

## 3. Runs

Every run ends within four minutes on two cores. Deadlock is off everywhere: a system whose
bounded inputs are used up, or whose orders are all closed, may stop.

| run | instance | shows |
|---|---|---|
| `OrdersAndStock` | 2 orders, 2 sessions, carts ab and ba+a, opening stock 2, 1 adjustment | stock follows the orders' status, the ledger chains, and the interleaving implements `OrderBook` (`Serializable`) |
| `InvoicesAndPayments` | 1 order, 2 invoices, 2 payments, 1 key, 2 prices, automatic invoice on or off | invoices follow orders, paid matches status, one payment per key, numbers have no gaps, a payment stands; and `Serializable` |
| `RequestsEnd` | as the first, under fairness | requests end although confirms lock rows in opposite orders |
| `Deliveries` | 2 events, 1 subscription, 2 workers, budget 2, 1 manual retry, fairness | one sender, within budget, nothing forgotten, final is final; events are dispatched and deliveries end |
| `SyncSafe` | 1 job, 2 workers, 3 pages, a yield after 2, 3 attempts (the code's) and a manual one, 1 death | cursors and successes cover what was applied; retries are bounded |
| `SweepServesBoth` | 1 delivery, 1 sync job, fairness | the shared sweep serves both |
| `Operations` | 2 deliveries, 1 of a rule, 1 worker, 2 attempts, a breaker that opens at 1, 1 act of staff, a connection that starts connected or disabled, a provider of each kind, fairness | nothing but a mail whose connection was lost is blindly sent again, what is shown as cancelled was not sent, deliveries end |
| `Payments` | 1 card request of a delayed method, 1 transfer, total 2, 2 workers, 1 attempt of an event, 1 act of staff | money is booked once, and what is shown as paid is booked |
| `Chat` | 2 messages, 2 workers, 1 attempt, 1 outage, 1 act of staff, fairness | a message is over just when its event is processed, each is answered at most once, `PiTurns` implements `PiPromise`, turns end or their events are given up, replies end |
| `Subscriptions` | 2 plans, 1 checkout attempt, 3 acts of Stripe, 2 payments by hand of 2 ticks, 3 ticks | no two ways to pay at once; what was paid for by hand is given, once |
| `BackoffRedriven`, `NewerAnswersThemAll` | | disagreements between the code and what it says of itself, below |

Why the bounds are enough. Two sessions are the smallest number that races and deadlocks, and
every lock conflict in the code is between two holders; two carts in opposite line orders, one
with a repeated variant, give every lock order and every partial failure; opening stock 2
lets a confirm of either cart succeed or fall short in its last line. A second invoice and a second payment are
what a key or a number can collide with. Two workers are what two jobs of a delivery need;
a budget of two attempts has a first, a last and a manual one. Three pages with a yield after
the second give a first, a middle and a last checkpoint and two workers on different pages; two jobs of
one connection (`BackoffRedriven`) are what the unique index refuses. `Operations` has a rule's delivery and a person's,
which the code treats differently, and an attempt before the last; operations meet only in the connection's row, which one worker and the
staff already write over each other, and the theorems cover any number of workers. `Payments` has one request of each way and workers
enough for a checkout beside a refresh or two of one kind. `Chat` has an older and a newer message, a job beside a job, and one
act of staff, which switches the connection off, takes over or closes the chat, or replays an event; its safety properties were also checked with two acts, so that the
connection is back again (2.3 million states). `Subscriptions` has a card that is bought, fails or changes and ends
(three acts), a payment and its renewal, and a clock long enough for a period to end and the next to begin.

Symmetry is used for sessions, orders, workers, plans and payments, which no constant tells apart, and only
in runs without liveness.

Fairness. `OrderToCash`: the event loop resumes every request that can go on and PostgreSQL queues
the waiters of a row (strong fairness of a session's steps), and its deadlock detector runs.
`Outbox`: the sweep is a cron job every minute (weak), a queued job is taken by some worker and a dispatch
that keeps being possible does not die every time (strong), a request ends by its timeout (weak), clocks
advance (weak). `SyncEngine`: as the outbox; no worker dies in the
liveness runs, since `DeadWorkerRedriven` shows what happens if one does. `Operations`: the dispatcher and the sweep run (weak), a
due delivery is claimed or dropped by some worker (weak), and a call ends by its timeout or with its worker's death (weak). `PiTurns`: due jobs are
started and go on (weak; dying is one way to go on), the sweeps run (weak), and a turn's first transaction, when it keeps being
possible, is not for ever overtaken (strong: `Persist`, `OtherChat` or `Ignore`): PostgreSQL queues the waiters of a lock. Nothing is assumed about callers, customers, providers
or staff: no request, control action, retry or answer is fair, and workers may die at any step of `Outbox`, `Operations` and `PiTurns`
with only the attempts as a bound. `CustomerPayments` and `Subscriptions` are checked for safety only.

Each property has a mutant in `PROJECT.json`: a definition changed the way a plausible bug
would change the code, under which the property fails.

## 4. What the code does that it says it does not

Two statements are kept as runs in which TLC finds them violated:

* `BackoffRedriven` (`integrations/jobs.py:108`): one failed sync job that the unique index refuses fails the
  sweep's transaction every minute, and with it the delivery retries of every tenant.
* `NewerAnswersThemAll` (`modules/pi/runtime.py:1433`): "the newer message answers them all, once" (lines 1556-1557). A turn reads the
  earlier messages of its burst once; one whose own turn is dropped only afterwards is not among them, and no later reply covers it.

The modules state more, each a definition of its own that TLC refutes in the instance of the module's run
(`HeldIsAnswered` in that of `Chat` with one message, one worker and two acts of staff). No run keeps them:

* `NoSilentPrice` (`modules/orders/service.py:458`): "A draft never silently confirms at a price the
  customer did not see" (line 457), but a draft made from a quote and then edited, and so
  priced from the catalogue, is not checked at confirm.
* `DeletedCancelled` (`integrations/outbox.py:208`): deleting a webhook "cancels pending deliveries (their
  status becomes `cancelled`)" (`src/docs/contracts/integrations-api.md:239-240`). A delivery in flight at that
  moment that fails afterwards is refused by `deliver`, whose `cancelled` is flushed and
  never committed; the sweep queues it again every minute.
* `CancelledStays` (`integrations/sync.py:279`): a cancel or disconnect that commits after the worker's
  last read is overwritten with `succeeded`, `pending`, `failed` or `dead_letter`.
* `DeadWorkerRedriven` (`integrations/jobs.py:99`): the sweep "re-drives anything ... whose worker died" (lines
  5-6), but it never selects `running` sync jobs; the job stays and blocks its connection's next one.
* `RevokedStays` (`integrations/runtime.py:160`): "revoked (terminal; credentials destroyed ...)" (`src/docs/INTEGRATIONS.md:91`). A call that began
  before the disconnection writes `connected`, `degraded` or `error` over it when it ends.
* `OneProbe` (`integrations/circuit.py:38`): "then allows one half-open probe" (`src/docs/INTEGRATIONS.md:137-138`). Every worker that read the open
  circuit before probes after the cooldown.
* `SentOnce` (`integrations/providers/smtp.py:188`): "A crash after send may have delivered the message: do not blindly send again."
  (`integrations/workflows.py:285`), "never blindly retried" (`integrations/retry.py:5-6`). A connection lost after a mail server took the mail is reported like
  one that could not be made, and the next attempt sends the mail again.
* `HeldIsAnswered` (`modules/pi/runtime.py:885`): "never silent after a holding message | the sweeper runs this every 30 s until answered"
  (`modules/pi/outage.py:10`). If the connection is off when a held message is run again, its event is ignored for good; the message stays `received`
  when the connection is back, nobody is called, and `due_replays` holds back every later replay of the chat (outage.py:267-277).
* `OneLiveRequest` (`modules/pi_saas/customer_payments.py:273`): "There is one live request per invoice, method and balance"
  (`src/docs/PI_SAAS.md:198`). The commit in the middle of checkout releases the invoice before the request is stored.
* `TakenIsAccounted` (`integrations/business.py:231`): a changed balance "requires manual payment reconciliation"
  (`src/docs/contracts/integrations-api.md:40`). A late answer of checkout can overwrite the state that says so.
* `ReportedStays` (`modules/pi_saas/customer_payments.py:533`): "One the customer already reported paying stays in the staff queue"
  (lines 520-521). The sweep reads without a lock and writes `expired` over a report that came in between.
* `OnlyHandPaidFenced` (`modules/pi_saas/billing.py:717`): the fence against old Stripe events is for "a manually paid account" (line 729).
  It looks at the provider, which is `manual` from the start, and at the date of the last event, which an invoice sets: when the first paid
  invoice is applied before the subscription's own event of the same second or earlier, the latter and the checkout's are ignored, and who paid by
  card stays on trial.
* `PendingIsUnpaid` (`modules/pi_saas/billing.py:790`): "A card checkout is pending. Reopen it to finish or confirm its expiry first"
  (`manual_billing.py:194`). A completed checkout whose event is older than one applied stays `open` and blocks both ways to pay.
* `RowFollowsStripe` (`modules/pi_saas/billing.py:738`): "Out-of-order: a newer state was already applied". What was applied may be an
  invoice, which carries no state, or an event of the same second; the row keeps an old status or plan.
* `RenewalNotRefused` (`modules/pi_saas/manual_billing.py:175`): "Renew your current plan, or change plans after your paid period ends" (line 223). After
  a card subscription ended and a payment by hand was approved, the old subscription's id is still on the row, so that a renewal by
  hand is refused with "Manage your existing card subscription before switching payment methods".
* `CollectedOnce` (`modules/pi_saas/manual_billing.py:373`): "Resolve the existing card subscription before approving a manual payment". A
  trial cancelled between a purchase by card and its events is `canceled` and lets a payment by hand be approved beside the card; so
  does a `past_due` card that the sweep marks `canceled` while Stripe goes on trying.

## 5. Proofs

`OrderBookProofs` proves, from the assumptions named in `OrderBook` (sets of ids, positive amounts
and quantities, opening stock that is not negative), for any number of orders, variants, carts, amounts and keys:
`TypeCorrect`, `PaidSafe`, `KeysSafe`, `InvoicesFollow` and `StockFollows`. `Inv` conjoins
`TypeOK` and the four properties. Each is inductive relative to `TypeOK` as it stands, because `OrderBook`
keeps in one step what the code keeps in one transaction; the weight of the argument is in
`StockInvariant`, where the set of an order's movements is followed through confirm and cancel with
a `Follows(o)` per order, and in `InvoiceInvariant`, where a draft's lack of a live invoice makes confirm's
new one the only one. That the transactions have that effect (`Serializable`) is proved in `OrderToCashProofs`.

`OutboxProofs` proves, for any sets of events, subscriptions and workers, any budget and any number of manual
retries (`OutboxAssumption`): `TypeCorrect`, `OneSenderHolds`, `BudgetHolds`, `NothingForgottenHolds` and the action
property `FinalHolds`. `OneSender` is inductive on its own. `WithinBudget` is not: it needs that a request under way is
already counted and not yet received, that a manual retry adds one budget to the attempts so far
(`Limit`), and `OneSender`, so that an answer leaves nobody else sending; `Budgeted` says so. `NothingForgotten` needs
`Owed`: a dispatcher between its read and its commit already holds every delivery it owes, because
whoever still watches an event was enabled when it read. `FinalHolds` follows in one step from the invariant:
nobody sends a delivery whose row is final.

`OperationsProofs` proves, for any deliveries, workers, attempts, threshold and number of acts of staff
(`OperationsAssumption`): `OperationTypes`, `NoResend` and `Cancelled`. The invariant `OpInv` adds to the types that a
worker's operation is running and nobody else's (`OneCaller`), and for each operation what its status says about what the provider
took (`Accounted`): one that waits was not taken more often than a person allowed, a failed one only if the provider knows
the key; mails whose connection was lost are counted apart (`cut`). What is proved is thus that the classification of a mail server's failures is the only
way to a blind second message. The connection's row plays no part: whatever is written over it, the operation's own row decides.

`CustomerPaymentsProofs` proves, for any requests, total, workers, attempts and acts of staff (`PaymentsAssumption`):
`PaymentTypes`, `MoneyOnce` and `PaidIsBooked`. `PayInv` adds that every request asks for all that was due when it was made
(`AskedInFull`), so that the first one booked closes the invoice (`Closed`) and no other fits; that an operation shown as paid, and what a worker is about to write, is booked
(`Truthful`, `InHand`).

`SubscriptionsProofs` proves, for any plans, payments and checkouts, any period, trial, slack and grace, and any number of
acts of Stripe (`SubscriptionsAssumption`): `SubscriptionTypes`, `OneWay` and `PaidTime`. `SubInv` adds to the types: a
session that can be paid belongs to an attempt that still blocks another purchase (`Known`), and none does while a payment
by hand is pending (`NoneWanted`): this is what makes a lost answer of Stripe harmless. Who has paid by hand has a row that
says so, no card that charges, and only events that the fence turns away (`Kept`, in `Given`). An approved payment begins
where the one before it ended or at its approval (`Timely`) and no two overlap (`Apart`), so only the last period can be
refunded, and the row then ends where the one before it did. `PaidTime` is under `~doubled`, as the property is: if
a payment was taken beside a live one, which the code does not rule out (section 4), nothing is claimed.

`SyncEngineProofs` proves, for any jobs, any finite set of workers, any pages, pages per run and attempts (`SyncAssumption`):
`SyncTypes`, `NoPageLost`, `SuccessIsComplete` and `RetriesBounded`. `SyncInv` adds to the types: a worker at work has a job, and a
page left where it fetches one (`Sound`); a worker at the end of the list has seen every page applied (`WholeList`); and
redrives, a recorded failure and the workers on a job are together no more than its attempts (`Counted`). The last is needed because a
worker writes a failure that it decided on earlier: each attempt is in the hands of a worker, recorded as a failure, or
taken up by the sweep, and it is never two of these.

Both proofs go on to `Integrations`: a step of the composition is a step of each part or leaves it alone, whatever rows of the other
part the shared transaction of the sweep writes (`OutboxWithin`, `JobsAlone`). So what is proved of `Outbox` and of `SyncEngine` holds of the two
together (`SharedSweepSafe`, `SharedSweepLosesNothing`). What the shared sweep does cost is liveness, which is the run `BackoffRedriven` of section 4.

`PiTurnsProofs` proves for any messages, workers and bounds that `PiTurns` implements `PiPromise` (`KeepsPromise`: initial
states and every step, with the mapping of section 2) and `EndTogether`. `PiInv` has four parts: `Shapes`, the types it uses;
`Handing`, a reply that is being sent is in one worker's hands, not given, and `processing` unless a job that found the connection off wrote `skipped` over it, and
while the call lasts the chat is still the one it was checked against; `Turning`, who opened an event has it alone and it is not over; `Together`, a message is
answered or set aside just when its event is processed. Who holds a reply (`InHand`) and not the row's status says that it may still be given, which is why a
`skipped` written over a claim is a stutter and no withdrawal. An event that is ignored is not processed, and its message stays as it was: `EndTogether`
says no more of it, and `HeldIsAnswered` shows what follows.

`OnceAnswered` and `ChatTypes` need the order of the rows, which `AnswerInv` adds to `PiInv`. `Ordered`: a message has one row,
which is there from the opening of its event on, unless the first transaction is rolled back (`TakesBack`). `Attempts`: an event
is opened by one worker, so no attempt is counted past the bound. `Covering`: a reply stands behind all it covers, covers
nothing later than the message it answers, and fits a message only while the one it answers is the last stored. `Apart` is the
inductive form of `AnsweredOnce`: what a given reply covers is neither in the reply nor in the unfinished burst of a message
whose row comes later. It holds because a reply is given only while its message is the last one stored; so whoever answers a
later message reads the chat when the reply's row is there already, and `burst_before` stops at that row. `AnsweredOnce` alone
is not inductive: it says nothing of a burst that was read and not yet answered, nor of a reply that was written and not yet
given. From the same invariant follows `NeverLate`: when WhatsApp gets a reply (`GivenInTime`) it is the first time, no message
stored since stands behind the one it answers, and the assistant's own words do not come once a person has the chat. This is
stated on the rows, where `PromiseKept` speaks of the `fits` that the claim recorded.

`OrderToCashProofs` proves, for any orders, carts, price lists, sessions and bounds (`SetsAssumption`, `CartAssumption`,
`LinesAssumption`, `DemandAssumption`, `AmountAssumption`, `SessionAssumption`): `CashTypes`, `LedgerHolds`, `NumbersHold`,
`Serializes`, `PaymentsHold` and `CommittedRowsSafe`. It has two layers. `CashInv` says what the row locks are for: who is past
the first step of a change of an order holds the order's row (`HasOrder`); a number that was taken is the next one while
its sequence row is held (`HasNumber`); a stock row that a request changed is held by it, and its movements go on from the
committed balance (`HasStock`). A step of one request leaves all of this to the others (`Spared`), and the ledger and the
numbers follow. `ImplInv` adds to it `Inv` of `OrderBookProofs` and `Doing(s)`: what a request did so far is the beginning of
`OrderBook`'s one change. Its pending movements are those of the lines it is done with (`StockSoFar`, with the running sum of
what the lines take that `DemandAssumption` states, so that no induction is needed); the invoice that a cancel is going to void is the order's
only live one, unpaid and held (`VoidsLive`); a payment's balance and key are still what was checked (`PaymentDoing`). Every step before
the commit then stutters, a commit is `Confirm`, `Cancel` or `Pay`, a request of one step is itself, and a rollback is nothing
(`CashImplements`). `PaymentsHold` and `CommittedRowsSafe` are consequences: what is proved of `OrderBook` holds of the
transactions.

The same module proves when these transactions deadlock. A ring (`Ring`) is a set of requests each of which waits for a row of
another. `HoldingInv` says what a request holds where it stands: nothing while it waits for its order or, to pay, for an
invoice; only the order while a cancel waits for an invoice, a sequence row only when it waits for nothing more. So every
request of a ring waits for stock (`OnlyStockDeadlocks`). `Behind` adds that a request holds only the stock rows of the lines it
is past. If all carts of a ring listed their variants in one order, the request that waits for the least row would hold up
another that waits for a lower one; so some carts list two variants in opposite orders (`OnlyCrossedCartsDeadlock`).
`transition` takes the lines as the order lists them, and in `OrdersAndStock` two carts do list them so and deadlock; sorting
the lines by variant before they are locked would be enough. Requests of one row are in no ring: they hold nothing while they
wait. These two statements are no property of a run; TLC agrees with both in the instances of `OrdersAndStock` and
`InvoicesAndPayments`.

Every invariant and every step property that a passing run checks is proved. Only model-checked: the liveness properties (`RequestsEnd`,
`EveryEventDispatched`, `EveryDeliveryEnds`, `JobsSettle`, `EveryTurnEnds`, `EveryReplyEnds`, `DeliveryEnds`), because TLAPS does not
prove liveness under fairness here.

## 6. Plan

Done: orders, stock, billing, numbers; outbox; sync engine; the shared sweep; operations with the connection and its
breaker; customer payments with checkout and inbound payment events; the chat pipeline; the business's own subscription.

1. Campaigns (`modules/pi_saas/campaigns.py`): schedule, blocks of recipients, opt-outs and crashes between two sends.
2. The number pool: a number offered to two workspaces, held, released and retired.
3. `Quotes`: approval, conversion to an order or an invoice, on `OrderBook`'s `DraftFromQuote`.

Not modelled: the PI conversation engine (prompt building, rules and text checks), most of the code by size, which is pure functions
over text; provider adapters and cryptography; authentication, reports and the front ends, which are I/O or single-row
updates without a protocol. Of the modelled parts: approval of replies, media and delivery receipts of the chat; the low-stock
alert; OAuth renewal; the operator's override of a subscription and its reminders. Some things the models show that nobody
promised otherwise: an operation cancelled while its retry waits may have arrived at the first try, with a provider that
knows keys; an open circuit uses up attempts without a request; rules that are enabled again let older pending operations out;
Stripe answers a repeated cancellation or plan change of the same day without effect.
