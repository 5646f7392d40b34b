-------------------------- MODULE CustomerPayments --------------------------
(***************************************************************************)
(* How a customer pays an invoice: payment requests by card or transfer    *)
(* (pi_saas/customer_payments.py), the hosted checkout of a card payment   *)
(* and its settlement (integrations/business.py), the inbound events that  *)
(* drive it (integrations/webhooks.py) and the payments staff record.      *)
(*                                                                         *)
(* A handler that holds the rows it changes from its first read to its     *)
(* commit is one action: creating a transfer request, verifying, settling. *)
(* Checkout commits in the middle, which releases the invoice, before it   *)
(* calls the card provider; the expiry sweep and the refresh of a card     *)
(* request read without a lock.  When checkout and settlement lock the     *)
(* same rows in opposite orders the database aborts one of them: that is   *)
(* CheckoutDies, or SettleFails.                                           *)
(***************************************************************************)
EXTENDS Integers, FiniteSets

CONSTANTS
  Requests,     \* idempotency keys of payment requests for one invoice
  Cards,        \* those by card; the others are transfers by one method
  Delayed,      \* card requests paid by a method that takes days
  Workers,
  NoRequest,
  Total,        \* of the invoice
  MaxAttempts,  \* MAX_EVENT_ATTEMPTS
  MaxStaff      \* bound: what staff do

ASSUME PaymentsAssumption ==
  /\ Cards \subseteq Requests /\ Delayed \subseteq Cards /\ NoRequest \notin Requests
  /\ Total \in Nat \ {0} /\ MaxAttempts \in Nat \ {0} /\ MaxStaff \in Nat

VARIABLES
  invoice,   \* what is paid of the invoice, and whether it is void
  request,   \* request[r]: the payment request
  op,        \* op[k]: the checkout operation with the dedupe key k
  session,   \* session[k]: the card provider's checkout session
  event,     \* event[k][kind]: the provider's inbound events about it
  worker,    \* worker[w]: what a process is in the middle of
  booked,    \* booked[r]: payments recorded for the request (history)
  staff      \* counter (bound)

payVars == <<invoice, request, op, session, event, worker, booked, staff>>

\* The dedupe key: the request, and how much was paid, hence what was due.
Keys == Cards \X (0..Total - 1)
Amount(k) == Total - k[2]
Kinds == {"completed", "async"}   \* checkout.session.completed, .async_payment_succeeded

NoOp == [status |-> "none", linked |-> FALSE, state |-> "none", old |-> FALSE]
Idle == [at |-> "idle", on |-> NoRequest, paid |-> 0, seen |-> "none"]

PayInit ==
  /\ invoice = [paid |-> 0, void |-> FALSE]
  /\ request = [r \in Requests |-> [status |-> "none", due |-> 0, late |-> FALSE]]
  /\ op = [k \in Keys |-> NoOp]
  /\ session = [k \in Keys |-> "none"]
  /\ event = [k \in Keys |-> [kind \in Kinds |-> [status |-> "none", attempts |-> 0]]]
  /\ worker = [w \in Workers |-> Idle]
  /\ booked = [r \in Requests |-> 0]
  /\ staff = 0

Due == Total - invoice.paid
Payable == ~invoice.void /\ Due > 0
Becomes(r, status) == request' = [request EXCEPT ![r].status = status]
Ends(w) == worker' = [worker EXCEPT ![w] = Idle]

NotAdded(r, amount) == booked' = [booked EXCEPT ![r] = @ + 1] /\ UNCHANGED invoice  \* mutant of Book
\* record_payment, with the invoice locked.
Book(r, amount) ==
  /\ invoice' = [invoice EXCEPT !.paid = @ + amount]
  /\ booked' = [booked EXCEPT ![r] = @ + 1]
StillPayable(amount) == Payable                                   \* mutant of Fits
Fits(amount) == Payable /\ amount <= Due

----------------------------------------------------------------------------
(* create_request                                                          *)

Open == {"open", "awaiting_verification"}
SameMethod(r, s) == r \in Cards <=> s \in Cards
Live(r) == request[r].status \in Open /\ ~request[r].late
Wanted(r) ==
  /\ request[r].status = "none" /\ Payable
  /\ \A s \in Requests : SameMethod(r, s) /\ Live(s) => request[s].due # Due

Added(r, due) == request' = [request EXCEPT ![r] = [status |-> "open", due |-> due, late |-> FALSE]]

AskTransfer(r) ==
  /\ r \notin Cards /\ Wanted(r)
  /\ Added(r, Due)
  /\ UNCHANGED <<invoice, op, session, event, worker, booked, staff>>

\* A card request whose checkout has a link already gets that link.
AskAgain(r) ==
  /\ r \in Cards /\ Wanted(r) /\ op[<<r, invoice.paid>>].status = "succeeded"
  /\ Added(r, Due)
  /\ UNCHANGED <<invoice, op, session, event, worker, booked, staff>>

\* business.checkout up to its first commit.
OpenCheckout(w, r) ==
  LET k == <<r, invoice.paid>> IN
  /\ worker[w] = Idle
  /\ r \in Cards /\ Wanted(r)
  /\ op[k].status # "succeeded" /\ ~op[k].old
  /\ op' = [op EXCEPT ![k].status = "running"]
  /\ worker' = [worker EXCEPT ![w] = [at |-> "calling", on |-> r, paid |-> invoice.paid, seen |-> op[k].state]]
  /\ UNCHANGED <<invoice, request, session, event, booked, staff>>

KeyOf(w) == <<worker[w].on, worker[w].paid>>

\* The key makes the provider return the same session to every call.
Reaches(w, reached) ==
  session' = [session EXCEPT ![KeyOf(w)] = IF reached /\ @ = "none" THEN "open" ELSE @]

\* Every column whose value is not the one read is written, whoever has
\* written it since: the output says unpaid unless it did when it was read.
GetLink(w) ==
  LET k == KeyOf(w) IN
  /\ worker[w].at = "calling"
  /\ Reaches(w, TRUE)
  /\ op' = [op EXCEPT ![k].status = "succeeded", ![k].linked = TRUE,
                      ![k].state = IF worker[w].seen = "unpaid" THEN @ ELSE "unpaid"]
  /\ worker' = [worker EXCEPT ![w].at = "linked"]
  /\ UNCHANGED <<invoice, request, event, booked, staff>>

CheckoutFails(w, reached) ==
  /\ worker[w].at = "calling"
  /\ Reaches(w, reached)
  /\ op' = [op EXCEPT ![KeyOf(w)].status = "failed"]
  /\ Ends(w)
  /\ UNCHANGED <<invoice, request, event, booked, staff>>

CheckoutDies(w, reached) ==
  /\ worker[w].at \in {"calling", "linked"}
  /\ IF worker[w].at = "calling" THEN Reaches(w, reached) ELSE UNCHANGED session
  /\ Ends(w)
  /\ UNCHANGED <<invoice, request, op, event, booked, staff>>

\* The unique key refuses a second row of the same request.
AddRequest(w) ==
  LET r == worker[w].on IN
  /\ worker[w].at = "linked"
  /\ IF request[r].status = "none" THEN Added(r, Amount(KeyOf(w))) ELSE UNCHANGED request
  /\ Ends(w)
  /\ UNCHANGED <<invoice, op, session, event, booked, staff>>

----------------------------------------------------------------------------
(* The customer.  A link works whatever became of its request.             *)

Arrives(k, kind) == event' = [event EXCEPT ![k][kind].status = "queued"]
HasLink(k) == request[k[1]].status # "none" /\ request[k[1]].due = Amount(k) /\ op[k].linked

\* Some methods of payment take days: the session is completed, not paid.
PayByCard(k) ==
  /\ session[k] = "open" /\ HasLink(k)
  /\ session' = [session EXCEPT ![k] = IF k[1] \in Delayed THEN "pending" ELSE "paid"]
  /\ Arrives(k, "completed")
  /\ UNCHANGED <<invoice, request, op, worker, booked, staff>>

Clears(k) ==
  /\ session[k] = "pending"
  /\ session' = [session EXCEPT ![k] = "paid"]
  /\ Arrives(k, "async")
  /\ UNCHANGED <<invoice, request, op, worker, booked, staff>>

\* mark_submitted: by a message of the chat or the public page.
SayPaid(r) ==
  /\ r \notin Cards /\ request[r].status = "open"
  /\ Becomes(r, "awaiting_verification")
  /\ UNCHANGED <<invoice, op, session, event, worker, booked, staff>>

----------------------------------------------------------------------------
(* webhooks.process and settle_checkout: the event, the operation and then *)
(* the invoice are locked until the commit; a crash undoes all of it.      *)

Waiting(k, kind) == event[k][kind].status \in {"queued", "failed"}   \* next_attempt_at passes at any time
Processed(k, kind, status) ==
  event' = [event EXCEPT ![k][kind] = [status |-> status, attempts |-> @.attempts + 1]]

SettleFails(k, kind) ==
  /\ Waiting(k, kind) /\ op[k].state # "paid"
  /\ Processed(k, kind, IF event[k][kind].attempts + 1 >= MaxAttempts THEN "dead_letter" ELSE "failed")
  /\ UNCHANGED <<invoice, request, op, session, worker, booked, staff>>

Settle(k, kind) ==
  /\ Waiting(k, kind)
  /\ \/ op[k].state = "paid" /\ Processed(k, kind, "processed") /\ UNCHANGED <<invoice, op, booked>>
     \/ /\ op[k].state # "paid" /\ session[k] # "paid"
        /\ Processed(k, kind, "ignored") /\ UNCHANGED <<invoice, op, booked>>
     \/ /\ op[k].state # "paid" /\ session[k] = "paid"
        /\ Processed(k, kind, "processed")
        /\ IF Fits(Amount(k))
             THEN Book(k[1], Amount(k)) /\ op' = [op EXCEPT ![k].state = "paid"]
             ELSE op' = [op EXCEPT ![k].state = "needs_review"] /\ UNCHANGED <<invoice, booked>>
  /\ UNCHANGED <<request, session, worker, staff>>

----------------------------------------------------------------------------
(* expire_requests and sync_stripe: a row read, and written some time      *)
(* later without a look at what it has become.                             *)

Reads(w, r, to) ==
  /\ worker[w] = Idle
  /\ worker' = [worker EXCEPT ![w] = [Idle EXCEPT !.at = "writing", !.on = r, !.seen = to]]
  /\ UNCHANGED <<invoice, request, op, session, event, booked, staff>>

Expire(w, r) == request[r].status = "open" /\ request[r].late /\ Reads(w, r, "expired")

Completed(k) == session[k] = "paid"                               \* mutant of Confirmed
Confirmed(k) == op[k].state = "paid"
Refresh(w, r) ==
  \E k \in Keys :
    /\ k[1] = r /\ op[k].linked /\ request[r].due = Amount(k)
    /\ \/ /\ Confirmed(k) /\ request[r].status \in Open \cup {"expired", "cancelled"}
          /\ Reads(w, r, "paid")
       \/ /\ op[k].state = "needs_review" /\ request[r].status \in Open
          /\ Reads(w, r, "needs_review")

Write(w) ==
  /\ worker[w].at = "writing"
  /\ Becomes(worker[w].on, worker[w].seen)
  /\ Ends(w)
  /\ UNCHANGED <<invoice, op, session, event, booked, staff>>

Time ==
  /\ \/ \E r \in Requests : /\ request[r].status \in Open /\ ~request[r].late
                            /\ request' = [request EXCEPT ![r].late = TRUE] /\ UNCHANGED op
     \/ \E k \in Keys : /\ op[k].status \in {"running", "failed"} /\ ~op[k].old
                        /\ op' = [op EXCEPT ![k].old = TRUE] /\ UNCHANGED request
  /\ UNCHANGED <<invoice, session, event, worker, booked, staff>>

----------------------------------------------------------------------------
(* Staff                                                                   *)

StaffActs == staff < MaxStaff /\ staff' = staff + 1 /\ UNCHANGED <<op, session, worker>>

\* verify, with the request and then the invoice locked.
Verify(r, received) ==
  /\ r \notin Cards /\ request[r].status \in Open
  /\ IF ~received THEN Becomes(r, "open") /\ UNCHANGED <<invoice, booked>>
     ELSE IF ~Fits(request[r].due) THEN Becomes(r, "needs_review") /\ UNCHANGED <<invoice, booked>>
     ELSE Becomes(r, "paid") /\ Book(r, request[r].due)
  /\ StaffActs /\ UNCHANGED event

Cancel(r) ==
  /\ request[r].status \in Open
  /\ Becomes(r, "cancelled")
  /\ StaffActs /\ UNCHANGED <<invoice, event, booked>>

RecordPayment ==
  /\ Payable
  /\ invoice' = [invoice EXCEPT !.paid = @ + 1]
  /\ StaffActs /\ UNCHANGED <<request, event, booked>>

Void ==
  /\ ~invoice.void /\ invoice.paid = 0
  /\ invoice' = [invoice EXCEPT !.void = TRUE]
  /\ StaffActs /\ UNCHANGED <<request, event, booked>>

Replay(k, kind) ==
  /\ event[k][kind].status \in {"processed", "ignored", "failed", "dead_letter"}
  /\ Arrives(k, kind)
  /\ StaffActs /\ UNCHANGED <<invoice, request, booked>>

----------------------------------------------------------------------------
Checkout(w) ==
  \/ \E r \in Requests : OpenCheckout(w, r)
  \/ GetLink(w) \/ AddRequest(w)
  \/ \E reached \in BOOLEAN : CheckoutFails(w, reached) \/ CheckoutDies(w, reached)

Staff ==
  \/ \E r \in Requests : Cancel(r) \/ \E received \in BOOLEAN : Verify(r, received)
  \/ RecordPayment \/ Void
  \/ \E k \in Keys, kind \in Kinds : Replay(k, kind)

PayNext ==
  \/ \E r \in Requests : AskTransfer(r) \/ AskAgain(r) \/ SayPaid(r)
  \/ \E w \in Workers : Checkout(w) \/ Write(w) \/ \E r \in Requests : Expire(w, r) \/ Refresh(w, r)
  \/ \E k \in Keys : Clears(k) \/ PayByCard(k)
                     \/ \E kind \in Kinds : Settle(k, kind) \/ SettleFails(k, kind)
  \/ Time \/ Staff

PaySpec == PayInit /\ [][PayNext]_payVars

----------------------------------------------------------------------------
(* Rows and processes have values of their kind.                           *)
PayTypeOK ==
  /\ invoice \in [paid : 0..Total, void : BOOLEAN]
  /\ request \in [Requests -> [status : {"none", "paid", "needs_review", "cancelled", "expired"} \cup Open,
                               due : 0..Total, late : BOOLEAN]]
  /\ op \in [Keys -> [status : {"none", "running", "succeeded", "failed"}, linked : BOOLEAN,
                      state : {"none", "unpaid", "needs_review", "paid"}, old : BOOLEAN]]
  /\ session \in [Keys -> {"none", "open", "pending", "paid"}]
  /\ event \in [Keys -> [Kinds -> [status : {"none", "queued", "failed", "processed", "ignored", "dead_letter"},
                                   attempts : Nat]]]
  /\ worker \in [Workers -> [at : {"idle", "calling", "linked", "writing"},
                             on : Requests \cup {NoRequest}, paid : 0..Total - 1,
                             seen : {"none", "unpaid", "needs_review", "paid", "expired"}]]
  /\ booked \in [Requests -> Nat] /\ staff \in 0..MaxStaff

(* Money is never recorded twice: of one request at most once, and of all  *)
(* requests only the one that pays the rest of the invoice, although an    *)
(* operation can forget that it was paid, events are repeated and replayed *)
(* and several requests for one balance are paid.                          *)
BookedOnce ==
  /\ \A r \in Requests : booked[r] <= 1
  /\ \A r, s \in Requests : booked[r] > 0 /\ booked[s] > 0 => r = s

(* What is shown as paid is in the books, whoever wrote the status last.   *)
ShownPaidIsBooked == \A r \in Requests : request[r].status = "paid" => booked[r] = 1

(* "There is one live request per invoice, method and balance."            *)
(* (PI_SAAS.md:198, customer_payments.py:273)                              *)
OneLiveRequest ==
  \A r, s \in Requests :
    SameMethod(r, s) /\ Live(r) /\ Live(s) /\ request[r].due = request[s].due => r = s

(* "An invoice balance changed after checkout creation requires manual     *)
(* payment reconciliation." (integrations-api.md:40): money the provider   *)
(* has taken, and told us of, is booked, under review or still to be seen. *)
TakenIsAccounted ==
  \A k \in Keys :
    session[k] = "paid" =>
      \/ booked[k[1]] > 0 \/ op[k].state = "needs_review"
      \/ \E kind \in Kinds : event[k][kind].status \in {"queued", "failed", "dead_letter"}

(* "One the customer already reported paying stays in the staff queue: the *)
(* money may have arrived." (customer_payments.py:520-521)                 *)
ReportedStays ==
  [][\A r \in Requests : request[r].status = "awaiting_verification"
                           => request'[r].status # "expired"]_payVars
=============================================================================
