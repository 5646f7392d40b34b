----------------------- MODULE CustomerPaymentsProofs -----------------------
(***************************************************************************)
(* Money is recorded once, and only what is recorded is shown as paid: for *)
(* any requests, cards, processes, invoice total and number of attempts    *)
(* and acts of staff.  The argument: what a session or a request asks for  *)
(* was all that was due when it was made, and what is due never grows, so  *)
(* an amount that still fits pays the invoice in full; after that nothing  *)
(* fits any more.                                                          *)
(***************************************************************************)
EXTENDS CustomerPayments, TLAPS

(* A session and a request ask for at least what is due now.               *)
AskedInFull ==
  /\ \A k \in Keys : session[k] # "none" => k[2] <= invoice.paid
  /\ \A r \in Requests : request[r].status # "none" => Total <= request[r].due + invoice.paid

(* A checkout is for a card and for what was due when it was opened; what  *)
(* a process is about to write is for a request that exists.               *)
InHand(w) ==
  /\ worker[w].at \in {"calling", "linked"} => worker[w].on \in Cards /\ worker[w].paid <= invoice.paid
  /\ worker[w].at = "writing" =>
       /\ worker[w].on \in Requests /\ request[worker[w].on].status # "none"
       /\ worker[w].seen \in {"paid", "needs_review", "expired"}

(* The one payment recorded for a request paid the invoice in full.        *)
Closed ==
  \A r \in Requests : booked[r] > 0 =>
    /\ invoice.paid = Total /\ booked[r] = 1
    /\ \A s \in Requests : booked[s] > 0 => s = r

(* Whoever says, or is about to say, that it is paid is right.             *)
Truthful ==
  /\ \A k \in Keys : op[k].state = "paid" => booked[k[1]] > 0
  /\ \A w \in Workers : worker[w].at = "writing" /\ worker[w].seen = "paid" => booked[worker[w].on] > 0
  /\ \A r \in Requests : request[r].status = "paid" => booked[r] > 0

PayInv == PayTypeOK /\ AskedInFull /\ (\A w \in Workers : InHand(w)) /\ Closed /\ Truthful

Unwritten == UNCHANGED <<invoice, booked>>

----------------------------------------------------------------------------
LEMMA KeysAre == \A k \in Keys : k[1] \in Cards /\ k[1] \in Requests /\ k[2] \in 0..Total-1 /\ k = <<k[1], k[2]>>
  BY PaymentsAssumption DEF Keys

LEMMA InitHolds == PayInit => PayInv
  <1> SUFFICES ASSUME PayInit PROVE PayInv
    OBVIOUS
  <1>1. PayTypeOK
    <2>1. 0 \in 0..Total /\ 0 \in 0..Total-1 /\ 0 \in 0..MaxStaff
      BY PaymentsAssumption
    <2>2. QED
      BY <2>1 DEF PayInit, PayTypeOK, NoOp, Idle, Open, Kinds
  <1>2. \A w \in Workers : worker[w].at = "idle"
    BY DEF PayInit, Idle
  <1>3. AskedInFull
    BY DEF PayInit, AskedInFull
  <1>4. Closed
    BY DEF PayInit, Closed
  <1>5. Truthful
    BY <1>2 DEF PayInit, Truthful, NoOp
  <1>6. QED
    BY <1>1, <1>2, <1>3, <1>4, <1>5 DEF PayInv, InHand

(* What is booked fits, was all that was due, and closes the invoice.      *)
LEMMA BookCloses ==
  ASSUME PayInv, NEW r \in Requests, NEW amount \in 0..Total,
         Fits(amount), Total <= amount + invoice.paid, Book(r, amount)
  PROVE  /\ invoice.paid < Total
         /\ invoice' = [invoice EXCEPT !.paid = Total]
         /\ booked' = [booked EXCEPT ![r] = 1]
         /\ \A s \in Requests : booked[s] = 0
  <1>1. invoice.paid \in 0..Total /\ Total \in Nat
    BY PaymentsAssumption DEF PayInv, PayTypeOK
  <1>2. invoice.paid < Total /\ invoice.paid + amount = Total
    BY <1>1 DEF Fits, Payable, Due
  <1>3. \A s \in Requests : booked[s] = 0
    BY <1>1, <1>2 DEF PayInv, PayTypeOK, Closed
  <1>4. invoice' = [invoice EXCEPT !.paid = Total]
    BY <1>2 DEF Book
  <1>5. booked' = [booked EXCEPT ![r] = 1]
    <2>1. booked[r] + 1 = 1
      BY <1>3
    <2>2. QED
      BY <2>1 DEF Book
  <1>6. QED
    BY <1>2, <1>3, <1>4, <1>5

(* Every step leaves the money alone, adds what staff recorded, or books   *)
(* the rest of the invoice.                                                *)
Pays(r) ==
  /\ invoice.paid < Total /\ invoice' = [invoice EXCEPT !.paid = Total]
  /\ booked' = [booked EXCEPT ![r] = 1]
  /\ \A s \in Requests : booked[s] = 0

LEMMA VerifyPays ==
  ASSUME PayInv, NEW r \in Requests, NEW received \in BOOLEAN, Verify(r, received)
  PROVE  Unwritten \/ Pays(r)
  <1>1. request[r].due \in 0..Total
    BY DEF PayInv, PayTypeOK
  <1>2. Total <= request[r].due + invoice.paid
    BY DEF Verify, Open, PayInv, AskedInFull
  <1>3. CASE ~received \/ ~Fits(request[r].due)
    BY <1>3 DEF Verify, Unwritten
  <1>4. CASE received /\ Fits(request[r].due)
    <2>1. Book(r, request[r].due)
      BY <1>4 DEF Verify
    <2>2. QED
      BY <1>1, <1>2, <1>4, <2>1, BookCloses DEF Pays
  <1>5. QED
    BY <1>3, <1>4

LEMMA SettlePays ==
  ASSUME PayInv, NEW k \in Keys, NEW kind \in Kinds, Settle(k, kind)
  PROVE  \/ Unwritten /\ op' = op
         \/ Unwritten /\ op' = [op EXCEPT ![k].state = "needs_review"]
         \/ Pays(k[1]) /\ op' = [op EXCEPT ![k].state = "paid"]
  <1>1. k[1] \in Requests /\ k[2] \in 0..Total-1 /\ Total \in Nat
    BY KeysAre, PaymentsAssumption
  <1>2. CASE op[k].state = "paid" \/ session[k] # "paid"
    BY <1>2 DEF Settle, Unwritten
  <1>3. CASE op[k].state # "paid" /\ session[k] = "paid"
    <2>1. Amount(k) \in 0..Total /\ Total <= Amount(k) + invoice.paid
      <3>1. k[2] <= invoice.paid /\ invoice.paid \in 0..Total
        BY <1>3 DEF PayInv, AskedInFull, PayTypeOK
      <3>2. QED
        BY <1>1, <3>1 DEF Amount
    <2>2. CASE Fits(Amount(k))
      <3>1. Book(k[1], Amount(k)) /\ op' = [op EXCEPT ![k].state = "paid"]
        BY <1>3, <2>2 DEF Settle
      <3>2. QED
        BY <1>1, <2>1, <2>2, <3>1, BookCloses DEF Pays
    <2>3. CASE ~Fits(Amount(k))
      BY <1>3, <2>3 DEF Settle, Unwritten
    <2>4. QED
      BY <2>2, <2>3
  <1>4. QED
    BY <1>2, <1>3

LEMMA Money ==
  ASSUME PayInv, [PayNext]_payVars
  PROVE  \/ booked' = booked /\ invoice.paid' \in 0..Total /\ invoice.paid' >= invoice.paid
              /\ invoice' \in [paid : 0..Total, void : BOOLEAN]
         \/ \E r \in Requests : Pays(r)
  <1> DEFINE Stays == /\ booked' = booked /\ invoice.paid' \in 0..Total /\ invoice.paid' >= invoice.paid
                      /\ invoice' \in [paid : 0..Total, void : BOOLEAN]
  <1>0. invoice \in [paid : 0..Total, void : BOOLEAN] /\ Total \in Nat
    BY PaymentsAssumption DEF PayInv, PayTypeOK
  <1>1. Unwritten => Stays
    BY <1>0 DEF Unwritten
  <1>2. ASSUME NEW r \in Requests, AskTransfer(r) \/ AskAgain(r) \/ SayPaid(r) \/ Cancel(r) PROVE Stays
    BY <1>1, <1>2 DEF AskTransfer, AskAgain, SayPaid, Cancel, Unwritten
  <1>3. ASSUME NEW w \in Workers, Checkout(w) \/ Write(w) \/ \E r \in Requests : Expire(w, r) \/ Refresh(w, r)
        PROVE  Stays
    <2>1. CASE Checkout(w)
      BY <1>1, <2>1 DEF Checkout, OpenCheckout, GetLink, AddRequest, CheckoutFails, CheckoutDies, Unwritten
    <2>2. CASE Write(w)
      BY <1>1, <2>2 DEF Write, Unwritten
    <2>3. CASE \E r \in Requests : Expire(w, r) \/ Refresh(w, r)
      BY <1>1, <2>3 DEF Expire, Refresh, Reads, Unwritten
    <2>4. QED
      BY <1>3, <2>1, <2>2, <2>3
  <1>4. ASSUME NEW k \in Keys, Clears(k) \/ PayByCard(k) \/ \E kind \in Kinds : SettleFails(k, kind) \/ Replay(k, kind)
        PROVE  Stays
    BY <1>1, <1>4 DEF Clears, PayByCard, SettleFails, Replay, Unwritten
  <1>5. ASSUME NEW k \in Keys, NEW kind \in Kinds, Settle(k, kind) PROVE Stays \/ \E r \in Requests : Pays(r)
    BY <1>1, <1>5, SettlePays, KeysAre
  <1>6. ASSUME NEW r \in Requests, NEW received \in BOOLEAN, Verify(r, received)
        PROVE  Stays \/ Pays(r)
    BY <1>1, <1>6, VerifyPays
  <1>7. ASSUME RecordPayment \/ Void \/ Time \/ UNCHANGED payVars PROVE Stays
    <2>1. CASE RecordPayment
      <3>1. invoice.paid + 1 \in 0..Total
        BY <1>0, <2>1 DEF RecordPayment, Payable, Due
      <3>2. QED
        BY <1>0, <2>1, <3>1 DEF RecordPayment
    <2>2. CASE Void
      <3>1. invoice'.paid = invoice.paid /\ invoice.paid \in 0..Total
        BY <1>0, <2>2 DEF Void
      <3>2. invoice' \in [paid : 0..Total, void : BOOLEAN]
        BY <1>0, <2>2 DEF Void
      <3>3. QED
        BY <1>0, <2>2, <3>1, <3>2 DEF Void
    <2>3. CASE Time \/ UNCHANGED payVars
      BY <1>1, <2>3 DEF Time, payVars, Unwritten
    <2>4. QED
      BY <1>7, <2>1, <2>2, <2>3
  <1>8. QED
    BY <1>2, <1>3, <1>4, <1>5, <1>6, <1>7 DEF PayNext, Staff

LEMMA PaidGrows ==
  ASSUME PayInv, [PayNext]_payVars
  PROVE  /\ invoice' \in [paid : 0..Total, void : BOOLEAN]
         /\ invoice.paid' \in 0..Total /\ invoice.paid' >= invoice.paid /\ invoice.paid \in 0..Total
         /\ booked' \in [Requests -> Nat]
         /\ \A r \in Requests : booked[r] > 0 => booked'[r] > 0
  <1>1. invoice \in [paid : 0..Total, void : BOOLEAN] /\ booked \in [Requests -> Nat] /\ Total \in Nat
    BY PaymentsAssumption DEF PayInv, PayTypeOK
  <1>2. CASE \E r \in Requests : Pays(r)
    BY <1>1, <1>2 DEF Pays
  <1>3. QED
    BY <1>1, <1>2, Money

LEMMA ClosedHolds == PayInv /\ [PayNext]_payVars => Closed'
  <1> SUFFICES ASSUME PayInv, [PayNext]_payVars PROVE Closed'
    OBVIOUS
  <1>1. invoice \in [paid : 0..Total, void : BOOLEAN] /\ booked \in [Requests -> Nat] /\ Total \in Nat /\ Closed
    BY PaymentsAssumption DEF PayInv, PayTypeOK
  <1>2. CASE \E r \in Requests : Pays(r)
    BY <1>1, <1>2 DEF Pays, Closed
  <1>3. CASE booked' = booked /\ invoice.paid' \in 0..Total /\ invoice.paid' >= invoice.paid
    BY <1>1, <1>3 DEF Closed
  <1>4. QED
    BY <1>2, <1>3, Money
----------------------------------------------------------------------------
(* What a step does to the requests: a row that exists keeps what it asks  *)
(* for, and a row that is new, or shown paid from now on, has its reason.  *)
Asks(r) ==
  /\ request'[r].status # "none"
  /\ Total <= request'[r].due + invoice'.paid
Kept(r) ==
  /\ request'[r].due = request[r].due
  /\ request'[r].status = "none" <=> request[r].status = "none"

LEMMA RequestSteps ==
  ASSUME PayInv, [PayNext]_payVars
  PROVE  \A r \in Requests : Kept(r) \/ Asks(r)
  <1>1. /\ invoice'.paid >= invoice.paid /\ invoice'.paid \in 0..Total /\ invoice.paid \in 0..Total
         /\ Total \in Nat
    BY PaidGrows, PaymentsAssumption
  <1>2. request \in [Requests -> [status : {"none", "paid", "needs_review", "cancelled", "expired"} \cup Open,
                                   due : 0..Total, late : BOOLEAN]]
    BY DEF PayInv, PayTypeOK
  <1>3. request' = request => \A r \in Requests : Kept(r)
    BY DEF Kept
  <1>4. ASSUME NEW r \in Requests, NEW status, status # "none", request[r].status # "none", Becomes(r, status)
        PROVE  \A s \in Requests : Kept(s)
    BY <1>2, <1>4 DEF Becomes, Kept
  <1>5. ASSUME NEW r \in Requests, NEW due \in 0..Total, Added(r, due), Total <= due + invoice.paid
        PROVE  \A s \in Requests : Kept(s) \/ Asks(s)
    <2>1. \A s \in Requests \ {r} : Kept(s)
      BY <1>2, <1>5 DEF Added, Kept
    <2>2. Asks(r)
      BY <1>1, <1>2, <1>5 DEF Added, Asks
    <2>3. QED
      BY <2>1, <2>2
  <1>6. Due \in 0..Total /\ Total <= Due + invoice.paid
    BY <1>1 DEF Due
  <1>7. ASSUME NEW r \in Requests, AskTransfer(r) \/ AskAgain(r) PROVE \A s \in Requests : Kept(s) \/ Asks(s)
    BY <1>5, <1>6, <1>7 DEF AskTransfer, AskAgain
  <1>8. ASSUME NEW r \in Requests, SayPaid(r) \/ Cancel(r) PROVE \A s \in Requests : Kept(s)
    BY <1>4, <1>8 DEF SayPaid, Cancel, Open
  <1>9. ASSUME NEW r \in Requests, NEW received \in BOOLEAN, Verify(r, received)
        PROVE  \A s \in Requests : Kept(s)
    BY <1>4, <1>9 DEF Verify, Open
  <1>10. ASSUME NEW w \in Workers, AddRequest(w) PROVE \A s \in Requests : Kept(s) \/ Asks(s)
    <2>1. worker[w].on \in Requests /\ worker[w].paid <= invoice.paid /\ worker[w].paid \in 0..Total-1
      BY <1>10, PaymentsAssumption DEF AddRequest, PayInv, InHand, PayTypeOK
    <2>2. Amount(KeyOf(w)) \in 0..Total /\ Total <= Amount(KeyOf(w)) + invoice.paid
      BY <1>1, <2>1 DEF Amount, KeyOf
    <2>3. CASE Added(worker[w].on, Amount(KeyOf(w)))
      BY <1>5, <2>1, <2>2, <2>3
    <2>4. QED
      BY <1>3, <1>10, <2>3 DEF AddRequest
  <1>11. ASSUME NEW w \in Workers, Write(w) PROVE \A s \in Requests : Kept(s)
    <2>1. /\ worker[w].on \in Requests /\ request[worker[w].on].status # "none"
          /\ worker[w].seen # "none"
      BY <1>11 DEF Write, PayInv, InHand
    <2>2. QED
      BY <1>4, <1>11, <2>1 DEF Write
  <1>12. ASSUME NEW w \in Workers, Checkout(w) PROVE AddRequest(w) \/ request' = request
    BY <1>12 DEF Checkout, OpenCheckout, GetLink, CheckoutFails, CheckoutDies
  <1>13. ASSUME NEW w \in Workers, NEW r \in Requests, Expire(w, r) \/ Refresh(w, r) PROVE request' = request
    BY <1>13 DEF Expire, Refresh, Reads
  <1>14. ASSUME NEW k \in Keys, Clears(k) \/ PayByCard(k)
                \/ \E kind \in Kinds : Settle(k, kind) \/ SettleFails(k, kind) \/ Replay(k, kind)
         PROVE  request' = request
    BY <1>14 DEF Clears, PayByCard, Settle, SettleFails, Replay
  <1>15. Time => \A s \in Requests : Kept(s)
    BY <1>2, <1>3 DEF Time, Kept
  <1>16. RecordPayment \/ Void \/ UNCHANGED payVars => request' = request
    BY DEF RecordPayment, Void, payVars
  <1>17. QED
    BY <1>3, <1>7, <1>8, <1>9, <1>10, <1>11, <1>12, <1>13, <1>14, <1>15, <1>16 DEF PayNext, Staff

LEMMA AskedHolds == PayInv /\ [PayNext]_payVars => AskedInFull'
  <1> SUFFICES ASSUME PayInv, [PayNext]_payVars PROVE AskedInFull'
    OBVIOUS
  <1>0. /\ invoice'.paid >= invoice.paid /\ invoice'.paid \in 0..Total /\ invoice.paid \in 0..Total
        /\ Total \in Nat
    BY PaidGrows, PaymentsAssumption
  <1>1. request \in [Requests -> [status : {"none", "paid", "needs_review", "cancelled", "expired"} \cup Open,
                                  due : 0..Total, late : BOOLEAN]]
    BY DEF PayInv, PayTypeOK
  <1>2. ASSUME \A k \in Keys : session'[k] # "none" => session[k] # "none" \/ k[2] <= invoice.paid
        PROVE  \A k \in Keys : session'[k] # "none" => k[2] <= invoice'.paid
    <2>1. \A k \in Keys : session[k] # "none" => k[2] <= invoice.paid
      BY DEF PayInv, AskedInFull
    <2>2. \A k \in Keys : k[2] \in 0..Total-1
      BY KeysAre
    <2>3. QED
      BY <1>0, <1>2, <2>1, <2>2
  <1>3. ASSUME \A r \in Requests : request'[r].status # "none" => Kept(r) \/ Asks(r)
        PROVE  \A r \in Requests : request'[r].status # "none" => Total <= request'[r].due + invoice'.paid
    <2>1. \A r \in Requests : request[r].status # "none" => Total <= request[r].due + invoice.paid
      BY DEF PayInv, AskedInFull
    <2>2. \A r \in Requests : request[r].due \in 0..Total
      BY <1>1
    <2>3. QED
      BY <1>0, <1>3, <2>1, <2>2 DEF Kept, Asks
  <1>4. \A k \in Keys : session'[k] # "none" => session[k] # "none" \/ k[2] <= invoice.paid
    <2>1. session \in [Keys -> {"none", "open", "pending", "paid"}]
      BY DEF PayInv, PayTypeOK
    <2>2. ASSUME NEW w \in Workers, NEW reached \in BOOLEAN, worker[w].at = "calling", Reaches(w, reached)
          PROVE  \A k \in Keys : session'[k] # "none" => session[k] # "none" \/ k[2] <= invoice.paid
      <3>1. worker[w].paid <= invoice.paid
        BY <2>2 DEF PayInv, InHand
      <3>2. ASSUME NEW k \in Keys, session[k] = "none", k # KeyOf(w) PROVE session'[k] = "none"
        BY <2>1, <2>2, <3>2 DEF Reaches
      <3>3. ASSUME NEW k \in Keys, k = KeyOf(w) PROVE k[2] <= invoice.paid
        BY <3>1, <3>3 DEF KeyOf
      <3>4. QED
        BY <3>2, <3>3
    <2>3. CASE \E w \in Workers, reached \in BOOLEAN : worker[w].at = "calling" /\ Reaches(w, reached)
      BY <2>2, <2>3
    <2>4. CASE \E k \in Keys : Clears(k) \/ PayByCard(k)
      BY <2>1, <2>4 DEF Clears, PayByCard
    <2>5. CASE session' = session
      BY <2>5
    <2>6. QED
      <3>1. ASSUME NEW w \in Workers, Checkout(w)
            PROVE  session' = session \/ \E reached \in BOOLEAN : worker[w].at = "calling" /\ Reaches(w, reached)
        BY <3>1 DEF Checkout, OpenCheckout, GetLink, AddRequest, CheckoutFails, CheckoutDies
      <3>2. ASSUME NEW w \in Workers, Write(w) \/ \E r \in Requests : Expire(w, r) \/ Refresh(w, r)
            PROVE  session' = session
        BY <3>2 DEF Write, Expire, Refresh, Reads
      <3>3. ASSUME NEW k \in Keys, NEW kind \in Kinds, Settle(k, kind) \/ SettleFails(k, kind)
            PROVE  session' = session
        BY <3>3 DEF Settle, SettleFails
      <3>4. ASSUME NEW r \in Requests, AskTransfer(r) \/ AskAgain(r) \/ SayPaid(r)
            PROVE  session' = session
        BY <3>4 DEF AskTransfer, AskAgain, SayPaid
      <3>5. Time \/ Staff \/ UNCHANGED payVars => session' = session
        BY DEF Time, Staff, Cancel, Verify, RecordPayment, Void, Replay, StaffActs, payVars
      <3>6. QED
        BY <2>3, <2>4, <2>5, <3>1, <3>2, <3>3, <3>4, <3>5 DEF PayNext
  <1>5. \A r \in Requests : Kept(r) \/ Asks(r)
    BY RequestSteps
  <1>6. QED
    BY <1>2, <1>3, <1>4, <1>5 DEF AskedInFull
LEMMA InHandHolds == PayInv /\ [PayNext]_payVars => \A w \in Workers : InHand(w)'
  <1> SUFFICES ASSUME PayInv, [PayNext]_payVars, NEW w \in Workers PROVE InHand(w)'
    OBVIOUS
  <1>0. /\ invoice'.paid >= invoice.paid /\ invoice'.paid \in 0..Total /\ invoice.paid \in 0..Total
        /\ Total \in Nat
    BY PaidGrows, PaymentsAssumption
  <1>1. worker[w].paid \in 0..Total-1 /\ InHand(w)
    BY DEF PayInv, PayTypeOK
  <1>2. \A r \in Requests : request[r].status # "none" => request'[r].status # "none"
    BY RequestSteps DEF Kept, Asks
  <1>3. worker'[w] = worker[w] => InHand(w)'
    BY <1>0, <1>1, <1>2 DEF InHand
  <1>4. worker'[w].at = "idle" => InHand(w)'
    BY DEF InHand
  <1>5. worker \in [Workers -> [at : {"idle", "calling", "linked", "writing"},
                              on : Requests \cup {NoRequest}, paid : 0..Total - 1,
                              seen : {"none", "unpaid", "needs_review", "paid", "expired"}]]
    BY DEF PayInv, PayTypeOK
  <1>6. ASSUME NEW v \in Workers, Checkout(v) PROVE InHand(w)'
    <2>1. CASE v # w
      <3>1. worker'[w] = worker[w]
        BY <1>6, <2>1, <1>5 DEF Checkout, OpenCheckout, GetLink, AddRequest, CheckoutFails, CheckoutDies, Ends
      <3>2. QED
        BY <3>1, <1>3
    <2>2. CASE v = w
      <3>1. ASSUME NEW r \in Requests, OpenCheckout(w, r) PROVE InHand(w)'
        <4>1. worker'[w].at = "calling" /\ worker'[w].on = r /\ worker'[w].paid = invoice.paid
          BY <3>1, <1>5 DEF OpenCheckout
        <4>2. QED
          BY <1>0, <3>1, <4>1 DEF OpenCheckout, InHand
      <3>2. CASE GetLink(w)
        <4>1. worker'[w] = [worker[w] EXCEPT !.at = "linked"] /\ worker[w].at = "calling"
          BY <3>2, <1>5 DEF GetLink
        <4>2. worker'[w].at = "linked" /\ worker'[w].on = worker[w].on /\ worker'[w].paid = worker[w].paid
          BY <4>1, <1>5
        <4>3. QED
          BY <1>0, <1>1, <4>1, <4>2 DEF InHand
      <3>3. CASE AddRequest(w) \/ \E reached \in BOOLEAN : CheckoutFails(w, reached) \/ CheckoutDies(w, reached)
        <4>1. worker'[w].at = "idle"
          BY <3>3, <1>5 DEF AddRequest, CheckoutFails, CheckoutDies, Ends, Idle
        <4>2. QED
          BY <4>1, <1>4
      <3>4. QED
        BY <1>6, <2>2, <3>1, <3>2, <3>3 DEF Checkout
    <2>3. QED
      BY <2>1, <2>2
  <1>7. ASSUME NEW v \in Workers, Write(v) PROVE InHand(w)'
    <2>1. worker'[w] = worker[w] \/ worker'[w].at = "idle"
      BY <1>5, <1>7 DEF Write, Ends, Idle
    <2>2. QED
      BY <1>3, <1>4, <2>1
  <1>8. ASSUME NEW v \in Workers, NEW r \in Requests, Expire(v, r) \/ Refresh(v, r) PROVE InHand(w)'
    <2>1. PICK to \in {"paid", "needs_review", "expired"} : Reads(v, r, to)
      BY <1>8 DEF Expire, Refresh
    <2>2. request[r].status # "none" /\ request' = request
      BY <1>8, <2>1 DEF Expire, Refresh, Open, Reads
    <2>3. CASE v = w
      <3>1. worker'[w].at = "writing" /\ worker'[w].on = r /\ worker'[w].seen = to
        BY <1>5, <2>1, <2>3 DEF Reads, Idle
      <3>2. QED
        BY <2>2, <3>1 DEF InHand
    <2>4. CASE v # w
      BY <1>3, <1>5, <2>1, <2>4 DEF Reads
    <2>5. QED
      BY <2>3, <2>4
  <1>9. ASSUME NEW r \in Requests, AskTransfer(r) \/ AskAgain(r) \/ SayPaid(r) PROVE worker' = worker
    BY <1>9 DEF AskTransfer, AskAgain, SayPaid
  <1>10. ASSUME NEW k \in Keys, Clears(k) \/ PayByCard(k)
                \/ \E kind \in Kinds : Settle(k, kind) \/ SettleFails(k, kind)
         PROVE  worker' = worker
    BY <1>10 DEF Clears, PayByCard, Settle, SettleFails
  <1>11. Time \/ Staff \/ UNCHANGED payVars => worker' = worker
    BY DEF Time, Staff, Cancel, Verify, RecordPayment, Void, Replay, StaffActs, payVars
  <1>12. QED
    BY <1>3, <1>6, <1>7, <1>8, <1>9, <1>10, <1>11 DEF PayNext

LEMMA TruthfulHolds == PayInv /\ [PayNext]_payVars => Truthful'
  <1> SUFFICES ASSUME PayInv, [PayNext]_payVars PROVE Truthful'
    OBVIOUS
  <1>0. /\ booked \in [Requests -> Nat] /\ booked' \in [Requests -> Nat]
        /\ \A r \in Requests : booked[r] > 0 => booked'[r] > 0
    BY PaidGrows DEF PayInv, PayTypeOK
  <1>1. op \in [Keys -> [status : {"none", "running", "succeeded", "failed"}, linked : BOOLEAN,
                        state : {"none", "unpaid", "needs_review", "paid"}, old : BOOLEAN]]
    BY DEF PayInv, PayTypeOK
  <1>2. Truthful
    BY DEF PayInv
  <1>3. \A r \in Requests : Pays(r) => booked'[r] > 0
    BY <1>0 DEF Pays
  <1>4. \A k \in Keys : op'[k].state = "paid" => op[k].state = "paid" \/ booked'[k[1]] > 0
    <2>1. ASSUME NEW w \in Workers, Checkout(w)
          PROVE  \A k \in Keys : op'[k].state = "paid" => op[k].state = "paid"
      <3>1. ASSUME NEW r \in Requests, OpenCheckout(w, r)
            PROVE  \A k \in Keys : op'[k].state = "paid" => op[k].state = "paid"
        BY <1>1, <3>1 DEF OpenCheckout
      <3>2. CASE GetLink(w)
        BY <1>1, <3>2 DEF GetLink
      <3>3. ASSUME NEW reached \in BOOLEAN, CheckoutFails(w, reached)
            PROVE  \A k \in Keys : op'[k].state = "paid" => op[k].state = "paid"
        BY <1>1, <3>3 DEF CheckoutFails
      <3>4. AddRequest(w) \/ (\E reached \in BOOLEAN : CheckoutDies(w, reached)) => op' = op
        BY DEF AddRequest, CheckoutDies
      <3>5. QED
        BY <2>1, <3>1, <3>2, <3>3, <3>4 DEF Checkout
    <2>2. ASSUME NEW k \in Keys, NEW kind \in Kinds, Settle(k, kind)
          PROVE  \A l \in Keys : op'[l].state = "paid" => op[l].state = "paid" \/ booked'[l[1]] > 0
      <3>1. CASE op' = op \/ op' = [op EXCEPT ![k].state = "needs_review"]
        BY <1>1, <3>1
      <3>2. CASE Pays(k[1]) /\ op' = [op EXCEPT ![k].state = "paid"]
        BY <1>1, <1>3, <3>2, KeysAre
      <3>3. QED
        BY <2>2, <3>1, <3>2, SettlePays
    <2>3. Time => \A k \in Keys : op'[k].state = "paid" => op[k].state = "paid"
      BY <1>1 DEF Time
    <2>4. ASSUME NEW r \in Requests, AskTransfer(r) \/ AskAgain(r) \/ SayPaid(r) PROVE op' = op
      BY <2>4 DEF AskTransfer, AskAgain, SayPaid
    <2>5. ASSUME NEW w \in Workers, Write(w) \/ \E r \in Requests : Expire(w, r) \/ Refresh(w, r)
          PROVE  op' = op
      BY <2>5 DEF Write, Expire, Refresh, Reads
    <2>6. ASSUME NEW k \in Keys, Clears(k) \/ PayByCard(k) \/ \E kind \in Kinds : SettleFails(k, kind)
          PROVE  op' = op
      BY <2>6 DEF Clears, PayByCard, SettleFails
    <2>7. Staff \/ UNCHANGED payVars => op' = op
      BY DEF Staff, Cancel, Verify, RecordPayment, Void, Replay, StaffActs, payVars
    <2>8. QED
      BY <2>1, <2>2, <2>3, <2>4, <2>5, <2>6, <2>7 DEF PayNext
  <1>5. \A w \in Workers : worker'[w].at = "writing" /\ worker'[w].seen = "paid"
                            => booked[worker'[w].on] > 0 /\ worker'[w].on \in Requests
    <2> DEFINE Right == \A w \in Workers : worker'[w].at = "writing" /\ worker'[w].seen = "paid"
                            => booked[worker'[w].on] > 0 /\ worker'[w].on \in Requests
    <2>1. worker \in [Workers -> [at : {"idle", "calling", "linked", "writing"},
                              on : Requests \cup {NoRequest}, paid : 0..Total - 1,
                              seen : {"none", "unpaid", "needs_review", "paid", "expired"}]]
      BY DEF PayInv, PayTypeOK
    <2>2. worker' = worker => Right
      BY <1>2 DEF Truthful, PayInv, InHand
    <2>3. ASSUME NEW w \in Workers, \A v \in Workers \ {w} : worker'[v] = worker[v],
                 worker'[w].at # "writing"
          PROVE  Right
      BY <1>2, <2>3 DEF Truthful, PayInv, InHand
    <2>4. ASSUME NEW w \in Workers, Checkout(w) \/ Write(w) PROVE Right
      <3>1. \A v \in Workers \ {w} : worker'[v] = worker[v]
        BY <2>1, <2>4 DEF Checkout, OpenCheckout, GetLink, AddRequest, CheckoutFails, CheckoutDies, Write, Ends
      <3>2. worker'[w].at # "writing"
        <4>1. ASSUME NEW r \in Requests, OpenCheckout(w, r) PROVE worker'[w].at = "calling"
          BY <2>1, <4>1 DEF OpenCheckout
        <4>2. GetLink(w) => worker'[w].at = "linked"
          BY <2>1 DEF GetLink
        <4>3. Ends(w) => worker'[w].at = "idle"
          BY <2>1 DEF Ends, Idle
        <4>4. QED
          BY <2>4, <4>1, <4>2, <4>3 DEF Checkout, AddRequest, CheckoutFails, CheckoutDies, Write
      <3>3. QED
        BY <2>3, <3>1, <3>2
    <2>5. ASSUME NEW w \in Workers, NEW r \in Requests, Expire(w, r) \/ Refresh(w, r) PROVE Right
      <3>1. PICK to \in {"paid", "needs_review", "expired"} : Reads(w, r, to) /\ (to = "paid" => booked[r] > 0)
        BY <1>2, <2>5 DEF Expire, Refresh, Confirmed, Truthful
      <3>2. worker'[w].on = r /\ worker'[w].seen = to /\ \A v \in Workers \ {w} : worker'[v] = worker[v]
        BY <2>1, <3>1 DEF Reads, Idle
      <3>3. QED
        BY <1>2, <3>1, <3>2 DEF Truthful, PayInv, InHand
    <2>6. ASSUME NEW r \in Requests, AskTransfer(r) \/ AskAgain(r) \/ SayPaid(r) PROVE worker' = worker
      BY <2>6 DEF AskTransfer, AskAgain, SayPaid
    <2>7. ASSUME NEW k \in Keys, Clears(k) \/ PayByCard(k)
                 \/ \E kind \in Kinds : Settle(k, kind) \/ SettleFails(k, kind)
          PROVE  worker' = worker
      BY <2>7 DEF Clears, PayByCard, Settle, SettleFails
    <2>8. Time \/ Staff \/ UNCHANGED payVars => worker' = worker
      BY DEF Time, Staff, Cancel, Verify, RecordPayment, Void, Replay, StaffActs, payVars
    <2>9. QED
      BY <2>2, <2>4, <2>5, <2>6, <2>7, <2>8 DEF PayNext
  <1>6. \A r \in Requests : request'[r].status = "paid" => request[r].status = "paid" \/ booked'[r] > 0
    <2>1. request \in [Requests -> [status : {"none", "paid", "needs_review", "cancelled", "expired"} \cup Open,
                                   due : 0..Total, late : BOOLEAN]]
      BY DEF PayInv, PayTypeOK
    <2>2. ASSUME NEW r \in Requests, NEW status, Becomes(r, status), status = "paid" => booked'[r] > 0
          PROVE  \A s \in Requests : request'[s].status = "paid" => request[s].status = "paid" \/ booked'[s] > 0
      BY <2>1, <2>2 DEF Becomes
    <2>3. ASSUME NEW r \in Requests, NEW due, Added(r, due)
          PROVE  \A s \in Requests : request'[s].status = "paid" => request[s].status = "paid"
      BY <2>1, <2>3 DEF Added
    <2>4. ASSUME NEW r \in Requests, AskTransfer(r) \/ AskAgain(r)
          PROVE  \A s \in Requests : request'[s].status = "paid" => request[s].status = "paid"
      BY <2>3, <2>4 DEF AskTransfer, AskAgain
    <2>5. ASSUME NEW r \in Requests, SayPaid(r) \/ Cancel(r)
          PROVE  \A s \in Requests : request'[s].status = "paid" => request[s].status = "paid" \/ booked'[s] > 0
      BY <2>2, <2>5 DEF SayPaid, Cancel
    <2>6. ASSUME NEW r \in Requests, NEW received \in BOOLEAN, Verify(r, received)
          PROVE  \A s \in Requests : request'[s].status = "paid" => request[s].status = "paid" \/ booked'[s] > 0
      <3>1. CASE Becomes(r, "open") \/ Becomes(r, "needs_review")
        BY <2>2, <3>1
      <3>2. CASE Becomes(r, "paid") /\ Book(r, request[r].due)
        <4>1. booked'[r] > 0
          BY <1>0, <3>2 DEF Book
        <4>2. QED
          BY <2>2, <3>2, <4>1
      <3>3. QED
        BY <2>6, <3>1, <3>2 DEF Verify
    <2>7. ASSUME NEW w \in Workers, AddRequest(w)
          PROVE  \A s \in Requests : request'[s].status = "paid" => request[s].status = "paid"
      BY <2>3, <2>7, PaymentsAssumption DEF AddRequest, PayInv, InHand
    <2>8. ASSUME NEW w \in Workers, Write(w)
          PROVE  \A s \in Requests : request'[s].status = "paid" => request[s].status = "paid" \/ booked'[s] > 0
      <3>1. worker[w].on \in Requests /\ (worker[w].seen = "paid" => booked[worker[w].on] > 0)
        BY <1>2, <2>8 DEF Write, Truthful, PayInv, InHand
      <3>2. QED
        BY <1>0, <2>2, <2>8, <3>1 DEF Write
    <2>9. ASSUME NEW w \in Workers, Checkout(w) PROVE AddRequest(w) \/ request' = request
      BY <2>9 DEF Checkout, OpenCheckout, GetLink, CheckoutFails, CheckoutDies
    <2>10. ASSUME NEW w \in Workers, NEW r \in Requests, Expire(w, r) \/ Refresh(w, r) PROVE request' = request
      BY <2>10 DEF Expire, Refresh, Reads
    <2>11. ASSUME NEW k \in Keys, Clears(k) \/ PayByCard(k)
                  \/ \E kind \in Kinds : Settle(k, kind) \/ SettleFails(k, kind) \/ Replay(k, kind)
           PROVE  request' = request
      BY <2>11 DEF Clears, PayByCard, Settle, SettleFails, Replay
    <2>12. Time => \A s \in Requests : request'[s].status = request[s].status
      BY <2>1 DEF Time
    <2>13. RecordPayment \/ Void \/ UNCHANGED payVars => request' = request
      BY DEF RecordPayment, Void, payVars
    <2>14. QED
      BY <2>4, <2>5, <2>6, <2>7, <2>8, <2>9, <2>10, <2>11, <2>12, <2>13 DEF PayNext, Staff
  <1>7. QED
    BY <1>0, <1>2, <1>4, <1>5, <1>6, KeysAre DEF Truthful
LEMMA TypeHolds == PayInv /\ [PayNext]_payVars => PayTypeOK'
  <1> SUFFICES ASSUME PayInv, [PayNext]_payVars PROVE PayTypeOK'
    OBVIOUS
  <1> DEFINE RequestRow == [status : {"none", "paid", "needs_review", "cancelled", "expired"} \cup Open,
                            due : 0..Total, late : BOOLEAN]
             OpRow == [status : {"none", "running", "succeeded", "failed"}, linked : BOOLEAN,
                       state : {"none", "unpaid", "needs_review", "paid"}, old : BOOLEAN]
             EventRow == [status : {"none", "queued", "failed", "processed", "ignored", "dead_letter"},
                          attempts : Nat]
             Process == [at : {"idle", "calling", "linked", "writing"},
                         on : Requests \cup {NoRequest}, paid : 0..Total - 1,
                         seen : {"none", "unpaid", "needs_review", "paid", "expired"}]
             Others == /\ request' \in [Requests -> RequestRow] /\ op' \in [Keys -> OpRow]
                       /\ session' \in [Keys -> {"none", "open", "pending", "paid"}]
                       /\ event' \in [Keys -> [Kinds -> EventRow]]
                       /\ worker' \in [Workers -> Process] /\ staff' \in 0..MaxStaff
  <1>1. /\ invoice' \in [paid : 0..Total, void : BOOLEAN] /\ booked' \in [Requests -> Nat]
        /\ invoice.paid \in 0..Total
    BY PaidGrows
  <1>2. /\ request \in [Requests -> RequestRow] /\ op \in [Keys -> OpRow]
        /\ session \in [Keys -> {"none", "open", "pending", "paid"}]
        /\ event \in [Keys -> [Kinds -> EventRow]]
        /\ worker \in [Workers -> Process] /\ staff \in 0..MaxStaff
    BY DEF PayInv, PayTypeOK
  <1>3. Idle \in Process /\ Total \in Nat /\ Cards \subseteq Requests
    BY PaymentsAssumption DEF Idle
  <1>4. \A w \in Workers : Ends(w) => worker' \in [Workers -> Process]
    BY <1>2, <1>3 DEF Ends
  <1>5. ASSUME NEW r \in Requests, NEW status \in {"paid", "needs_review", "cancelled", "expired"} \cup Open, Becomes(r, status)
        PROVE  request' \in [Requests -> RequestRow]
    BY <1>2, <1>5 DEF Becomes
  <1>6. ASSUME NEW r \in Requests, NEW due \in 0..Total, Added(r, due)
        PROVE  request' \in [Requests -> RequestRow]
    BY <1>2, <1>6 DEF Added, Open
  <1>status. ASSUME NEW k, NEW status \in {"running", "succeeded", "failed"}
             PROVE  [op EXCEPT ![k].status = status] \in [Keys -> OpRow]
    <2>1. CASE k \in Keys
      <3>1. [op[k] EXCEPT !.status = status] \in OpRow
        BY <1>2, <2>1
      <3>2. QED
        BY <1>2, <3>1
    <2>2. CASE k \notin Keys
      BY <1>2, <2>2
    <2>3. QED
      BY <2>1, <2>2
  <1>state. ASSUME NEW k \in Keys, NEW state \in {"needs_review", "paid"}
            PROVE  [op EXCEPT ![k].state = state] \in [Keys -> OpRow]
    <2>1. op[k] \in OpRow
      BY <1>2
    <2>2. [op[k] EXCEPT !.state = state] \in OpRow
      BY <2>1
    <2>3. QED
      BY <1>2, <2>2
  <1>queued. ASSUME NEW k \in Keys, NEW kind \in Kinds, Arrives(k, kind)
             PROVE  event' \in [Keys -> [Kinds -> EventRow]]
    BY <1>2, <1>queued DEF Arrives
  <1>7. ASSUME NEW r \in Requests, AskTransfer(r) \/ AskAgain(r) PROVE Others
    <2>1. Due \in 0..Total
      BY <1>1, <1>3 DEF Due
    <2>2. request' \in [Requests -> RequestRow]
      BY <1>6, <1>7, <2>1 DEF AskTransfer, AskAgain
    <2>3. QED
      BY <1>2, <1>7, <2>2 DEF AskTransfer, AskAgain
  <1>8. ASSUME NEW r \in Requests, SayPaid(r) PROVE Others
    <2>1. request' \in [Requests -> RequestRow]
      BY <1>5, <1>8 DEF SayPaid, Open
    <2>2. QED
      BY <1>2, <1>8, <2>1 DEF SayPaid
  <1>9. ASSUME NEW w \in Workers, NEW r \in Requests, OpenCheckout(w, r) PROVE Others
    <2>1. invoice.paid \in 0..Total-1
      BY <1>1, <1>3, <1>9 DEF OpenCheckout, Wanted, Payable, Due
    <2>2. <<r, invoice.paid>> \in Keys
      BY <2>1, <1>9 DEF Keys, OpenCheckout
    <2>3. op[<<r, invoice.paid>>].state \in {"none", "unpaid", "needs_review", "paid"}
      BY <1>2, <2>2
    <2>4. op' \in [Keys -> OpRow]
      BY <1>9, <1>status DEF OpenCheckout
    <2>5. worker' \in [Workers -> Process]
      BY <1>2, <1>9, <2>1, <2>3 DEF OpenCheckout
    <2>6. QED
      BY <1>2, <1>9, <2>4, <2>5 DEF OpenCheckout
  <1>10. ASSUME NEW w \in Workers, NEW reached \in BOOLEAN, Reaches(w, reached)
         PROVE  session' \in [Keys -> {"none", "open", "pending", "paid"}]
    BY <1>2, <1>10 DEF Reaches
  <1>11. ASSUME NEW w \in Workers, GetLink(w) PROVE Others
    <2>1. op' \in [Keys -> OpRow]
      <3> DEFINE k == KeyOf(w)
                 state == IF worker[w].seen = "unpaid" THEN op[k].state ELSE "unpaid"
      <3>1. CASE k \in Keys
        <4>1. state \in {"none", "unpaid", "needs_review", "paid"} /\ op[k] \in OpRow
          BY <1>2, <3>1
        <4>2. op' = [op EXCEPT ![k] = [op[k] EXCEPT !.status = "succeeded", !.linked = TRUE, !.state = state]]
          BY <1>11 DEF GetLink
        <4>3. [op[k] EXCEPT !.status = "succeeded", !.linked = TRUE, !.state = state] \in OpRow
          BY <4>1
        <4>4. QED
          BY <1>2, <4>2, <4>3
      <3>2. CASE k \notin Keys
        BY <1>2, <1>11, <3>2 DEF GetLink
      <3>3. QED
        BY <3>1, <3>2
    <2>2. worker' \in [Workers -> Process]
      BY <1>2, <1>11 DEF GetLink
    <2>3. session' \in [Keys -> {"none", "open", "pending", "paid"}]
      BY <1>10, <1>11 DEF GetLink
    <2>4. QED
      BY <1>2, <1>11, <2>1, <2>2, <2>3 DEF GetLink
  <1>12. ASSUME NEW w \in Workers, NEW reached \in BOOLEAN, CheckoutFails(w, reached) PROVE Others
    <2>1. op' \in [Keys -> OpRow]
      BY <1>12, <1>status DEF CheckoutFails
    <2>2. QED
      BY <1>2, <1>4, <1>10, <1>12, <2>1 DEF CheckoutFails
  <1>13. ASSUME NEW w \in Workers, NEW reached \in BOOLEAN, CheckoutDies(w, reached) PROVE Others
    <2>1. session' \in [Keys -> {"none", "open", "pending", "paid"}]
      BY <1>2, <1>10, <1>13 DEF CheckoutDies
    <2>2. QED
      BY <1>2, <1>4, <1>13, <2>1 DEF CheckoutDies
  <1>14. ASSUME NEW w \in Workers, AddRequest(w) PROVE Others
    <2>1. worker[w].on \in Requests /\ worker[w].paid \in 0..Total-1
      BY <1>2, <1>3, <1>14 DEF AddRequest, PayInv, InHand
    <2>2. Amount(KeyOf(w)) \in 0..Total
      BY <1>3, <2>1 DEF Amount, KeyOf
    <2>3. request' \in [Requests -> RequestRow]
      BY <1>2, <1>6, <1>14, <2>1, <2>2 DEF AddRequest
    <2>4. QED
      BY <1>2, <1>4, <1>14, <2>3 DEF AddRequest
  <1>15. ASSUME NEW w \in Workers, Write(w) PROVE Others
    <2>1. worker[w].on \in Requests /\ worker[w].seen \in {"paid", "needs_review", "expired"}
      BY <1>15 DEF Write, PayInv, InHand
    <2>2. request' \in [Requests -> RequestRow]
      BY <1>5, <1>15, <2>1 DEF Write
    <2>3. QED
      BY <1>2, <1>4, <1>15, <2>2 DEF Write
  <1>16. ASSUME NEW w \in Workers, NEW r \in Requests, Expire(w, r) \/ Refresh(w, r) PROVE Others
    <2>1. PICK to \in {"paid", "needs_review", "expired"} : Reads(w, r, to)
      BY <1>16 DEF Expire, Refresh
    <2>2. [Idle EXCEPT !.at = "writing", !.on = r, !.seen = to] \in Process
      BY <1>3 DEF Idle
    <2>3. worker' \in [Workers -> Process]
      BY <1>2, <2>1, <2>2 DEF Reads
    <2>4. QED
      BY <1>2, <2>1, <2>3 DEF Reads
  <1>17. ASSUME NEW k \in Keys, Clears(k) \/ PayByCard(k) PROVE Others
    <2>1. event' \in [Keys -> [Kinds -> EventRow]]
      <3>1. \E kind \in Kinds : Arrives(k, kind)
        BY <1>17 DEF Clears, PayByCard, Kinds
      <3>2. QED
        BY <1>queued, <3>1
    <2>2. session' \in [Keys -> {"none", "open", "pending", "paid"}]
      BY <1>2, <1>17 DEF Clears, PayByCard
    <2>3. QED
      BY <1>2, <1>17, <2>1, <2>2 DEF Clears, PayByCard
  <1>18. ASSUME NEW k \in Keys, NEW kind \in Kinds, Settle(k, kind) \/ SettleFails(k, kind) PROVE Others
    <2>1. ASSUME NEW status \in {"failed", "processed", "ignored", "dead_letter"}, Processed(k, kind, status)
          PROVE  event' \in [Keys -> [Kinds -> EventRow]]
      <3>1. event[k][kind].attempts + 1 \in Nat
        BY <1>2
      <3>2. [status |-> status, attempts |-> event[k][kind].attempts + 1] \in EventRow
        BY <3>1
      <3>3. QED
        BY <1>2, <2>1, <3>2 DEF Processed
    <2>2. CASE SettleFails(k, kind)
      <3>1. event' \in [Keys -> [Kinds -> EventRow]]
        BY <2>1, <2>2 DEF SettleFails
      <3>2. QED
        BY <1>2, <2>2, <3>1 DEF SettleFails
    <2>3. CASE Settle(k, kind)
      <3>1. event' \in [Keys -> [Kinds -> EventRow]]
        BY <2>1, <2>3 DEF Settle
      <3>2. op' \in [Keys -> OpRow]
        <4>1. op' = op \/ op' = [op EXCEPT ![k].state = "needs_review"] \/ op' = [op EXCEPT ![k].state = "paid"]
          BY <2>3, SettlePays
        <4>2. /\ [op EXCEPT ![k].state = "needs_review"] \in [Keys -> OpRow]
              /\ [op EXCEPT ![k].state = "paid"] \in [Keys -> OpRow]
          BY <1>state
        <4>3. CASE op' = op
          BY <1>2, <4>3
        <4>4. CASE op' # op
          BY <4>1, <4>2, <4>4
        <4>5. QED
          BY <4>3, <4>4
      <3>3. QED
        BY <1>2, <2>3, <3>1, <3>2 DEF Settle
    <2>4. QED
      BY <1>18, <2>2, <2>3
  <1>19. Time => Others
    <2>1. CASE Time
      <3>1. ASSUME NEW r \in Requests, request' = [request EXCEPT ![r].late = TRUE]
            PROVE  request' \in [Requests -> RequestRow]
        <4>1. request[r] \in RequestRow
          BY <1>2
        <4>2. [request[r] EXCEPT !.late = TRUE] \in RequestRow
          BY <4>1
        <4>3. QED
          BY <1>2, <3>1, <4>2
      <3>2. ASSUME NEW k \in Keys, op' = [op EXCEPT ![k].old = TRUE] PROVE op' \in [Keys -> OpRow]
        <4>1. op[k] \in OpRow
          BY <1>2
        <4>2. [op[k] EXCEPT !.old = TRUE] \in OpRow
          BY <4>1
        <4>3. QED
          BY <1>2, <3>2, <4>2
      <3>3. QED
        BY <1>2, <2>1, <3>1, <3>2 DEF Time
    <2>2. QED
      BY <2>1
  <1>20. StaffActs => staff' \in 0..MaxStaff /\ op' = op /\ session' = session /\ worker' = worker
    BY <1>2, PaymentsAssumption DEF StaffActs
  <1>21. ASSUME NEW r \in Requests, Cancel(r) \/ \E received \in BOOLEAN : Verify(r, received) PROVE Others
    <2>1. \E status \in {"open", "needs_review", "paid", "cancelled"} : Becomes(r, status)
      BY <1>21 DEF Cancel, Verify
    <2>2. request' \in [Requests -> RequestRow]
      BY <1>5, <2>1 DEF Open
    <2>3. StaffActs /\ event' = event
      BY <1>21 DEF Cancel, Verify
    <2>4. QED
      BY <1>2, <1>20, <2>2, <2>3
  <1>22. RecordPayment \/ Void => Others
    BY <1>2, <1>20 DEF RecordPayment, Void
  <1>23. ASSUME NEW k \in Keys, NEW kind \in Kinds, Replay(k, kind) PROVE Others
    <2>1. event' \in [Keys -> [Kinds -> EventRow]]
      BY <1>23, <1>queued DEF Replay
    <2>2. QED
      BY <1>2, <1>20, <1>23, <2>1 DEF Replay
  <1>24. UNCHANGED payVars => Others
    BY <1>2 DEF payVars
  <1>25. Others
    BY <1>7, <1>8, <1>9, <1>11, <1>12, <1>13, <1>14, <1>15, <1>16, <1>17, <1>18, <1>19, <1>21, <1>22,
       <1>23, <1>24 DEF PayNext, Checkout, Staff
  <1>26. QED
    BY <1>1, <1>25 DEF PayTypeOK

----------------------------------------------------------------------------
LEMMA Invariance == PaySpec => []PayInv
  <1>1. PayInv /\ [PayNext]_payVars => PayInv'
    BY TypeHolds, AskedHolds, InHandHolds, ClosedHolds, TruthfulHolds DEF PayInv
  <1>2. QED
    BY InitHolds, <1>1, PTL DEF PaySpec

(* Every row and every process has a value of its kind: in particular no   *)
(* invoice is paid more than its total (record_payment, settle_checkout).  *)
THEOREM PaymentTypes == PaySpec => []PayTypeOK
  <1>1. PayInv => PayTypeOK
    BY DEF PayInv
  <1>2. QED
    BY <1>1, Invariance, PTL

(* Money is booked once, however often it is asked for, told and replayed  *)
(* (customer_payments.py verify, business.py settle_checkout).             *)
THEOREM MoneyOnce == PaySpec => []BookedOnce
  <1>1. PayInv => BookedOnce
    <2> SUFFICES ASSUME PayInv PROVE BookedOnce
      OBVIOUS
    <2>1. \A r \in Requests : booked[r] \in Nat
      BY DEF PayInv, PayTypeOK
    <2>2. QED
      BY <2>1 DEF PayInv, Closed, BookedOnce
  <1>2. QED
    BY <1>1, Invariance, PTL

(* A request that is shown as paid has its payment, although two writers   *)
(* of its status read it without a lock (expire_requests, sync_stripe).    *)
THEOREM PaidIsBooked == PaySpec => []ShownPaidIsBooked
  <1>1. PayInv => ShownPaidIsBooked
    BY DEF PayInv, Closed, Truthful, ShownPaidIsBooked
  <1>2. QED
    BY <1>1, Invariance, PTL
=============================================================================
