------------------------ MODULE SubscriptionsProofs ------------------------
(***************************************************************************)
(* One way to pay at a time, and the time that was paid for by hand is     *)
(* given: for any plans, payments and checkouts, any length of a period    *)
(* and of the graces, and any number of acts of Stripe whose events are    *)
(* applied in any order.                                                   *)
(***************************************************************************)
EXTENDS Subscriptions, TLAPS

(* What was bought, asked for or reported has a plan.                      *)
Real ==
  /\ \A c \in Checkouts : card[c].state # "none" => card[c].plan \in Plans
  /\ \A e \in event : e.of.state # "none" /\ e.of.plan \in Plans
  /\ \A p \in Payments : payment[p].status # "none" => payment[p].plan \in Plans

(* A session that can be paid belongs to an attempt that blocks.           *)
Wanted(c) == attempt[c].status \in {"creating", "open"}
Known ==
  /\ \A c \in Checkouts : session[c] # "none" => c \in DOMAIN attempt
  /\ \A c \in DOMAIN attempt : session[c] = "open" => Wanted(c)
  /\ \A e \in event : e.kind = "session" => session[e.card] = "complete"
NoneWanted == Pending => \A c \in DOMAIN attempt : ~Wanted(c)

(* Who has paid by hand has a row that says so, that every event waiting   *)
(* is too old for, and no card that charges; an approved payment begins    *)
(* where the one before it ended or at its approval.                       *)
Approved(p) == payment[p].status = "approved"
Live(p) == Approved(p) /\ payment[p].end > now
Timely ==
  /\ \A e \in event : e.at <= now
  /\ \A p \in Payments : Approved(p) =>
       /\ payment[p].end = payment[p].start + Period
       /\ payment[p].start = payment[p].prev \/ payment[p].start <= now
Kept(p) ==
  /\ sub.by = "manual" /\ sub.status = "active" /\ sub.last # 0
  /\ sub.end >= payment[p].end /\ sub.plan = payment[p].plan
  /\ \A c \in Checkouts : ~Charging(c)
  /\ \A e \in event : e.at <= sub.last
Apart ==
  \A p, q \in Payments : p # q /\ Approved(p) /\ Approved(q) =>
    payment[p].end <= payment[q].start \/ payment[q].end <= payment[p].start
Given == ~doubled => Apart /\ \A p \in Payments : Live(p) => Kept(p)

SubInv == SubTypeOK /\ Real /\ Known /\ NoneWanted /\ Timely /\ Given

----------------------------------------------------------------------------
LEMMA InitHolds == SubInit => SubInv
  <1> SUFFICES ASSUME SubInit PROVE SubInv
    OBVIOUS
  <1>1. attempt \in Seq(AttemptRow) /\ Len(attempt) = 0 /\ DOMAIN attempt = {}
    BY DEF SubInit
  <1>2. SubTypeOK
    <2>1. now \in 1..MaxTime /\ acts \in 0..MaxActs /\ Len(attempt) <= MaxCheckouts
      BY <1>1, SubscriptionsAssumption DEF SubInit
    <2>2. sub \in SubRow
      BY DEF SubInit, SubRow
    <2>3. session \in [Checkouts -> {"none", "open", "complete", "expired"}]
      BY DEF SubInit
    <2>4. card \in [Checkouts -> CardRow]
      BY DEF SubInit, CardRow, NoCard
    <2>5. payment \in [Payments -> PaymentRow]
      BY DEF SubInit, PaymentRow, NoPayment
    <2>6. event \subseteq EventRow /\ settled \subseteq Checkouts \X Nat /\ keys \subseteq Checkouts
      BY DEF SubInit
    <2>7. doubled \in BOOLEAN
      BY DEF SubInit
    <2>8. QED
      BY <1>1, <2>1, <2>2, <2>3, <2>4, <2>5, <2>6, <2>7 DEF SubTypeOK
  <1>3. \A p \in Payments : payment[p].status = "none"
    BY DEF SubInit, NoPayment
  <1>4. Real /\ Known
    BY <1>3 DEF SubInit, Real, Known, NoCard
  <1>5. NoneWanted /\ Timely /\ Given
    BY <1>3 DEF SubInit, NoneWanted, Pending, Timely, Given, Apart, Live, Approved
  <1>6. QED
    BY <1>2, <1>4, <1>5 DEF SubInv

(* A row of an attempt changes its status.                                 *)
LEMMA AttemptsTyped ==
  ASSUME SubTypeOK, NEW c \in Checkouts, NEW to \in {"open", "complete"},
         attempt' = [attempt EXCEPT ![c].status = to]
  PROVE  /\ attempt' \in Seq(AttemptRow) /\ Len(attempt') = Len(attempt)
         /\ DOMAIN attempt' = DOMAIN attempt
         /\ \A d \in DOMAIN attempt : attempt'[d].status = IF d = c THEN to ELSE attempt[d].status
  <1>1. attempt \in Seq(AttemptRow) /\ DOMAIN attempt = 1..Len(attempt) /\ Len(attempt) \in Nat
    BY DEF SubTypeOK
  <1>2. attempt' = [d \in 1..Len(attempt) |-> IF d = c THEN [attempt[d] EXCEPT !.status = to] ELSE attempt[d]]
    BY <1>1
  <1>3. \A d \in 1..Len(attempt) : attempt[d] \in AttemptRow /\ attempt'[d] \in AttemptRow
    <2> SUFFICES ASSUME NEW d \in 1..Len(attempt)
                 PROVE  attempt[d] \in AttemptRow /\ attempt'[d] \in AttemptRow
      OBVIOUS
    <2>1. attempt[d] \in AttemptRow
      BY <1>1
    <2>2. attempt'[d] = IF d = c THEN [attempt[d] EXCEPT !.status = to] ELSE attempt[d]
      BY <1>2
    <2>3. [attempt[d] EXCEPT !.status = to] \in AttemptRow
      BY <2>1 DEF AttemptRow
    <2>4. QED
      BY <2>1, <2>2, <2>3
  <1>4. attempt' \in [1..Len(attempt) -> AttemptRow]
    BY <1>2, <1>3
  <1>5. \A d \in DOMAIN attempt : attempt'[d].status = IF d = c THEN to ELSE attempt[d].status
    BY <1>1, <1>2, <1>3 DEF AttemptRow
  <1>6. QED
    BY <1>1, <1>2, <1>4, <1>5

----------------------------------------------------------------------------
(* What an action leaves alone keeps its part of the invariant.            *)
LEMMA KnownStays ==
  ASSUME SubInv, UNCHANGED <<attempt, session>>,
         \A e \in event' : e \in event \/ e.kind # "session"
  PROVE  Known'
  BY DEF SubInv, Known, Wanted

LEMMA NoneWantedStays ==
  ASSUME SubInv, UNCHANGED attempt, Pending' => Pending
  PROVE  NoneWanted'
  BY DEF SubInv, NoneWanted, Wanted

LEMMA TimelyStays ==
  ASSUME SubInv, UNCHANGED payment, now' \in Nat, now <= now', event' \subseteq EventRow,
         \A e \in event' : e \in event \/ e.at = now
  PROVE  Timely'
  <1>1. now \in Nat /\ payment \in [Payments -> PaymentRow] /\ event \subseteq EventRow
    BY SubscriptionsAssumption DEF SubInv, SubTypeOK
  <1>2. ASSUME NEW e \in event' PROVE e.at <= now'
    <2>1. e.at \in Nat
      BY <1>2 DEF EventRow
    <2>2. e.at <= now
      BY <1>1, <1>2, <2>1 DEF SubInv, Timely
    <2>3. QED
      BY <1>1, <2>1, <2>2
  <1>3. ASSUME NEW p \in Payments, Approved(p)'
        PROVE  /\ payment'[p].end = payment'[p].start + Period
               /\ payment'[p].start = payment'[p].prev \/ payment'[p].start <= now'
    <2>1. payment[p].start \in Nat /\ Approved(p) /\ payment' = payment
      BY <1>1, <1>3 DEF PaymentRow, Approved
    <2>2. QED
      BY <1>1, <2>1 DEF SubInv, Timely
  <1>4. QED
    BY <1>2, <1>3 DEF Timely

LEMMA GivenStays ==
  ASSUME SubInv, UNCHANGED <<now, sub, payment>>, doubled => doubled',
         event' \subseteq event, \A c \in Checkouts : Charging(c)' => Charging(c)
  PROVE  Given'
  BY DEF SubInv, Given, Apart, Approved, Live, Kept

(* While what was paid for by hand runs, no card charges: nothing that a   *)
(* card does happens then, unless one more is bought.                      *)
LEMMA NobodyLive ==
  ASSUME SubInv, UNCHANGED <<now, payment>>, doubled => doubled',
         ~doubled' => \A p \in Payments : ~Live(p)
  PROVE  Given'
  BY DEF SubInv, Given, Apart, Approved, Live

LEMMA ChargingIsAlone ==
  ASSUME SubInv, NEW c \in Checkouts, Charging(c), ~doubled
  PROVE  \A p \in Payments : ~Live(p)
  BY DEF SubInv, Given, Kept

LEMMA ChargingIsReal ==
  ASSUME SubInv, NEW c \in Checkouts, Charging(c)
  PROVE  card[c] \in CardRow /\ card[c].plan \in Plans /\ card[c].end \in Nat
  BY DEF SubInv, SubTypeOK, Real, Charging, CardRow

(* Stripe acts on a card and reports it.                                   *)
Told(c, kinds, row) ==
  /\ acts' \in 0..MaxActs /\ card' \in [Checkouts -> CardRow] /\ event' \subseteq EventRow
  /\ \A e \in event' : e \in event \/ (e.at = now /\ e.kind \in kinds /\ e.card = c)
  /\ \A d \in Checkouts : card'[d].state # "none" => card'[d].plan \in Plans
  /\ \A e \in event' : e.of.state # "none" /\ e.of.plan \in Plans

LEMMA Telling ==
  ASSUME SubInv, NEW c \in Checkouts, NEW kinds \in SUBSET {"state", "session", "paid", "failed"},
         NEW row \in CardRow, row.plan \in Plans, row.state # "none", Tells(c, kinds, row)
  PROVE  Told(c, kinds, row)
  <1>1. acts \in 0..MaxActs /\ acts' = acts + 1 /\ acts < MaxActs /\ MaxActs \in Nat
    BY SubscriptionsAssumption DEF Tells, SubInv, SubTypeOK
  <1>2. acts' \in 0..MaxActs
    BY <1>1
  <1>3. card' = [card EXCEPT ![c] = row] /\ card \in [Checkouts -> CardRow]
    BY DEF Tells, SubInv, SubTypeOK
  <1>4. now \in Nat /\ event \subseteq EventRow
    BY SubscriptionsAssumption DEF SubInv, SubTypeOK
  <1>5. ASSUME NEW e \in event', e \notin event
        PROVE  e \in EventRow /\ e.at = now /\ e.kind \in kinds /\ e.card = c /\ e.of = row
    <2>1. PICK k \in kinds : e = [kind |-> k, card |-> c, of |-> row, at |-> now, no |-> acts]
      BY <1>5 DEF Tells
    <2>2. QED
      BY <1>1, <1>4, <2>1 DEF EventRow
  <1>6. card' \in [Checkouts -> CardRow]
    BY <1>3
  <1>7. \A d \in Checkouts : card'[d].state # "none" => card'[d].plan \in Plans
    BY <1>3 DEF SubInv, Real
  <1>8. \A e \in event' : e.of.state # "none" /\ e.of.plan \in Plans
    BY <1>5 DEF SubInv, Real
  <1>9. QED
    BY <1>2, <1>4, <1>5, <1>6, <1>7, <1>8 DEF Told

----------------------------------------------------------------------------
LEMMA StripeKeeps ==
  ASSUME SubInv, NEW c \in Checkouts, NEW kinds \in SUBSET {"state", "paid", "failed"},
         NEW row \in CardRow, row.plan \in Plans, row.state # "none", StripeActs(c, kinds, row),
         UNCHANGED session, doubled' \in BOOLEAN, doubled => doubled',
         ~doubled' => \A p \in Payments : ~Live(p)
  PROVE  SubInv'
  <1>1. Told(c, kinds, row)
    BY Telling DEF StripeActs
  <1>2. UNCHANGED <<now, sub, attempt, settled, payment, keys, session>>
    BY DEF StripeActs
  <1>3. SubTypeOK'
    BY <1>1, <1>2 DEF Told, SubInv, SubTypeOK
  <1>4. Real'
    BY <1>1, <1>2 DEF Told, SubInv, Real
  <1>5. Known'
    BY <1>1, <1>2, KnownStays DEF Told
  <1>6. NoneWanted'
    BY <1>2, NoneWantedStays DEF Pending
  <1>7. Timely'
    BY <1>1, <1>2, TimelyStays, SubscriptionsAssumption DEF Told, SubInv, SubTypeOK
  <1>8. Given'
    BY <1>2, NobodyLive
  <1>9. QED
    BY <1>3, <1>4, <1>5, <1>6, <1>7, <1>8 DEF SubInv

LEMMA BuyKeeps ==
  ASSUME SubInv, NEW c \in Checkouts, Buy(c)
  PROVE  SubInv'
  <1> DEFINE row == [state |-> "active", plan |-> attempt[c].plan, ending |-> FALSE, end |-> now + Period]
             kinds == {"state", "session", "paid"}
  <1>1. c \in DOMAIN attempt /\ attempt \in Seq(AttemptRow) /\ session[c] = "open"
    BY DEF Buy, SubInv, SubTypeOK, Known
  <1>2. attempt[c] \in AttemptRow
    BY <1>1
  <1>3. row \in CardRow /\ row.plan \in Plans /\ row.state # "none"
    BY <1>2, SubscriptionsAssumption DEF AttemptRow, CardRow, SubInv, SubTypeOK
  <1>4. StripeActs(c, kinds, row)
    BY DEF Buy
  <1>5. Told(c, kinds, row)
    BY <1>3, <1>4, Telling DEF StripeActs
  <1>6. UNCHANGED <<now, sub, attempt, settled, payment, keys>>
    BY <1>4 DEF StripeActs
  <1>7. session' = [session EXCEPT ![c] = "complete"] /\ session \in [Checkouts -> {"none", "open", "complete", "expired"}]
    BY DEF Buy, SubInv, SubTypeOK
  <1>8. doubled' \in BOOLEAN /\ (doubled => doubled') /\ (~doubled' => \A p \in Payments : ~Live(p))
    BY DEF Buy, HandPaid, Live, Approved
  <1>9. SubTypeOK'
    BY <1>5, <1>6, <1>7, <1>8 DEF Told, SubInv, SubTypeOK
  <1>10. Real'
    BY <1>5, <1>6 DEF Told, SubInv, Real
  <1>11. Known'
    BY <1>1, <1>5, <1>6, <1>7 DEF Told, SubInv, Known, Wanted
  <1>12. NoneWanted'
    BY <1>6, NoneWantedStays DEF Pending
  <1>13. Timely'
    BY <1>5, <1>6, TimelyStays, SubscriptionsAssumption DEF Told, SubInv, SubTypeOK
  <1>14. Given'
    BY <1>6, <1>8, NobodyLive
  <1>15. QED
    BY <1>9, <1>10, <1>11, <1>12, <1>13, <1>14 DEF SubInv

LEMMA CardKeeps ==
  ASSUME SubInv, NEW c \in Checkouts,
         \/ Renew(c) \/ Recover(c) \/ EndCard(c)
         \/ \E plan \in Plans, ending \in BOOLEAN : Portal(c, plan, ending)
  PROVE  SubInv'
  <1>1. Charging(c)
    BY DEF Renew, Recover, EndCard, Portal, Charging
  <1>2. card[c] \in CardRow /\ card[c].plan \in Plans /\ card[c].end \in Nat
    BY <1>1, ChargingIsReal
  <1>3. card[c].end + Period \in Nat
    BY <1>2, SubscriptionsAssumption
  <1>4. doubled \in BOOLEAN /\ (~doubled => \A p \in Payments : ~Live(p))
    BY <1>1, ChargingIsAlone DEF SubInv, SubTypeOK
  <1>5. CASE Renew(c)
    <2>1. [card[c] EXCEPT !.end = @ + Period] \in CardRow
      BY <1>2, <1>3 DEF CardRow
    <2>2. [card[c] EXCEPT !.end = @ + Period, !.state = "past_due"] \in CardRow
      BY <1>2, <1>3 DEF CardRow
    <2>3. UNCHANGED <<session, doubled>>
      BY <1>5 DEF Renew
    <2>4. CASE StripeActs(c, {"state", "paid"}, [card[c] EXCEPT !.end = @ + Period])
      <3>1. [card[c] EXCEPT !.end = @ + Period].plan = card[c].plan
            /\ [card[c] EXCEPT !.end = @ + Period].state # "none"
        BY <1>1, <1>2 DEF CardRow, Charging
      <3>2. QED
        BY <1>2, <1>4, <2>1, <2>3, <2>4, <3>1, StripeKeeps
    <2>5. CASE StripeActs(c, {"state", "failed"}, [card[c] EXCEPT !.end = @ + Period, !.state = "past_due"])
      <3>1. [card[c] EXCEPT !.end = @ + Period, !.state = "past_due"].plan = card[c].plan
            /\ [card[c] EXCEPT !.end = @ + Period, !.state = "past_due"].state # "none"
        BY <1>2 DEF CardRow
      <3>2. QED
        BY <1>2, <1>4, <2>2, <2>3, <2>5, <3>1, StripeKeeps
    <2>6. QED
      BY <1>5, <2>4, <2>5 DEF Renew
  <1>6. CASE Recover(c)
    <2> DEFINE row == [card[c] EXCEPT !.state = "active"]
    <2>1. row \in CardRow /\ row.plan \in Plans /\ row.state # "none"
      BY <1>2 DEF CardRow
    <2>2. StripeActs(c, {"state", "paid"}, row) /\ UNCHANGED session
      BY <1>6 DEF Recover
    <2>3. doubled' \in BOOLEAN /\ (doubled => doubled') /\ (~doubled' => \A p \in Payments : ~Live(p))
      BY <1>6 DEF Recover, HandPaid, Live, Approved
    <2>4. QED
      BY <2>1, <2>2, <2>3, StripeKeeps
  <1>7. CASE EndCard(c)
    <2> DEFINE row == [card[c] EXCEPT !.state = "ended"]
    <2>1. row \in CardRow /\ row.plan \in Plans /\ row.state # "none"
      BY <1>2 DEF CardRow
    <2>2. StripeActs(c, {"state"}, row) /\ UNCHANGED <<session, doubled>>
      BY <1>7 DEF EndCard
    <2>3. QED
      BY <1>4, <2>1, <2>2, StripeKeeps
  <1>8. ASSUME NEW plan \in Plans, NEW ending \in BOOLEAN, Portal(c, plan, ending) PROVE SubInv'
    <2> DEFINE row == [card[c] EXCEPT !.plan = plan, !.ending = ending]
    <2>1. row \in CardRow /\ row.plan \in Plans /\ row.state # "none"
      BY <1>1, <1>2 DEF CardRow, Charging
    <2>2. StripeActs(c, {"state"}, row) /\ UNCHANGED <<session, doubled>>
      BY <1>8 DEF Portal
    <2>3. QED
      BY <1>4, <2>1, <2>2, StripeKeeps
  <1>9. QED
    BY <1>5, <1>6, <1>7, <1>8

----------------------------------------------------------------------------
(* Actions that leave the rows of money alone.                             *)
Quiet == UNCHANGED <<now, sub, card, event, settled, payment, keys, acts, doubled>>

LEMMA QuietKeeps ==
  ASSUME SubInv, Quiet,
         attempt' \in Seq(AttemptRow), Len(attempt') <= MaxCheckouts,
         session' \in [Checkouts -> {"none", "open", "complete", "expired"}],
         Known', NoneWanted'
  PROVE  SubInv'
  <1>1. SubTypeOK' /\ Real'
    BY DEF Quiet, SubInv, SubTypeOK, Real
  <1>2. Timely'
    BY DEF Quiet, SubInv, Timely, Approved
  <1>3. Given'
    BY GivenStays DEF Quiet, Charging
  <1>4. QED
    BY <1>1, <1>2, <1>3 DEF SubInv

LEMMA OpenCheckoutKeeps ==
  ASSUME SubInv, NEW plan \in Plans, OpenCheckout(plan)
  PROVE  SubInv'
  <1> DEFINE over == {c \in Latest : Late(c) /\ attempt[c].status # "creating" /\ session[c] = "expired"}
             kept == [c \in DOMAIN attempt |-> IF c \in over THEN [attempt[c] EXCEPT !.status = "expired"]
                                               ELSE attempt[c]]
             new == [status |-> "creating", plan |-> plan, expires |-> now + 1]
  <1>1. /\ attempt \in Seq(AttemptRow) /\ Len(attempt) \in Nat /\ DOMAIN attempt = 1..Len(attempt)
        /\ Len(attempt) < MaxCheckouts /\ now \in Nat /\ MaxCheckouts \in Nat
    BY SubscriptionsAssumption DEF OpenCheckout, SubInv, SubTypeOK
  <1>2. \A c \in DOMAIN attempt : attempt[c] \in AttemptRow /\ [attempt[c] EXCEPT !.status = "expired"] \in AttemptRow
    <2> SUFFICES ASSUME NEW c \in DOMAIN attempt
                 PROVE  attempt[c] \in AttemptRow /\ [attempt[c] EXCEPT !.status = "expired"] \in AttemptRow
      OBVIOUS
    <2>1. attempt[c] \in AttemptRow
      BY <1>1
    <2>2. QED
      BY <2>1 DEF AttemptRow
  <1>3. kept \in [1..Len(attempt) -> AttemptRow]
    BY <1>1, <1>2
  <1>4. kept \in Seq(AttemptRow) /\ Len(kept) = Len(attempt)
    BY <1>1, <1>3
  <1>5. new \in AttemptRow
    BY <1>1 DEF AttemptRow
  <1>6. attempt' = Append(kept, new)
    BY DEF OpenCheckout
  <1>7. attempt' \in Seq(AttemptRow) /\ Len(attempt') = Len(attempt) + 1 /\ DOMAIN attempt' = 1..Len(attempt) + 1
    BY <1>1, <1>4, <1>5, <1>6
  <1>8. /\ \A c \in DOMAIN attempt : attempt'[c] = kept[c]
        /\ attempt'[Len(attempt) + 1] = new
    BY <1>1, <1>3, <1>4, <1>5, <1>6
  <1>9. Quiet /\ UNCHANGED session
    BY DEF OpenCheckout, Quiet, stripeVars
  <1>10. \A c \in Checkouts : c <= MaxCheckouts /\ c >= 1
    BY <1>1 DEF Checkouts
  <1>11. session[Len(attempt) + 1] = "none"
    <2>1. Len(attempt) + 1 \in Checkouts /\ Len(attempt) + 1 \notin DOMAIN attempt
      BY <1>1 DEF Checkouts
    <2>2. QED
      BY <2>1 DEF SubInv, Known
  <1>12. Known'
    <2>1. \A c \in Checkouts : session[c] # "none" => c \in DOMAIN attempt'
      BY <1>1, <1>7 DEF SubInv, Known
    <2>2. ASSUME NEW c \in DOMAIN attempt', session[c] = "open" PROVE Wanted(c)'
      <3>1. c \in DOMAIN attempt
        BY <1>1, <1>7, <1>11, <2>2
      <3>2. attempt'[c] = attempt[c]
        BY <1>8, <2>2, <3>1
      <3>3. QED
        BY <2>2, <3>1, <3>2 DEF SubInv, Known, Wanted
    <2>3. QED
      BY <1>9, <2>1, <2>2 DEF Known, SubInv, Quiet
  <1>13. NoneWanted'
    BY <1>9 DEF OpenCheckout, MayBuy, NoneWanted, Pending, Quiet
  <1>14. QED
    BY <1>1, <1>7, <1>9, <1>12, <1>13, QuietKeeps DEF SubInv, SubTypeOK

LEMMA CallCheckoutKeeps ==
  ASSUME SubInv, NEW c \in Checkouts, NEW answered \in BOOLEAN, CallCheckout(c, answered)
  PROVE  SubInv'
  <1>1. c \in DOMAIN attempt /\ attempt[c].status = "creating" /\ Wanted(c)
    BY DEF CallCheckout, Wanted
  <1>2. /\ attempt' \in Seq(AttemptRow) /\ Len(attempt') = Len(attempt) /\ DOMAIN attempt' = DOMAIN attempt
        /\ \A d \in DOMAIN attempt : Wanted(d) => Wanted(d)'
    <2>1. CASE answered
      <3>1. attempt' = [attempt EXCEPT ![c].status = "open"]
        BY <2>1 DEF CallCheckout
      <3>2. \A d \in DOMAIN attempt : attempt'[d].status = IF d = c THEN "open" ELSE attempt[d].status
        BY <3>1, AttemptsTyped DEF SubInv
      <3>3. QED
        BY <3>1, <3>2, AttemptsTyped DEF SubInv, Wanted
    <2>2. CASE ~answered
      BY <2>2 DEF CallCheckout, SubInv, SubTypeOK, Wanted
    <2>3. QED
      BY <2>1, <2>2
  <1>3. /\ session' = [session EXCEPT ![c] = IF @ = "none" THEN "open" ELSE @]
        /\ session \in [Checkouts -> {"none", "open", "complete", "expired"}] /\ Quiet
    BY DEF CallCheckout, SubInv, SubTypeOK, Quiet
  <1>4. Known'
    <2>1. \A d \in Checkouts : session'[d] # "none" => d \in DOMAIN attempt'
      BY <1>1, <1>2, <1>3 DEF SubInv, Known
    <2>2. \A d \in DOMAIN attempt' : session'[d] = "open" => Wanted(d)'
      BY <1>1, <1>2, <1>3 DEF SubInv, Known
    <2>3. \A e \in event : e.kind = "session" => session'[e.card] = "complete"
      BY <1>3 DEF SubInv, Known, SubTypeOK, EventRow
    <2>4. QED
      BY <1>3, <2>1, <2>2, <2>3 DEF Known, Quiet
  <1>5. NoneWanted'
    BY <1>1, <1>3 DEF SubInv, NoneWanted, Quiet, Pending
  <1>6. QED
    BY <1>2, <1>3, <1>4, <1>5, QuietKeeps DEF SubInv, SubTypeOK

LEMMA SessionExpiresKeeps ==
  ASSUME SubInv, NEW c \in Checkouts, SessionExpires(c)
  PROVE  SubInv'
  <1>1. /\ session' = [session EXCEPT ![c] = "expired"] /\ session[c] = "open" /\ UNCHANGED attempt /\ Quiet
        /\ session \in [Checkouts -> {"none", "open", "complete", "expired"}]
    BY DEF SessionExpires, Quiet, SubInv, SubTypeOK
  <1>2. Known'
    BY <1>1 DEF SubInv, Known, SubTypeOK, Quiet, Wanted
  <1>3. NoneWanted'
    BY <1>1, NoneWantedStays DEF Quiet, Pending
  <1>4. QED
    BY <1>1, <1>2, <1>3, QuietKeeps DEF SubInv, SubTypeOK

----------------------------------------------------------------------------
(* Actions on the row of the subscription and the payments by hand.        *)
LEMMA RowKeeps ==
  ASSUME SubInv, UNCHANGED <<attempt, session, card, event, settled, keys, acts>>, Pending' => Pending,
         now' \in 1..MaxTime, sub' \in SubRow, payment' \in [Payments -> PaymentRow], doubled' \in BOOLEAN,
         \A p \in Payments : payment'[p].status # "none" => payment'[p].plan \in Plans,
         Timely', Given'
  PROVE  SubInv'
  <1>1. SubTypeOK' /\ Real'
    BY DEF SubInv, SubTypeOK, Real
  <1>2. Known' /\ NoneWanted'
    BY KnownStays, NoneWantedStays
  <1>3. QED
    BY <1>1, <1>2 DEF SubInv

\* The types in the form the steps below use them.
LEMMA Typed ==
  ASSUME SubInv
  PROVE  /\ now \in Nat /\ now >= 1 /\ now \in 1..MaxTime /\ sub \in SubRow /\ sub.end \in Nat /\ doubled \in BOOLEAN
         /\ Period \in Nat /\ Period > 0 /\ event \subseteq EventRow
         /\ payment \in [Payments -> PaymentRow]
         /\ \A p \in Payments : payment[p] \in PaymentRow /\ payment[p].start \in Nat
                                /\ payment[p].end \in Nat /\ payment[p].prev \in Nat
  BY SubscriptionsAssumption DEF SubInv, SubTypeOK, SubRow, PaymentRow

LEMMA CancelByHandKeeps ==
  ASSUME SubInv, CancelByHand
  PROVE  SubInv'
  <1>1. UNCHANGED <<now, attempt, session, card, event, settled, payment, keys, acts, doubled>>
    BY DEF CancelByHand, stripeVars
  <1>2. sub' \in SubRow
    <2>1. CASE sub.status = "active" /\ sub.end > now
      BY <2>1, Typed DEF CancelByHand, SubRow
    <2>2. CASE ~(sub.status = "active" /\ sub.end > now)
      BY <2>2, Typed DEF CancelByHand, SubRow
    <2>3. QED
      BY <2>1, <2>2
  <1>3. Given'
    <2> SUFFICES ASSUME ~doubled, NEW p \in Payments, Live(p) PROVE Kept(p)'
      BY <1>1 DEF SubInv, Given, Apart, Approved, Live
    <2>1. Kept(p)
      BY DEF SubInv, Given
    <2>2. sub.status = "active" /\ sub.end > now
      BY <2>1, Typed DEF Kept, Live
    <2>3. sub' = [sub EXCEPT !.ending = TRUE, !.grace = sub.end]
      BY <2>2 DEF CancelByHand
    <2>4. QED
      BY <1>1, <2>1, <2>3, Typed DEF Kept, SubRow, Charging
  <1>4. Timely'
    BY <1>1 DEF SubInv, Timely, Approved
  <1>5. QED
    BY <1>1, <1>2, <1>3, <1>4, Typed, RowKeeps DEF Pending, SubInv, Real

LEMMA SweepKeeps ==
  ASSUME SubInv, Sweep
  PROVE  SubInv'
  <1>1. UNCHANGED <<now, attempt, session, card, event, settled, payment, keys, acts, doubled>>
    BY DEF Sweep, stripeVars
  <1>2. sub' \in SubRow
    BY Typed DEF Sweep, SubRow
  <1>3. Given'
    <2> SUFFICES ASSUME ~doubled, NEW p \in Payments, Live(p) PROVE FALSE
      BY <1>1 DEF SubInv, Given, Apart, Approved, Live
    <2>1. Kept(p)
      BY DEF SubInv, Given
    <2>2. sub.status = "active" /\ sub.end > now
      BY <2>1, Typed DEF Kept, Live
    <2>3. QED
      BY <2>2, Typed DEF Sweep, Lapsed
  <1>4. Timely'
    BY <1>1 DEF SubInv, Timely, Approved
  <1>5. QED
    BY <1>1, <1>2, <1>3, <1>4, Typed, RowKeeps DEF Pending, SubInv, Real

LEMMA TickKeeps ==
  ASSUME SubInv, Tick
  PROVE  SubInv'
  <1>1. UNCHANGED <<sub, attempt, session, card, event, settled, payment, keys, acts, doubled>>
        /\ now' = now + 1 /\ now < MaxTime /\ MaxTime \in Nat
    BY SubscriptionsAssumption DEF Tick, stripeVars
  <1>2. now' \in 1..MaxTime /\ now <= now' /\ now' \in Nat
    BY <1>1, Typed
  <1>3. Given'
    <2>1. \A p \in Payments : Live(p)' => Live(p)
      BY <1>1, Typed DEF Live, Approved
    <2>2. \A p \in Payments : Kept(p) => Kept(p)'
      BY <1>1 DEF Kept, Charging
    <2>3. QED
      BY <1>1, <2>1, <2>2 DEF SubInv, Given, Apart, Approved
  <1>4. Timely'
    BY <1>1, <1>2, Typed, TimelyStays
  <1>5. QED
    BY <1>1, <1>2, <1>3, <1>4, Typed, RowKeeps DEF Pending, SubInv, Real

----------------------------------------------------------------------------
(* Payments by hand.                                                       *)
LEMMA RequestKeeps ==
  ASSUME SubInv, NEW p \in Payments, NEW plan \in Plans, Request(p, plan)
  PROVE  SubInv'
  <1> DEFINE row == [payment[p] EXCEPT !.status = "awaiting", !.plan = plan]
  <1>1. /\ UNCHANGED <<now, sub, attempt, session, card, event, settled, keys, acts, doubled>>
        /\ payment' = [payment EXCEPT ![p] = row]
    BY Typed DEF Request, stripeVars
  <1>2. row \in PaymentRow /\ row.status = "awaiting" /\ row.plan = plan
    BY Typed DEF PaymentRow
  <1>3. payment' \in [Payments -> PaymentRow] /\ payment'[p] = row
        /\ \A q \in Payments : q # p => payment'[q] = payment[q]
    BY <1>1, <1>2, Typed
  <1>4. SubTypeOK' /\ Real' /\ Known'
    BY <1>1, <1>2, <1>3, KnownStays DEF SubInv, SubTypeOK, Real
  <1>5. NoneWanted'
    <2>1. \A c \in DOMAIN attempt : ~Wanted(c)
      BY DEF Request, CheckoutPending, Blocking, Wanted
    <2>2. QED
      BY <1>1, <2>1 DEF NoneWanted, Wanted
  <1>6. \A q \in Payments : Approved(q)' => Approved(q) /\ payment'[q] = payment[q]
    BY <1>2, <1>3 DEF Approved
  <1>7. Timely'
    BY <1>1, <1>6 DEF SubInv, Timely
  <1>8. Given'
    <2>1. \A q \in Payments : Live(q)' => Live(q) /\ payment'[q] = payment[q]
      BY <1>1, <1>6 DEF Live
    <2>2. ASSUME NEW q \in Payments, Kept(q), payment'[q] = payment[q] PROVE Kept(q)'
      BY <1>1, <2>2 DEF Kept, Charging
    <2>3. QED
      BY <1>1, <1>6, <2>1, <2>2 DEF SubInv, Given, Apart
  <1>9. QED
    BY <1>4, <1>5, <1>7, <1>8 DEF SubInv

LEMMA SettlesKeeps ==
  ASSUME SubInv, NEW p \in Payments,
         Settles(p, "awaiting", "submitted") \/ Settles(p, "awaiting", "closed") \/ Settles(p, "submitted", "closed")
  PROVE  SubInv'
  <1>1. PICK to \in {"submitted", "closed"} :
          /\ payment[p].status \in {"awaiting", "submitted"}
          /\ payment' = [payment EXCEPT ![p].status = to]
    BY DEF Settles
  <1>2. UNCHANGED <<now, sub, attempt, session, card, event, settled, keys, acts, doubled>>
    BY DEF Settles, stripeVars
  <1>3. /\ payment' \in [Payments -> PaymentRow] /\ payment'[p].status = to /\ payment'[p].plan = payment[p].plan
        /\ \A q \in Payments : q # p => payment'[q] = payment[q]
    BY <1>1, Typed DEF PaymentRow
  <1>4. \A q \in Payments : Approved(q)' => Approved(q) /\ payment'[q] = payment[q]
    BY <1>3 DEF Approved
  <1>5. \A q \in Payments : payment'[q].status # "none" => payment'[q].plan \in Plans
    BY <1>1, <1>3 DEF SubInv, Real
  <1>6. Timely'
    BY <1>2, <1>4 DEF SubInv, Timely
  <1>7. Given'
    <2>1. \A q \in Payments : Live(q)' => Live(q) /\ payment'[q] = payment[q]
      BY <1>2, <1>4 DEF Live
    <2>2. ASSUME NEW q \in Payments, Kept(q), payment'[q] = payment[q] PROVE Kept(q)'
      BY <1>2, <2>2 DEF Kept, Charging
    <2>3. QED
      BY <1>2, <1>4, <2>1, <2>2 DEF SubInv, Given, Apart
  <1>8. Pending' => Pending
    BY <1>1, <1>3 DEF Pending
  <1>9. QED
    BY <1>2, <1>3, <1>5, <1>6, <1>7, <1>8, Typed, RowKeeps

\* The new period begins after every one that was paid for.
LEMMA ApproveKeeps ==
  ASSUME SubInv, NEW p \in Payments, Approve(p)
  PROVE  SubInv'
  <1> DEFINE row == [payment[p] EXCEPT !.status = "approved", !.prev = Running, !.start = StartOf,
                                       !.end = StartOf + Period]
  <1>1. /\ Running \in Nat /\ StartOf \in Nat /\ StartOf >= now /\ StartOf + Period \in Nat
        /\ StartOf + Period > now /\ StartOf >= Running
        /\ StartOf = Running \/ StartOf = now
    BY Typed DEF Running, StartOf
  <1>2. /\ UNCHANGED <<now, attempt, session, card, event, settled, keys, acts>>
        /\ payment' = [payment EXCEPT ![p] = row] /\ payment[p].status = "submitted"
    BY Typed DEF Approve, stripeVars
  <1>3. /\ row \in PaymentRow /\ row.status = "approved" /\ row.prev = Running /\ row.start = StartOf
        /\ row.end = StartOf + Period /\ row.plan = payment[p].plan
    BY <1>1, Typed DEF PaymentRow
  <1>4. payment' \in [Payments -> PaymentRow] /\ payment'[p] = row
        /\ \A q \in Payments : q # p => payment'[q] = payment[q]
    BY <1>2, <1>3, Typed
  <1>5. payment[p].plan \in Plans
    BY <1>2 DEF SubInv, Real
  <1>6. /\ sub' \in SubRow /\ sub'.plan = payment[p].plan /\ sub'.status = "active" /\ sub'.by = "manual"
        /\ sub'.last = now /\ sub'.end = StartOf + Period
    BY <1>1, <1>5, Typed DEF Approve, Granted, SubRow
  <1>7. doubled' \in BOOLEAN /\ (~doubled' => ~doubled /\ \A c \in Checkouts : ~Charging(c))
    BY Typed DEF Approve, AnyCharging
  <1>8. Timely'
    BY <1>1, <1>2, <1>3, <1>4 DEF SubInv, Timely, Approved
  <1>9. ASSUME ~doubled', NEW q \in Payments, q # p, Approved(q)
        PROVE  payment[q].end <= StartOf /\ (Live(q) => payment[q].plan = payment[p].plan)
    <2>1. CASE Live(q)
      <3>1. Kept(q)
        BY <1>7, <1>9, <2>1 DEF SubInv, Given
      <3>2. sub.status = "active" /\ sub.end > now /\ Running = sub.end
        BY <2>1, <3>1, <1>9, Typed DEF Kept, Live, Running
      <3>3. payment[p].plan = sub.plan
        BY <3>2 DEF Approve
      <3>4. QED
        BY <1>1, <1>9, <3>1, <3>2, <3>3, Typed DEF Kept
    <2>2. CASE ~Live(q)
      BY <1>1, <1>9, <2>2, Typed DEF Live
    <2>3. QED
      BY <2>1, <2>2
  <1>10. Given'
    <2> SUFFICES ASSUME ~doubled' PROVE Apart' /\ \A q \in Payments : Live(q)' => Kept(q)'
      BY DEF Given
    <2>1. Apart'
      <3> SUFFICES ASSUME NEW q \in Payments, NEW r \in Payments, q # r, Approved(q)', Approved(r)'
                   PROVE  payment'[q].end <= payment'[r].start \/ payment'[r].end <= payment'[q].start
        BY DEF Apart
      <3>1. CASE q # p /\ r # p
        BY <1>4, <1>7, <3>1 DEF SubInv, Given, Apart, Approved
      <3>2. CASE q = p
        BY <1>3, <1>4, <1>9, <3>2 DEF Approved
      <3>3. CASE r = p
        BY <1>3, <1>4, <1>9, <3>3 DEF Approved
      <3>4. QED
        BY <3>1, <3>2, <3>3
    <2>2. ASSUME NEW q \in Payments, Live(q)' PROVE Kept(q)'
      <3>1. sub'.end >= payment'[q].end /\ sub'.plan = payment'[q].plan
        <4>1. CASE q = p
          <5>1. payment'[q] = row
            BY <1>4, <4>1
          <5>2. payment'[q].end = StartOf + Period /\ payment'[q].plan = payment[p].plan
            BY <1>3, <5>1
          <5>3. QED
            BY <1>1, <1>6, <5>2
        <4>2. CASE q # p
          <5>1. Approved(q) /\ Live(q) /\ payment'[q] = payment[q]
            BY <1>2, <1>4, <2>2, <4>2 DEF Live, Approved
          <5>2. payment[q].end <= StartOf /\ payment[q].plan = payment[p].plan
            BY <1>9, <4>2, <5>1
          <5>3. StartOf + Period >= payment[q].end
            BY <1>1, <5>2, Typed
          <5>4. QED
            BY <1>6, <5>1, <5>2, <5>3
        <4>3. QED
          BY <4>1, <4>2
      <3>2. \A e \in event' : e.at <= sub'.last
        BY <1>2, <1>6 DEF SubInv, Timely
      <3>3. QED
        BY <1>2, <1>6, <1>7, <3>1, <3>2, Typed DEF Kept, Charging
    <2>3. QED
      BY <2>1, <2>2
  <1>11. \A q \in Payments : payment'[q].status # "none" => payment'[q].plan \in Plans
    BY <1>3, <1>4, <1>5 DEF SubInv, Real
  <1>12. Pending' => Pending
    BY <1>3, <1>4 DEF Pending
  <1>13. QED
    BY <1>2, <1>4, <1>6, <1>7, <1>8, <1>10, <1>11, <1>12, Typed, RowKeeps

\* Only the last of the periods can be given back: the one before it ends
\* where it began.
LEMMA RefundKeeps ==
  ASSUME SubInv, NEW p \in Payments, Refund(p)
  PROVE  SubInv'
  <1> DEFINE end == IF payment[p].prev # 0 THEN payment[p].prev ELSE now
  <1>1. /\ UNCHANGED <<now, attempt, session, card, event, settled, keys, acts, doubled>>
        /\ payment' = [payment EXCEPT ![p].status = "refunded"] /\ payment[p].status = "approved"
        /\ sub.by = "manual" /\ sub.end = payment[p].end
        /\ sub' = [sub EXCEPT !.end = end, !.grace = end, !.status = IF end > now THEN "active" ELSE "past_due"]
    BY DEF Refund, stripeVars
  <1>2. end \in Nat
    BY Typed
  <1>3. /\ sub' \in SubRow /\ sub'.plan = sub.plan /\ sub'.by = sub.by /\ sub'.last = sub.last /\ sub'.end = end
        /\ sub'.status = IF end > now THEN "active" ELSE "past_due"
    BY <1>1, <1>2, Typed DEF SubRow
  <1>4. /\ payment' \in [Payments -> PaymentRow] /\ payment'[p].status = "refunded" /\ payment'[p].plan = payment[p].plan
        /\ \A q \in Payments : q # p => payment'[q] = payment[q]
    BY <1>1, Typed DEF PaymentRow
  <1>5. \A q \in Payments : Approved(q)' => q # p /\ Approved(q) /\ payment'[q] = payment[q]
    BY <1>4 DEF Approved
  <1>6. Timely'
    BY <1>1, <1>5 DEF SubInv, Timely
  <1>7. ASSUME ~doubled, NEW q \in Payments, q # p, Live(q)
        PROVE  Kept(q) /\ payment[q].end <= end
    <2>1. Kept(q) /\ Approved(q) /\ payment[q].end > now
      BY <1>7 DEF SubInv, Given, Live
    <2>2. payment[q].end <= payment[p].end /\ payment[q].start < payment[q].end
      BY <1>1, <2>1, Typed DEF Kept, SubInv, Timely
    <2>3. payment[q].end <= payment[p].start
      BY <1>1, <1>7, <2>1, <2>2, Typed DEF SubInv, Given, Apart, Approved
    <2>4. payment[p].start = payment[p].prev
      BY <1>1, <2>1, <2>3, Typed DEF SubInv, Timely, Approved
    <2>5. QED
      BY <2>1, <2>3, <2>4, Typed
  <1>8. Given'
    <2> SUFFICES ASSUME ~doubled PROVE Apart' /\ \A q \in Payments : Live(q)' => Kept(q)'
      BY <1>1 DEF Given
    <2>1. Apart'
      BY <1>5 DEF SubInv, Given, Apart
    <2>2. ASSUME NEW q \in Payments, Live(q)' PROVE Kept(q)'
      <3>1. q # p /\ Live(q) /\ payment'[q] = payment[q]
        BY <1>1, <1>5, <2>2 DEF Live
      <3>2. Kept(q) /\ payment[q].end <= end
        BY <1>7, <3>1
      <3>3. end > now
        BY <1>2, <3>1, <3>2, Typed DEF Live
      <3>4. QED
        BY <1>1, <1>3, <3>1, <3>2, <3>3 DEF Kept, Charging
    <2>3. QED
      BY <2>1, <2>2
  <1>9. \A q \in Payments : payment'[q].status # "none" => payment'[q].plan \in Plans
    BY <1>1, <1>4 DEF SubInv, Real
  <1>10. Pending' => Pending
    BY <1>4 DEF Pending
  <1>11. QED
    BY <1>1, <1>3, <1>4, <1>6, <1>8, <1>9, <1>10, Typed, RowKeeps

----------------------------------------------------------------------------
(* Events.                                                                 *)

\* A change that an event or the fence lets through finds nobody who has
\* paid by hand.
LEMMA FencedKeeps ==
  ASSUME SubInv, NEW e \in event, ~Fenced(e), ~doubled
  PROVE  \A p \in Payments : ~Live(p)
  BY DEF SubInv, Given, Kept, Fenced

\* What a subscription becomes by one event.
LEMMA FollowTyped ==
  ASSUME SubInv, NEW e \in event
  PROVE  Follow(e.of, e.card, e.at) \in SubRow
  <1>1. e.of \in CardRow /\ e.of.plan \in Plans /\ e.of.state # "none" /\ e.card \in Checkouts /\ e.at \in Nat
    BY Typed DEF SubInv, Real, EventRow
  <1>2. StatusOf(e.of) \in {"active", "past_due", "canceled"}
    BY <1>1 DEF StatusOf, CardRow
  <1>3. now + Grace \in Nat /\ e.of.end + Slack \in Nat /\ sub.grace \in Nat
    BY <1>1, Typed, SubscriptionsAssumption DEF CardRow, SubRow
  <1>4. (CASE StatusOf(e.of) = "past_due" /\ sub.status # "past_due" -> now + Grace
           [] StatusOf(e.of) = "active" -> e.of.end + Slack
           [] OTHER -> sub.grace) \in Nat
    BY <1>3
  <1>5. QED
    BY <1>1, <1>2, <1>4 DEF Follow, SubRow, CardRow

\* An event that leaves the attempts alone.
LEMMA NewsKeeps ==
  ASSUME SubInv, NEW e \in event, event' = event \ {e},
         UNCHANGED <<now, session, card, payment, keys, acts, doubled, attempt>>,
         sub' \in SubRow, settled' \subseteq Checkouts \X Nat,
         ~Fenced(e) \/ UNCHANGED sub
  PROVE  SubInv'
  <1>1. SubTypeOK' /\ Real'
    BY DEF SubInv, SubTypeOK, Real
  <1>2. Known' /\ NoneWanted' /\ Timely'
    BY KnownStays, NoneWantedStays, TimelyStays, Typed DEF Pending
  <1>3. Given'
    <2>1. CASE ~Fenced(e)
      BY <2>1, FencedKeeps, NobodyLive
    <2>2. CASE UNCHANGED sub
      BY <2>2, GivenStays DEF Charging
    <2>3. QED
      BY <2>1, <2>2
  <1>4. QED
    BY <1>1, <1>2, <1>3 DEF SubInv

LEMMA SessionKeeps ==
  ASSUME SubInv, NEW e \in event, event' = event \ {e}, e.kind = "session", ~Fenced(e),
         UNCHANGED <<now, session, card, payment, keys, acts, doubled>>, ApplySession(e)
  PROVE  SubInv'
  <1>1. e.card \in Checkouts /\ session[e.card] = "complete" /\ e.card \in DOMAIN attempt
    BY Typed DEF SubInv, Known, EventRow
  <1>2. /\ attempt' \in Seq(AttemptRow) /\ Len(attempt') = Len(attempt) /\ DOMAIN attempt' = DOMAIN attempt
        /\ \A d \in DOMAIN attempt : attempt'[d].status = IF d = e.card THEN "complete" ELSE attempt[d].status
    BY <1>1, AttemptsTyped DEF ApplySession, SubInv
  <1>3. sub' \in SubRow /\ UNCHANGED settled
    BY <1>1, Typed DEF ApplySession, SubRow
  <1>4. SubTypeOK' /\ Real'
    BY <1>2, <1>3 DEF SubInv, SubTypeOK, Real
  <1>5. \A d \in DOMAIN attempt : Wanted(d)' => Wanted(d)
    BY <1>2 DEF Wanted
  <1>6. \A d \in DOMAIN attempt : d # e.card /\ Wanted(d) => Wanted(d)'
    BY <1>2 DEF Wanted
  <1>7. Known'
    BY <1>1, <1>2, <1>6 DEF SubInv, Known
  <1>8. NoneWanted'
    BY <1>2, <1>5 DEF SubInv, NoneWanted, Pending
  <1>9. Timely' /\ Given'
    BY TimelyStays, Typed, FencedKeeps, NobodyLive
  <1>10. QED
    BY <1>4, <1>7, <1>8, <1>9 DEF SubInv

LEMMA ApplyKeeps ==
  ASSUME SubInv, NEW e \in event, Apply(e)
  PROVE  SubInv'
  <1>1. event' = event \ {e} /\ UNCHANGED <<now, session, card, payment, keys, acts, doubled>>
    BY DEF Apply
  <1>2. settled \subseteq Checkouts \X Nat /\ e.card \in Checkouts /\ e.at \in Nat /\ e.of.end \in Nat
    BY Typed DEF SubInv, SubTypeOK, EventRow, CardRow
  <1>3. CASE UNCHANGED <<sub, attempt, settled>>
    BY <1>1, <1>2, <1>3, NewsKeeps, Typed
  <1>4. CASE ~Fenced(e) /\ e.kind = "state" /\ ApplyState(e)
    BY <1>1, <1>2, <1>4, NewsKeeps, FollowTyped DEF ApplyState
  <1>5. CASE ~Fenced(e) /\ e.kind = "session" /\ ApplySession(e)
    BY <1>1, <1>5, SessionKeeps
  <1>6. CASE ~Fenced(e) /\ e.kind \in {"paid", "failed"} /\ ApplyInvoice(e)
    <2>1. settled' \subseteq Checkouts \X Nat /\ UNCHANGED attempt
      BY <1>2, <1>6 DEF ApplyInvoice, Bill
    <2>2. sub' \in SubRow
      <3> DEFINE late == [sub EXCEPT !.status = "past_due", !.grace = now + Grace]
                 good == [sub EXCEPT !.status = "active"]
      <3>1. now + Grace \in Nat
        BY Typed, SubscriptionsAssumption
      <3>2. late \in SubRow /\ good \in SubRow /\ sub \in SubRow
        BY <3>1, Typed DEF SubRow
      <3>3. \A row \in SubRow : [row EXCEPT !.last = e.at] \in SubRow
        BY <1>2 DEF SubRow
      <3>4. \/ sub' = sub \/ sub' = [late EXCEPT !.last = e.at]
            \/ sub' = [good EXCEPT !.last = e.at] \/ sub' = [sub EXCEPT !.last = e.at]
        BY <1>6 DEF ApplyInvoice
      <3> HIDE DEF late, good
      <3>5. QED
        BY <3>2, <3>3, <3>4
    <2>3. QED
      BY <1>1, <1>6, <2>1, <2>2, NewsKeeps
  <1>7. QED
    BY <1>3, <1>4, <1>5, <1>6 DEF Apply

LEMMA GiveUpKeeps ==
  ASSUME SubInv, NEW e \in event, GiveUp(e)
  PROVE  SubInv'
  <1>1. event' = event \ {e} /\ UNCHANGED <<now, sub, attempt, session, card, settled, payment, keys, acts, doubled>>
    BY DEF GiveUp
  <1>2. settled \subseteq Checkouts \X Nat
    BY DEF SubInv, SubTypeOK
  <1>3. QED
    BY <1>1, <1>2, NewsKeeps, Typed

----------------------------------------------------------------------------
(* The business cancels its card, or changes its plan.                     *)
LEMMA CancelCardKeeps ==
  ASSUME SubInv, NEW taken \in BOOLEAN, NEW answered \in BOOLEAN, CancelCard(taken, answered)
  PROVE  SubInv'
  <1> DEFINE c == sub.ext
             row == [card[c] EXCEPT !.ending = TRUE]
  <1>1. /\ c \in Checkouts /\ sub.by = "stripe"
        /\ UNCHANGED <<now, attempt, session, settled, payment, doubled>>
        /\ keys' = keys \cup {c}
    BY Typed DEF CancelCard, HasCard, SubRow
  <1>2. sub' \in SubRow
    BY Typed DEF CancelCard, SubRow
  <1>3. ~doubled => \A p \in Payments : ~Live(p)
    BY <1>1 DEF SubInv, Given, Kept
  <1>4. Given'
    BY <1>1, <1>3, NobodyLive
  <1>5. NoneWanted'
    BY <1>1, NoneWantedStays DEF Pending
  <1>6. keys' \subseteq Checkouts
    BY <1>1 DEF SubInv, SubTypeOK
  <1>7. CASE taken
    <2>1. Charging(c) /\ Tells(c, {"state"}, row)
      BY <1>7 DEF CancelCard
    <2>2. row \in CardRow /\ row.plan \in Plans /\ row.state # "none"
      BY <1>1, <2>1, ChargingIsReal DEF CardRow, Charging
    <2>3. Told(c, {"state"}, row)
      BY <1>1, <2>1, <2>2, Telling
    <2>4. SubTypeOK' /\ Real'
      BY <1>1, <1>2, <1>6, <2>3 DEF Told, SubInv, SubTypeOK, Real
    <2>5. Known'
      BY <1>1, <2>3, KnownStays DEF Told
    <2>6. Timely'
      BY <1>1, <2>3, TimelyStays, Typed DEF Told
    <2>7. QED
      BY <1>4, <1>5, <2>4, <2>5, <2>6 DEF SubInv
  <1>8. CASE ~taken
    <2>1. UNCHANGED <<card, event, acts>>
      BY <1>8 DEF CancelCard
    <2>2. SubTypeOK' /\ Real'
      BY <1>1, <1>2, <1>6, <2>1 DEF SubInv, SubTypeOK, Real
    <2>3. Known' /\ Timely'
      BY <1>1, <2>1, KnownStays, TimelyStays, Typed
    <2>4. QED
      BY <1>4, <1>5, <2>2, <2>3 DEF SubInv
  <1>9. QED
    BY <1>7, <1>8

LEMMA ChangePlanKeeps ==
  ASSUME SubInv, NEW plan \in Plans, ChangePlan(plan)
  PROVE  SubInv'
  <1>1. sub.ext \in Checkouts /\ Portal(sub.ext, plan, card[sub.ext].ending)
    BY Typed DEF ChangePlan, SubRow
  <1>2. card[sub.ext].ending \in BOOLEAN
    BY <1>1 DEF SubInv, SubTypeOK, CardRow
  <1>3. QED
    BY <1>1, <1>2, CardKeeps

----------------------------------------------------------------------------
LEMMA StepKeeps == SubInv /\ [SubNext]_subVars => SubInv'
  <1> SUFFICES ASSUME SubInv, [SubNext]_subVars PROVE SubInv'
    OBVIOUS
  <1>1. CASE Stripe
    <2>1. PICK c \in Checkouts :
            \/ Buy(c) \/ SessionExpires(c)
            \/ Renew(c) \/ Recover(c) \/ EndCard(c)
            \/ \E plan \in Plans, ending \in BOOLEAN : Portal(c, plan, ending)
      BY <1>1 DEF Stripe
    <2>2. QED
      BY <2>1, BuyKeeps, SessionExpiresKeeps, CardKeeps
  <1>2. CASE Business
    <2>1. ASSUME NEW plan \in Plans, OpenCheckout(plan) PROVE SubInv'
      BY <2>1, OpenCheckoutKeeps
    <2>2. ASSUME NEW plan \in Plans, ChangePlan(plan) PROVE SubInv'
      BY <2>2, ChangePlanKeeps
    <2>3. ASSUME NEW c \in Checkouts, NEW answered \in BOOLEAN, CallCheckout(c, answered) PROVE SubInv'
      BY <2>3, CallCheckoutKeeps
    <2>4. ASSUME NEW taken \in BOOLEAN, NEW answered \in BOOLEAN, CancelCard(taken, answered) PROVE SubInv'
      BY <2>4, CancelCardKeeps
    <2>5. QED
      BY <1>2, <2>1, <2>2, <2>3, <2>4, CancelByHandKeeps DEF Business
  <1>3. CASE ByHand
    <2>1. PICK p \in Payments :
            \/ \E plan \in Plans : Request(p, plan)
            \/ Submit(p) \/ CancelPayment(p) \/ Reject(p) \/ Approve(p) \/ Refund(p)
      BY <1>3 DEF ByHand
    <2>2. CASE Submit(p) \/ CancelPayment(p) \/ Reject(p)
      BY <2>2, SettlesKeeps DEF Submit, CancelPayment, Reject
    <2>3. QED
      BY <2>1, <2>2, RequestKeeps, ApproveKeeps, RefundKeeps
  <1>4. ASSUME NEW e \in event, Apply(e) \/ GiveUp(e) PROVE SubInv'
    BY <1>4, ApplyKeeps, GiveUpKeeps
  <1>5. CASE UNCHANGED subVars
    <2>1. SubTypeOK' /\ Real'
      BY <1>5 DEF subVars, SubInv, SubTypeOK, Real
    <2>2. Known' /\ NoneWanted' /\ Timely' /\ Given'
      BY <1>5, KnownStays, NoneWantedStays, TimelyStays, GivenStays, Typed DEF subVars, Pending, Charging
    <2>3. QED
      BY <2>1, <2>2 DEF SubInv
  <1>6. QED
    BY <1>1, <1>2, <1>3, <1>4, <1>5, SweepKeeps, TickKeeps DEF SubNext

(* Every row keeps a value of its kind.                                    *)
THEOREM SubscriptionTypes == SubSpec => []SubTypeOK
  <1>1. SubInv => SubTypeOK
    BY DEF SubInv
  <1>2. QED
    BY <1>1, InitHolds, StepKeeps, PTL DEF SubSpec

(* A payment by hand and a checkout exclude each other (checkout,          *)
(* request_payment): while the one is pending nothing of the other can be  *)
(* paid or opened.                                                         *)
THEOREM OneWay == SubSpec => []OneWayToPay
  <1>1. SubInv => OneWayToPay
    BY DEF SubInv, OneWayToPay, Known, NoneWanted, Wanted
  <1>2. QED
    BY <1>1, InitHolds, StepKeeps, PTL DEF SubSpec

(* What was paid for by hand is given until it ends, and no time is paid   *)
(* twice (approve, refund, and the fence of apply_event).                  *)
THEOREM PaidTime == SubSpec => []PaidTimeIsGiven
  <1>1. SubInv => PaidTimeIsGiven
    <2> SUFFICES ASSUME SubInv, ~doubled PROVE PaidTimeIsGiven
      BY DEF PaidTimeIsGiven
    <2>1. ASSUME NEW p \in Payments, payment[p].status = "approved", payment[p].end > now
          PROVE  SubscriptionActive /\ sub.by = "manual" /\ sub.end >= payment[p].end /\ sub.plan = payment[p].plan
      <3>1. Kept(p)
        BY <2>1 DEF SubInv, Given, Live, Approved
      <3>2. sub.status = "active" /\ sub.end > now
        BY <2>1, <3>1, Typed DEF Kept
      <3>3. QED
        BY <3>1, <3>2 DEF Kept, SubscriptionActive
    <2>2. Apart
      BY DEF SubInv, Given
    <2>3. QED
      BY <2>1, <2>2 DEF PaidTimeIsGiven, Apart, Approved
  <1>2. QED
    BY <1>1, InitHolds, StepKeeps, PTL DEF SubSpec
=============================================================================
