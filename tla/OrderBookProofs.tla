-------------------------- MODULE OrderBookProofs --------------------------
(***************************************************************************)
(* The safety of OrderBook, for every set of orders, variants, carts,      *)
(* amounts and keys.                                                       *)
(***************************************************************************)
EXTENDS OrderBook, SequenceTheorems, TLAPS

(* TypeOK is inductive alone, and each of the four safety invariants is    *)
(* inductive together with it.  Inv is their conjunction, which every step *)
(* preserves: one lemma for each part, one step in it for each action.     *)
Inv ==
  /\ TypeOK
  /\ PaidMatchesStatus
  /\ OnePaymentPerKey
  /\ InvoiceFollowsOrder
  /\ StockFollowsOrders

----------------------------------------------------------------------------
(* Type correctness.                                                       *)

LEMMA NotYetRow == NotYet \in OrderRow
  BY CartAssumption DEF NotYet, OrderRow, OrderStatuses

LEMMA LineNumbers == ASSUME NEW c \in Carts PROVE DOMAIN Lines[c] \subseteq Nat \ {0}
  <1>1. Lines[c] \in Seq([variant : Variants, quantity : Nat \ {0}])
    BY CartAssumption
  <1>2. DOMAIN Lines[c] = 1..Len(Lines[c]) /\ Len(Lines[c]) \in Nat
    BY <1>1
  <1>3. QED
    BY <1>2

LEMMA SalesTyped == ASSUME TypeOK, NEW o \in Orders PROVE Sales(o) \subseteq Move
  <1>1. order[o].cart \in Carts
    BY DEF TypeOK, OrderRow
  <1>2. DOMAIN Lines[order[o].cart] \subseteq Nat \ {0}
    BY <1>1, LineNumbers
  <1>3. QED
    BY <1>2 DEF Sales, Sale, TrackedLines, Move

LEMMA ReturnsTyped == ASSUME TypeOK, NEW o \in Orders PROVE Returns(o) \subseteq Move
  <1>1. order[o].cart \in Carts
    BY DEF TypeOK, OrderRow
  <1>2. DOMAIN Lines[order[o].cart] \subseteq Nat \ {0}
    BY <1>1, LineNumbers
  <1>3. QED
    BY <1>2 DEF Returns, Return, TrackedLines, Move

LEMMA InvoiceRows ==
  ASSUME TypeOK
  PROVE  /\ Len(invoice) \in Nat
         /\ DOMAIN invoice = 1..Len(invoice)
         /\ invoice \in [1..Len(invoice) -> InvoiceRow]
         /\ \A i \in DOMAIN invoice :
              /\ invoice[i] \in InvoiceRow
              /\ invoice[i].status \in InvoiceStatuses
              /\ invoice[i].total \in Nat /\ invoice[i].paid \in Nat
  <1>1. invoice \in Seq(InvoiceRow)
    BY DEF TypeOK
  <1>2. Len(invoice) \in Nat /\ DOMAIN invoice = 1..Len(invoice)
        /\ invoice \in [1..Len(invoice) -> InvoiceRow]
    BY <1>1, LenProperties
  <1>3. \A i \in DOMAIN invoice : invoice[i] \in InvoiceRow
    BY <1>2
  <1>4. QED
    BY <1>2, <1>3 DEF InvoiceRow

(* A function on 1..n is a sequence.                                       *)
LEMMA FunctionIsSeq == ASSUME NEW S, NEW n \in Nat, NEW f \in [1..n -> S] PROVE f \in Seq(S)
  BY SeqDef

(* Replacing one row of a table of invoices by another row.                *)
LEMMA RowReplaced ==
  ASSUME TypeOK, NEW i \in DOMAIN invoice, NEW row \in InvoiceRow
  PROVE  [invoice EXCEPT ![i] = row] \in Seq(InvoiceRow)
  BY InvoiceRows, FunctionIsSeq

LEMMA NewInvoiceTyped == ASSUME TypeOK, NEW o \in Orders PROVE NewInvoice(o) \in InvoiceRow
  <1>1. order[o].cart \in Carts /\ order[o].price \in Prices
    BY DEF TypeOK, OrderRow
  <1>2. CartTotal[order[o].cart][order[o].price] \in Nat
    <2>1. CartTotal[order[o].cart] \in [Prices -> Nat]
      BY <1>1, CartAssumption
    <2>2. QED
      BY <1>1, <2>1
  <1>3. QED
    BY <1>2 DEF NewInvoice, InvoiceRow, InvoiceStatuses

(* Rows keep the types of their columns whatever the requests are.         *)
LEMMA TypeInvariant == TypeOK /\ [Next]_vars => TypeOK'
  <1> SUFFICES ASSUME TypeOK, [Next]_vars PROVE TypeOK'
    OBVIOUS
  <1> USE SetsAssumption, CartAssumption, AmountAssumption
  <1>1. ASSUME NEW o \in Orders, NEW c \in Carts, NEW p \in Prices,
               NEW source \in {"manual", "quote"}, CreateDraft(o, c, p, source)
        PROVE TypeOK'
    BY <1>1 DEF CreateDraft, TypeOK, OrderRow, OrderStatuses
  <1>2. ASSUME NEW o \in Orders, NEW c \in Carts, NEW p \in Prices, UpdateLines(o, c, p)
        PROVE TypeOK'
    <2>1. [order[o] EXCEPT !.cart = c, !.price = p] \in OrderRow
      BY DEF TypeOK, OrderRow
    <2>2. order' = [order EXCEPT ![o] = [order[o] EXCEPT !.cart = c, !.price = p]]
      BY <1>2 DEF UpdateLines
    <2>3. QED
      BY <1>2, <2>1, <2>2 DEF UpdateLines, TypeOK
  <1>3. ASSUME NEW o \in Orders, NEW bill \in BOOLEAN, Confirm(o, bill) PROVE TypeOK'
    <2>1. order[o].cart \in Carts
      BY DEF TypeOK, OrderRow
    <2>2. onHand' \in [Variants -> Nat]
      BY <1>3, <2>1 DEF Confirm, TypeOK
    <2>3. invoice' \in Seq(InvoiceRow)
      BY <1>3, NewInvoiceTyped DEF Confirm, TypeOK
    <2>4. moves' \subseteq Move
      BY <1>3, SalesTyped DEF Confirm, TypeOK
    <2>5. order' \in [Orders -> OrderRow]
      BY <1>3 DEF Confirm, TypeOK, OrderRow, OrderStatuses
    <2>6. QED
      BY <1>3, <2>2, <2>3, <2>4, <2>5 DEF Confirm, TypeOK
  <1>4. ASSUME NEW o \in Orders, NEW action \in DOMAIN ProgressTarget, Progress(o, action)
        PROVE TypeOK'
    <2>1. ProgressTarget[action] \in OrderStatuses
      BY DEF ProgressTarget, OrderStatuses
    <2>2. order' \in [Orders -> OrderRow]
      BY <1>4, <2>1 DEF Progress, TypeOK, OrderRow
    <2>3. QED
      BY <1>4, <2>2 DEF Progress, TypeOK
  <1>5. ASSUME NEW o \in Orders, Cancel(o) PROVE TypeOK'
    <2>1. order[o].cart \in Carts
      BY DEF TypeOK, OrderRow
    <2>2. onHand' \in [Variants -> Nat]
      <3>1. Demand[order[o].cart] \in [Variants -> Nat]
        BY <2>1
      <3>2. CASE order[o].status \in StockDeducted
        BY <1>5, <3>1, <3>2 DEF Cancel, TypeOK
      <3>3. CASE order[o].status \notin StockDeducted
        BY <1>5, <3>3 DEF Cancel, TypeOK
      <3>4. QED
        BY <3>2, <3>3
    <2>3. moves' \subseteq Move
      BY <1>5, ReturnsTyped DEF Cancel, TypeOK
    <2>4. \A i \in DOMAIN invoice : [invoice[i] EXCEPT !.status = "void"] \in InvoiceRow
      BY InvoiceRows DEF InvoiceRow, InvoiceStatuses
    <2>5. invoice' \in Seq(InvoiceRow)
      <3>1. invoice' \in [1..Len(invoice) -> InvoiceRow]
        BY <1>5, <2>4, InvoiceRows DEF Cancel
      <3>2. QED
        BY <3>1, FunctionIsSeq, InvoiceRows
    <2>6. order' \in [Orders -> OrderRow]
      BY <1>5 DEF Cancel, TypeOK, OrderRow, OrderStatuses
    <2>7. QED
      BY <1>5, <2>2, <2>3, <2>5, <2>6 DEF Cancel, TypeOK
  <1>6. ASSUME NEW v \in Variants, NEW q \in Adjustments, Adjust(v, q) PROVE TypeOK'
    BY <1>6 DEF Adjust, TypeOK
  <1>7. ASSUME NEW total \in Totals, CreateInvoice(total) PROVE TypeOK'
    BY <1>7 DEF CreateInvoice, TypeOK, InvoiceRow, InvoiceStatuses
  <1>8. ASSUME NEW i \in DOMAIN invoice, Issue(i) PROVE TypeOK'
    <2>1. [invoice[i] EXCEPT !.status = "issued"] \in InvoiceRow
      BY InvoiceRows DEF InvoiceRow, InvoiceStatuses
    <2>2. invoice' = [invoice EXCEPT ![i] = [invoice[i] EXCEPT !.status = "issued"]]
      BY <1>8 DEF Issue
    <2>3. QED
      BY <1>8, <2>1, <2>2, RowReplaced DEF Issue, TypeOK
  <1>9. ASSUME NEW i \in DOMAIN invoice, Void(i) PROVE TypeOK'
    <2>1. [invoice[i] EXCEPT !.status = "void"] \in InvoiceRow
      BY InvoiceRows DEF InvoiceRow, InvoiceStatuses
    <2>2. invoice' = [invoice EXCEPT ![i] = [invoice[i] EXCEPT !.status = "void"]]
      BY <1>9 DEF Void
    <2>3. QED
      BY <1>9, <2>1, <2>2, RowReplaced DEF Void, TypeOK
  <1>10. ASSUME NEW i \in DOMAIN invoice, NEW amount \in Amounts, NEW key \in Keys \cup {NoKey},
                Pay(i, amount, key)
         PROVE TypeOK'
    <2>1. i \in Nat \ {0} /\ amount \in Nat \ {0}
      BY DEF TypeOK
    <2>2. payment' \in Seq(PaymentRow)
      BY <1>10, <2>1 DEF Pay, TypeOK, PaymentRow
    <2>3. invoice' \in Seq(InvoiceRow)
      <3> DEFINE row == [invoice[i] EXCEPT !.paid = @ + amount,
                           !.status = IF invoice[i].paid + amount = invoice[i].total
                                        THEN "paid" ELSE "partially_paid"]
      <3>1. row \in InvoiceRow
        <4>1. invoice[i] \in InvoiceRow /\ invoice[i].paid + amount \in Nat
          BY <2>1, InvoiceRows
        <4>2. (IF invoice[i].paid + amount = invoice[i].total THEN "paid" ELSE "partially_paid")
                \in InvoiceStatuses
          BY DEF InvoiceStatuses
        <4>3. QED
          BY <4>1, <4>2 DEF InvoiceRow
      <3>2. invoice' = [invoice EXCEPT ![i] = row]
        BY <1>10 DEF Pay
      <3>3. QED
        BY <3>1, <3>2, RowReplaced
    <2>4. QED
      BY <1>10, <2>2, <2>3 DEF Pay, TypeOK
  <1>11. CASE UNCHANGED vars
    BY <1>11 DEF vars, TypeOK
  <1>12. QED
    BY <1>1, <1>2, <1>3, <1>4, <1>5, <1>6, <1>7, <1>8, <1>9, <1>10, <1>11
       DEF Next, OrderStep, InvoiceStep

----------------------------------------------------------------------------
(* The invoice's status and what was paid.                                 *)

LEMMA PartOfTotal ==
  ASSUME NEW amount \in Nat \ {0}, NEW paid \in Nat, NEW total \in Nat,
         amount <= total - paid, paid + amount # total
  PROVE  paid + amount > 0 /\ paid + amount < total
  OBVIOUS

LEMMA PaidInvariant == TypeOK /\ PaidMatchesStatus /\ [Next]_vars => PaidMatchesStatus'
  <1> DEFINE Good(row) ==
        /\ row.paid <= row.total
        /\ row.status \in {"draft", "issued", "void"} => row.paid = 0
        /\ row.status = "partially_paid" => row.paid > 0 /\ row.paid < row.total
        /\ row.status = "paid" => row.paid = row.total /\ row.paid > 0
  <1> SUFFICES ASSUME TypeOK, PaidMatchesStatus, [Next]_vars,
                      NEW j \in DOMAIN invoice'
               PROVE  Good(invoice'[j])
    BY DEF PaidMatchesStatus
  <1>0. \A i \in DOMAIN invoice : Good(invoice[i])
    BY DEF PaidMatchesStatus
  <1> HIDE DEF Good
  <1> USE InvoiceRows
  <1>1. CASE UNCHANGED invoice
    BY <1>0, <1>1
  <1>2. ASSUME NEW row \in InvoiceRow, row.paid = 0, row.status \in {"draft", "issued"},
               invoice' = Append(invoice, row)
        PROVE Good(invoice'[j])
    <2>1. CASE j \in DOMAIN invoice
      BY <1>0, <1>2, <2>1 DEF TypeOK
    <2>2. CASE j \notin DOMAIN invoice
      <3>1. invoice'[j] = row
        BY <1>2, <2>2 DEF TypeOK
      <3>2. QED
        BY <1>2, <3>1 DEF Good, InvoiceRow
    <2>3. QED
      BY <2>1, <2>2
  <1>3. ASSUME NEW o \in Orders, NEW bill \in BOOLEAN, Confirm(o, bill)
        PROVE Good(invoice'[j])
    <2>1. NewInvoice(o) \in InvoiceRow
      BY NewInvoiceTyped
    <2>2. NewInvoice(o).paid = 0 /\ NewInvoice(o).status = "issued"
      BY DEF NewInvoice
    <2>3. invoice' = invoice \/ invoice' = Append(invoice, NewInvoice(o))
      BY <1>3 DEF Confirm
    <2>4. QED
      BY <1>1, <1>2, <2>1, <2>2, <2>3
  <1>4. ASSUME NEW o \in Orders, Cancel(o) PROVE Good(invoice'[j])
    <2>1. j \in DOMAIN invoice
      BY <1>4 DEF Cancel
    <2>2. CASE Live(j, o)
      <3>1. invoice'[j] = [invoice[j] EXCEPT !.status = "void"] /\ invoice[j].paid = 0
        BY <1>4, <2>1, <2>2 DEF Cancel, Voidable
      <3>2. QED
        BY <3>1, <2>1 DEF Good, InvoiceRow
    <2>3. CASE ~Live(j, o)
      BY <1>0, <1>4, <2>1, <2>3 DEF Cancel
    <2>4. QED
      BY <2>2, <2>3
  <1>5. ASSUME NEW total \in Totals, CreateInvoice(total) PROVE Good(invoice'[j])
    <2>1. [status |-> "draft", total |-> total, paid |-> 0, order |-> NoOrder] \in InvoiceRow
      BY AmountAssumption DEF InvoiceRow, InvoiceStatuses
    <2>2. QED
      BY <1>2, <1>5, <2>1 DEF CreateInvoice
  <1>6. ASSUME NEW i \in DOMAIN invoice, Issue(i) PROVE Good(invoice'[j])
    <2>1. invoice[i].status = "draft" /\ invoice' = [invoice EXCEPT ![i].status = "issued"]
      BY <1>6 DEF Issue
    <2>2. j \in DOMAIN invoice /\ Good(invoice[j])
      BY <1>0, <2>1
    <2>3. QED
      BY <2>1, <2>2 DEF Good, InvoiceRow
  <1>7. ASSUME NEW i \in DOMAIN invoice, Void(i) PROVE Good(invoice'[j])
    <2>1. invoice[i].paid = 0 /\ invoice' = [invoice EXCEPT ![i].status = "void"]
      BY <1>7 DEF Void, Voidable
    <2>2. j \in DOMAIN invoice /\ Good(invoice[j])
      BY <1>0, <2>1
    <2>3. QED
      BY <2>1, <2>2 DEF Good, InvoiceRow
  <1>8. ASSUME NEW i \in DOMAIN invoice, NEW amount \in Amounts, NEW key \in Keys \cup {NoKey},
               Pay(i, amount, key)
        PROVE Good(invoice'[j])
    <2>1. amount \in Nat \ {0} /\ amount <= invoice[i].total - invoice[i].paid
      BY <1>8, AmountAssumption DEF Pay, Balance
    <2>2. invoice' = [invoice EXCEPT
            ![i].paid = @ + amount,
            ![i].status = IF invoice[i].paid + amount = invoice[i].total
                            THEN "paid" ELSE "partially_paid"]
      BY <1>8 DEF Pay
    <2>3. j \in DOMAIN invoice /\ Good(invoice[j])
      BY <1>0, <2>2
    <2>4. CASE j = i
      <3>1. /\ invoice'[j].paid = invoice[i].paid + amount
            /\ invoice'[j].total = invoice[i].total
            /\ invoice'[j].status = IF invoice[i].paid + amount = invoice[i].total
                                      THEN "paid" ELSE "partially_paid"
        BY <2>2, <2>3, <2>4 DEF InvoiceRow
      <3>2. invoice[i].paid \in Nat /\ invoice[i].total \in Nat
        OBVIOUS
      <3>3. CASE invoice[i].paid + amount = invoice[i].total
        BY <2>1, <3>1, <3>2, <3>3 DEF Good
      <3>4. CASE invoice[i].paid + amount # invoice[i].total
        <4>1. invoice'[j].paid > 0 /\ invoice'[j].paid < invoice'[j].total
          <5>1. invoice[i].paid + amount > 0 /\ invoice[i].paid + amount < invoice[i].total
            BY <2>1, <3>2, <3>4, PartOfTotal
          <5>2. QED
            BY <3>1, <5>1
        <4>2. invoice'[j].status = "partially_paid"
          BY <3>1, <3>4
        <4>3. invoice'[j].paid \in Nat /\ invoice'[j].total \in Nat
          BY <2>1, <3>1, <3>2
        <4>4. QED
          BY <4>1, <4>2, <4>3 DEF Good
      <3>5. QED
        BY <3>3, <3>4
    <2>5. CASE j # i
      BY <2>2, <2>3, <2>5
    <2>6. QED
      BY <2>4, <2>5
  <1>9. QED
    BY <1>1, <1>3, <1>4, <1>5, <1>6, <1>7, <1>8
       DEF Next, OrderStep, InvoiceStep, CreateDraft, UpdateLines, Progress, Adjust, vars

----------------------------------------------------------------------------
(* One payment for a key.                                                  *)

LEMMA KeyInvariant == TypeOK /\ OnePaymentPerKey /\ [Next]_vars => OnePaymentPerKey'
  <1> SUFFICES ASSUME TypeOK, OnePaymentPerKey, [Next]_vars PROVE OnePaymentPerKey'
    OBVIOUS
  <1>1. CASE UNCHANGED payment
    BY <1>1 DEF OnePaymentPerKey
  <1>2. ASSUME NEW i \in DOMAIN invoice, NEW amount \in Amounts, NEW key \in Keys \cup {NoKey},
               Pay(i, amount, key)
        PROVE OnePaymentPerKey'
    <2> DEFINE new == [invoice |-> i, amount |-> amount, key |-> key]
    <2>1. payment' = Append(payment, new)
      BY <1>2 DEF Pay
    <2>2. payment \in Seq(PaymentRow)
      BY DEF TypeOK
    <2>3. /\ DOMAIN payment = 1..Len(payment) /\ Len(payment) \in Nat
          /\ DOMAIN payment' = 1..(Len(payment) + 1)
          /\ \A n \in DOMAIN payment : payment'[n] = payment[n]
          /\ payment'[Len(payment) + 1] = new
      BY <2>1, <2>2
    <2>4. key \in Keys => \A n \in DOMAIN payment : payment[n].key # key
      BY <1>2 DEF Pay
    <2>5. ASSUME NEW m \in DOMAIN payment', NEW n \in DOMAIN payment',
                 payment'[m].key = payment'[n].key, payment'[m].key \in Keys
          PROVE m = n
      <3>1. CASE m \in DOMAIN payment /\ n \in DOMAIN payment
        BY <2>3, <2>5, <3>1 DEF OnePaymentPerKey
      <3>2. CASE m \in DOMAIN payment /\ n = Len(payment) + 1
        BY <2>3, <2>4, <2>5, <3>2
      <3>3. CASE m = Len(payment) + 1 /\ n \in DOMAIN payment
        BY <2>3, <2>4, <2>5, <3>3
      <3>4. CASE m = Len(payment) + 1 /\ n = Len(payment) + 1
        BY <3>4
      <3>5. QED
        BY <2>3, <3>1, <3>2, <3>3, <3>4
    <2>6. QED
      BY <2>5 DEF OnePaymentPerKey
  <1>3. QED
    BY <1>1, <1>2 DEF Next, OrderStep, InvoiceStep, CreateDraft, UpdateLines, Confirm, Progress,
       Cancel, Adjust, CreateInvoice, Issue, Void, vars

----------------------------------------------------------------------------
(* An invoice and its order.                                               *)

LEMMA InvoiceInvariant ==
  TypeOK /\ InvoiceFollowsOrder /\ [Next]_vars => InvoiceFollowsOrder'
  <1> SUFFICES ASSUME TypeOK, InvoiceFollowsOrder, [Next]_vars PROVE InvoiceFollowsOrder'
    OBVIOUS
  <1> USE InvoiceRows
  <1>0. ASSUME NEW i \in DOMAIN invoice, NEW o \in Orders, Live(i, o)
        PROVE  /\ order[o].status \in StockDeducted
               /\ invoice[i].total = CartTotal[order[o].cart][order[o].price]
               /\ \A j \in DOMAIN invoice : Live(j, o) => j = i
    BY <1>0 DEF InvoiceFollowsOrder
  <1>1. ASSUME DOMAIN invoice' = DOMAIN invoice,
               \A i \in DOMAIN invoice :
                 /\ invoice'[i].order = invoice[i].order
                 /\ invoice'[i].total = invoice[i].total
                 /\ invoice[i].status = "void" => invoice'[i].status = "void",
               \A o \in Orders : order[o].status \in StockDeducted =>
                 /\ order'[o].cart = order[o].cart /\ order'[o].price = order[o].price
                 /\ \/ order'[o].status \in StockDeducted
                    \/ \A i \in DOMAIN invoice : Live(i, o) => invoice'[i].status = "void"
        PROVE  InvoiceFollowsOrder'
    <2> SUFFICES ASSUME NEW i \in DOMAIN invoice', NEW o \in Orders, Live(i, o)'
                 PROVE  /\ order'[o].status \in StockDeducted
                        /\ invoice'[i].total = CartTotal[order'[o].cart][order'[o].price]
                        /\ \A j \in DOMAIN invoice' : Live(j, o)' => j = i
      BY DEF InvoiceFollowsOrder
    <2>1. i \in DOMAIN invoice /\ Live(i, o)
      BY <1>1 DEF Live
    <2>2. \A j \in DOMAIN invoice' : Live(j, o)' => Live(j, o)
      BY <1>1 DEF Live
    <2>3. order[o].status \in StockDeducted
      BY <1>0, <2>1
    <2>4. QED
      BY <1>0, <1>1, <2>1, <2>2, <2>3 DEF Live
  <1>2. ASSUME NEW o \in Orders, NEW bill \in BOOLEAN, Confirm(o, bill)
        PROVE InvoiceFollowsOrder'
    <2>1. order' = [order EXCEPT ![o].status = "confirmed"] /\ order[o].status = "draft"
      BY <1>2 DEF Confirm
    <2>2. CASE invoice' = invoice
      BY <1>1, <2>1, <2>2 DEF TypeOK, OrderRow, StockDeducted
    <2>3. CASE invoice' = Append(invoice, NewInvoice(o))
      <3>1. /\ DOMAIN invoice' = 1..(Len(invoice) + 1)
            /\ \A i \in DOMAIN invoice : invoice'[i] = invoice[i]
            /\ invoice'[Len(invoice) + 1] = NewInvoice(o)
        BY <2>3 DEF TypeOK
      <3>2. \A i \in DOMAIN invoice : ~Live(i, o)
        BY <1>0, <2>1 DEF StockDeducted
      <3> SUFFICES ASSUME NEW i \in DOMAIN invoice', NEW q \in Orders, Live(i, q)'
                   PROVE  /\ order'[q].status \in StockDeducted
                          /\ invoice'[i].total = CartTotal[order'[q].cart][order'[q].price]
                          /\ \A j \in DOMAIN invoice' : Live(j, q)' => j = i
        BY DEF InvoiceFollowsOrder
      <3>3. \A j \in DOMAIN invoice : \A r \in Orders : Live(j, r)' <=> Live(j, r)
        BY <3>1 DEF Live
      <3>4. \A j \in DOMAIN invoice' : \A r \in Orders :
              Live(j, r)' /\ j \notin DOMAIN invoice => r = o
        BY <3>1 DEF Live, NewInvoice
      <3>5. CASE q = o
        <4>1. i = Len(invoice) + 1
          BY <3>1, <3>2, <3>3, <3>5
        <4>2. \A j \in DOMAIN invoice' : Live(j, q)' => j = i
          BY <3>1, <3>2, <3>3, <3>5, <4>1
        <4>3. order'[o].status = "confirmed" /\ order'[o].cart = order[o].cart
              /\ order'[o].price = order[o].price
          BY <2>1 DEF TypeOK, OrderRow
        <4>4. invoice'[i].total = CartTotal[order[o].cart][order[o].price]
          BY <3>1, <4>1 DEF NewInvoice
        <4>5. QED
          BY <3>5, <4>2, <4>3, <4>4 DEF StockDeducted
      <3>6. CASE q # o
        <4>1. i \in DOMAIN invoice /\ Live(i, q)
          BY <3>1, <3>3, <3>4, <3>6
        <4>2. order'[q] = order[q]
          BY <2>1, <3>6 DEF TypeOK
        <4>3. \A j \in DOMAIN invoice' : Live(j, q)' => j \in DOMAIN invoice /\ Live(j, q)
          BY <3>1, <3>3, <3>4, <3>6
        <4>4. QED
          BY <1>0, <3>1, <4>1, <4>2, <4>3
      <3>7. QED
        BY <3>5, <3>6
    <2>4. QED
      BY <1>2, <2>2, <2>3 DEF Confirm
  <1>3. ASSUME NEW o \in Orders, Cancel(o) PROVE InvoiceFollowsOrder'
    <2>1. order' = [order EXCEPT ![o].status = "cancelled"]
      BY <1>3 DEF Cancel
    <2>2. invoice' = [i \in DOMAIN invoice |->
                       IF Live(i, o) THEN [invoice[i] EXCEPT !.status = "void"] ELSE invoice[i]]
      BY <1>3 DEF Cancel
    <2>3. \A i \in DOMAIN invoice :
            /\ invoice'[i].order = invoice[i].order
            /\ invoice'[i].total = invoice[i].total
            /\ invoice[i].status = "void" => invoice'[i].status = "void"
            /\ Live(i, o) => invoice'[i].status = "void"
      BY <2>2 DEF InvoiceRow
    <2>4. \A q \in Orders : q # o => order'[q] = order[q]
      BY <2>1 DEF TypeOK
    <2>5. order'[o].cart = order[o].cart /\ order'[o].price = order[o].price
      BY <2>1 DEF TypeOK, OrderRow
    <2>6. QED
      BY <1>1, <2>2, <2>3, <2>4, <2>5
  <1>4. ASSUME NEW o \in Orders, OrderStep(o), UNCHANGED invoice,
               order[o].status \in StockDeducted =>
                 /\ order'[o].cart = order[o].cart /\ order'[o].price = order[o].price
                 /\ order'[o].status \in StockDeducted,
               \A q \in Orders : q # o => order'[q] = order[q]
        PROVE InvoiceFollowsOrder'
    BY <1>1, <1>4
  <1>5. ASSUME NEW o \in Orders, NEW c \in Carts, NEW p \in Prices,
               NEW source \in {"manual", "quote"},
               CreateDraft(o, c, p, source) \/ UpdateLines(o, c, p)
        PROVE InvoiceFollowsOrder'
    <2>1. order[o].status \notin StockDeducted /\ UNCHANGED invoice
      BY <1>5 DEF CreateDraft, UpdateLines, StockDeducted
    <2>2. \A q \in Orders : q # o => order'[q] = order[q]
      BY <1>5 DEF CreateDraft, UpdateLines, TypeOK
    <2>3. OrderStep(o)
      BY <1>5 DEF OrderStep
    <2>4. QED
      BY <1>4, <2>1, <2>2, <2>3
  <1>6. ASSUME NEW o \in Orders, NEW action \in DOMAIN ProgressTarget, Progress(o, action)
        PROVE InvoiceFollowsOrder'
    <2>1. order' = [order EXCEPT ![o].status = ProgressTarget[action]] /\ UNCHANGED invoice
      BY <1>6 DEF Progress
    <2>2. ProgressTarget[action] \in StockDeducted
      BY DEF ProgressTarget, StockDeducted
    <2>3. /\ order'[o].cart = order[o].cart /\ order'[o].price = order[o].price
          /\ order'[o].status \in StockDeducted
      BY <2>1, <2>2 DEF TypeOK, OrderRow
    <2>4. \A q \in Orders : q # o => order'[q] = order[q]
      BY <2>1 DEF TypeOK
    <2>5. OrderStep(o)
      BY <1>6 DEF OrderStep
    <2>6. QED
      BY <1>4, <2>1, <2>3, <2>4, <2>5
  <1>7. ASSUME NEW total \in Totals, CreateInvoice(total) PROVE InvoiceFollowsOrder'
    <2> DEFINE new == [status |-> "draft", total |-> total, paid |-> 0, order |-> NoOrder]
    <2>1. invoice' = Append(invoice, new) /\ UNCHANGED order
      BY <1>7 DEF CreateInvoice
    <2>2. /\ DOMAIN invoice' = 1..(Len(invoice) + 1)
          /\ \A i \in DOMAIN invoice : invoice'[i] = invoice[i]
          /\ invoice'[Len(invoice) + 1] = new
      BY <2>1 DEF TypeOK
    <2>3. \A i \in DOMAIN invoice' : \A o \in Orders :
            Live(i, o)' => i \in DOMAIN invoice /\ Live(i, o)
      BY <2>2, SetsAssumption DEF Live
    <2>4. QED
      BY <1>0, <2>1, <2>2, <2>3 DEF InvoiceFollowsOrder
  <1>8. ASSUME NEW i \in DOMAIN invoice, InvoiceStep(i) PROVE InvoiceFollowsOrder'
    <2>1. UNCHANGED order /\ DOMAIN invoice' = DOMAIN invoice
      BY <1>8 DEF InvoiceStep, Issue, Void, Pay
    <2>2. invoice[i].status # "void"
      BY <1>8 DEF InvoiceStep, Issue, Void, Pay, Voidable, OpenStatuses
    <2>3. \A j \in DOMAIN invoice :
            /\ invoice'[j].order = invoice[j].order
            /\ invoice'[j].total = invoice[j].total
            /\ j # i => invoice'[j] = invoice[j]
      <3>1. CASE Issue(i)
        BY <3>1 DEF Issue, InvoiceRow
      <3>2. CASE Void(i)
        BY <3>2 DEF Void, InvoiceRow
      <3>3. ASSUME NEW amount \in Amounts, NEW key \in Keys \cup {NoKey}, Pay(i, amount, key)
            PROVE  \A j \in DOMAIN invoice :
                     /\ invoice'[j].order = invoice[j].order
                     /\ invoice'[j].total = invoice[j].total
                     /\ j # i => invoice'[j] = invoice[j]
        BY <3>3 DEF Pay, InvoiceRow
      <3>4. QED
        BY <1>8, <3>1, <3>2, <3>3 DEF InvoiceStep
    <2>4. \A j \in DOMAIN invoice : invoice[j].status = "void" => invoice'[j].status = "void"
      BY <2>2, <2>3
    <2>5. QED
      BY <1>1, <2>1, <2>3, <2>4
  <1>9. CASE UNCHANGED <<invoice, order>>
    BY <1>1, <1>9
  <1>10. QED
    BY <1>2, <1>3, <1>5, <1>6, <1>7, <1>8, <1>9 DEF Next, OrderStep, Adjust, vars
----------------------------------------------------------------------------
(* The stock ledger and the orders.                                        *)

(* The moves of an order, and what Sales and Returns read of its row.      *)
Sold(o) == {m \in moves : m.order = o /\ m.kind = "sale"}
Returned(o) == {m \in moves : m.order = o /\ m.kind = "return"}
Follows(o) ==
  /\ order[o].status \in StockDeducted => Sold(o) = Sales(o) /\ Returned(o) = {}
  /\ order[o].status \in {"none", "draft"} => Sold(o) = {} /\ Returned(o) = {}
  /\ order[o].status = "cancelled" => Returned(o) = {Return(m.order, m.line) : m \in Sold(o)}

LEMMA StockIsFollows == StockFollowsOrders <=> \A o \in Orders : Follows(o)
  BY DEF StockFollowsOrders, Follows, Sold, Returned

(* An order keeps its ledger as long as its row keeps what the ledger      *)
(* depends on and no move of it is added.                                  *)
LEMMA KeptLedger ==
  ASSUME NEW o \in Orders, Follows(o),
         Sold(o)' = Sold(o), Returned(o)' = Returned(o),
         order'[o].cart = order[o].cart \/ order[o].status \in {"none", "draft"},
         \/ order'[o].status = order[o].status
         \/ order[o].status \in {"none", "draft"} /\ order'[o].status = "draft"
         \/ order[o].status \in StockDeducted /\ order'[o].status \in StockDeducted
  PROVE  Follows(o)'
  <1>1. CASE order[o].status \in {"none", "draft"}
    <2>1. order'[o].status \in {"none", "draft"} /\ Sold(o)' = {} /\ Returned(o)' = {}
      BY <1>1 DEF Follows, StockDeducted
    <2>2. QED
      BY <2>1 DEF Follows, StockDeducted
  <1>2. CASE order[o].status \notin {"none", "draft"}
    <2>1. Sales(o)' = Sales(o)
      BY <1>2 DEF Sales
    <2>2. QED
      BY <1>2, <2>1 DEF Follows, StockDeducted
  <1>3. QED
    BY <1>1, <1>2

LEMMA StockInvariant == TypeOK /\ StockFollowsOrders /\ [Next]_vars => StockFollowsOrders'
  <1> SUFFICES ASSUME TypeOK, StockFollowsOrders, [Next]_vars, NEW q \in Orders
               PROVE  Follows(q)'
    BY DEF StockFollowsOrders, Follows, Sold, Returned
  <1>0. Follows(q)
    BY StockIsFollows
  <1>1. ASSUME UNCHANGED <<moves, order>> PROVE Follows(q)'
    BY <1>0, <1>1, KeptLedger DEF Sold, Returned
  <1>2. ASSUME NEW o \in Orders, NEW c \in Carts, NEW p \in Prices,
               NEW source \in {"manual", "quote"},
               CreateDraft(o, c, p, source) \/ UpdateLines(o, c, p)
        PROVE Follows(q)'
    <2>1. Sold(q)' = Sold(q) /\ Returned(q)' = Returned(q)
      BY <1>2 DEF CreateDraft, UpdateLines, Sold, Returned
    <2>2. CASE q = o
      <3>1. order[q].status \in {"none", "draft"} /\ order'[q].status = "draft"
        BY <1>2, <2>2 DEF CreateDraft, UpdateLines, TypeOK, OrderRow
      <3>2. QED
        BY <1>0, <2>1, <3>1, KeptLedger
    <2>3. CASE q # o
      <3>1. order'[q] = order[q]
        BY <1>2, <2>3 DEF CreateDraft, UpdateLines, TypeOK
      <3>2. QED
        BY <1>0, <2>1, <3>1, KeptLedger
    <2>4. QED
      BY <2>2, <2>3
  <1>3. ASSUME NEW o \in Orders, NEW bill \in BOOLEAN, Confirm(o, bill) PROVE Follows(q)'
    <2>1. /\ order' = [order EXCEPT ![o].status = "confirmed"]
          /\ order[o].status = "draft"
          /\ moves' = moves \cup Sales(o)
      BY <1>3 DEF Confirm
    <2>2. CASE q = o
      <3>1. /\ order'[o].status = "confirmed"
            /\ order'[o].cart = order[o].cart
        BY <2>1 DEF TypeOK, OrderRow
      <3>2. Sales(o)' = Sales(o)
        BY <3>1 DEF Sales
      <3>3. Sold(o) = {} /\ Returned(o) = {}
        BY <1>0, <2>1, <2>2 DEF Follows
      <3>4. \A m \in Sales(o) : m.order = o /\ m.kind = "sale"
        BY DEF Sales, Sale
      <3>5. Sold(o)' = Sales(o) /\ Returned(o)' = {}
        BY <2>1, <3>3, <3>4 DEF Sold, Returned
      <3>6. QED
        BY <2>2, <3>1, <3>2, <3>5 DEF Follows
    <2>3. CASE q # o
      <3>1. order'[q] = order[q]
        BY <2>1, <2>3 DEF TypeOK
      <3>2. \A m \in Sales(o) : m.order # q
        BY <2>3 DEF Sales, Sale
      <3>3. Sold(q)' = Sold(q) /\ Returned(q)' = Returned(q)
        BY <2>1, <3>2 DEF Sold, Returned
      <3>4. QED
        BY <1>0, <3>1, <3>3, KeptLedger
    <2>4. QED
      BY <2>2, <2>3
  <1>4. ASSUME NEW o \in Orders, NEW action \in DOMAIN ProgressTarget, Progress(o, action)
        PROVE Follows(q)'
    <2>1. Sold(q)' = Sold(q) /\ Returned(q)' = Returned(q)
      BY <1>4 DEF Progress, Sold, Returned
    <2>2. CASE q = o
      <3>1. ProgressTarget[action] \in OrderNext[order[o].status]
        BY <1>4 DEF Progress
      <3>2. ProgressTarget[action] \in {"processing", "shipped", "delivered"}
        BY DEF ProgressTarget
      <3>3. order[o].status \in OrderStatuses
        BY DEF TypeOK, OrderRow
      <3>4. order[o].status \in StockDeducted
        BY <3>1, <3>2, <3>3 DEF OrderNext, OrderStatuses, StockDeducted
      <3>5. order'[o].status = ProgressTarget[action] /\ order'[o].cart = order[o].cart
        BY <1>4 DEF Progress, TypeOK, OrderRow
      <3>6. order'[o].status \in StockDeducted
        BY <3>2, <3>5 DEF StockDeducted
      <3>7. QED
        BY <1>0, <2>1, <2>2, <3>4, <3>5, <3>6, KeptLedger
    <2>3. CASE q # o
      <3>1. order'[q] = order[q]
        BY <1>4, <2>3 DEF Progress, TypeOK
      <3>2. QED
        BY <1>0, <2>1, <3>1, KeptLedger
    <2>4. QED
      BY <2>2, <2>3
  <1>5. ASSUME NEW o \in Orders, Cancel(o) PROVE Follows(q)'
    <2>1. order' = [order EXCEPT ![o].status = "cancelled"]
      BY <1>5 DEF Cancel
    <2>2. moves' = moves \cup Returns(o) \/ moves' = moves
      BY <1>5 DEF Cancel
    <2>3. CASE q = o
      <3>1. order'[o].status = "cancelled"
        BY <2>1 DEF TypeOK, OrderRow
      <3>2. Sold(o)' = Sold(o)
        BY <2>2 DEF Sold, Returns, Return
      <3>3. Returned(o)' = {Return(m.order, m.line) : m \in Sold(o)}
        <4>1. CASE order[o].status \in StockDeducted
          <5>1. moves' = moves \cup Returns(o)
            BY <1>5, <4>1 DEF Cancel
          <5>2. Sold(o) = Sales(o) /\ Returned(o) = {}
            BY <1>0, <2>3, <4>1 DEF Follows
          <5>3. \A m \in TrackedLines(order[o].cart) : Sale(o, m) \in moves
            BY <5>2 DEF Sold, Sales
          <5>4. Returns(o) = {Return(o, n) : n \in TrackedLines(order[o].cart)}
            BY <5>3 DEF Returns
          <5>5. {Return(m.order, m.line) : m \in Sold(o)}
                  = {Return(o, n) : n \in TrackedLines(order[o].cart)}
            <6>1. Sold(o) = {Sale(o, n) : n \in TrackedLines(order[o].cart)}
              BY <5>2 DEF Sales
            <6>2. \A n : Return(Sale(o, n).order, Sale(o, n).line) = Return(o, n)
              BY DEF Sale, Return
            <6> HIDE DEF Sale, Return
            <6>3. QED
              BY <6>1, <6>2
          <5>6. Returned(o)' = Returns(o)
            <6>1. \A m \in Returns(o) : m.order = o /\ m.kind = "return"
              BY DEF Returns, Return
            <6>2. QED
              BY <5>1, <5>2, <6>1 DEF Returned
          <5>7. QED
            BY <5>4, <5>5, <5>6
        <4>2. CASE order[o].status \notin StockDeducted
          <5>1. moves' = moves
            BY <1>5, <4>2 DEF Cancel
          <5>2. order[o].status \in {"none", "draft"}
            BY <1>5, <4>2 DEF Cancel, TypeOK, OrderRow, OrderStatuses, OrderNext, StockDeducted
          <5>3. Sold(o) = {} /\ Returned(o) = {}
            BY <1>0, <2>3, <5>2 DEF Follows
          <5>4. QED
            BY <5>1, <5>3 DEF Sold, Returned
        <4>3. QED
          BY <4>1, <4>2
      <3>4. QED
        BY <2>3, <3>1, <3>2, <3>3 DEF Follows, StockDeducted
    <2>4. CASE q # o
      <3>1. order'[q] = order[q]
        BY <2>1, <2>4 DEF TypeOK
      <3>2. \A m \in Returns(o) : m.order # q
        BY <2>4 DEF Returns, Return
      <3>3. Sold(q)' = Sold(q) /\ Returned(q)' = Returned(q)
        BY <2>2, <3>2 DEF Sold, Returned
      <3>4. QED
        BY <1>0, <3>1, <3>3, KeptLedger
    <2>5. QED
      BY <2>3, <2>4
  <1>6. QED
    BY <1>1, <1>2, <1>3, <1>4, <1>5
       DEF Next, OrderStep, InvoiceStep, Adjust, CreateInvoice, Issue, Void, Pay, vars

----------------------------------------------------------------------------
(* Init establishes the five, and each step keeps them.                    *)
LEMMA InvInitially == Init => Inv
  <1> SUFFICES ASSUME Init PROVE Inv
    OBVIOUS
  <1>1. TypeOK
    <2>1. order \in [Orders -> OrderRow]
      BY NotYetRow DEF Init
    <2>2. QED
      BY <2>1, AmountAssumption DEF Init, TypeOK
  <1>2. DOMAIN invoice = {} /\ DOMAIN payment = {}
    BY DEF Init
  <1>3. PaidMatchesStatus /\ OnePaymentPerKey /\ InvoiceFollowsOrder
    BY <1>2 DEF PaidMatchesStatus, OnePaymentPerKey, InvoiceFollowsOrder
  <1>4. StockFollowsOrders
    <2>1. \A o \in Orders : order[o].status = "none"
      BY DEF Init, NotYet
    <2>2. QED
      BY <2>1 DEF Init, StockFollowsOrders, StockDeducted
  <1>5. QED
    BY <1>1, <1>3, <1>4 DEF Inv

LEMMA InvInductive == Inv /\ [Next]_vars => Inv'
  BY TypeInvariant, PaidInvariant, KeyInvariant, InvoiceInvariant, StockInvariant DEF Inv

LEMMA InvAlways == Spec => []Inv
  BY InvInitially, InvInductive, PTL DEF Spec

(* Every row keeps to its columns: in particular no accepted request takes *)
(* a stock level below zero, whatever the carts and adjustments are        *)
(* (inventory/service.py move, stock_levels' CHECK on_hand >= 0).          *)
THEOREM TypeCorrect == Spec => []TypeOK
  BY InvAlways, PTL DEF Inv

(* record_payment's three checks (open status, amount within the balance,  *)
(* paid when nothing is left) and void's paid = 0 check keep the status of *)
(* an invoice in step with its money, in every order of requests.          *)
THEOREM PaidSafe == Spec => []PaidMatchesStatus
  BY InvAlways, PTL DEF Inv

(* record_payment never books an idempotency key twice, across invoices.   *)
THEOREM KeysSafe == Spec => []OnePaymentPerKey
  BY InvAlways, PTL DEF Inv

(* create_from_order at confirm and void_for_order at cancel keep one live *)
(* invoice at most for an order that stands, for the order's amount.       *)
THEOREM InvoicesFollow == Spec => []InvoiceFollowsOrder
  BY InvAlways, PTL DEF Inv

(* _confirm_effects and _cancel_effects keep the keyed stock movements     *)
(* what the status of the order says, through every later transition.      *)
THEOREM StockFollows == Spec => []StockFollowsOrders
  BY InvAlways, PTL DEF Inv
=============================================================================
