----------------------------- MODULE OrderBook -----------------------------
(***************************************************************************)
(* What the order-to-cash services promise: every request of               *)
(* modules/orders, modules/inventory and modules/billing takes effect as   *)
(* one indivisible change of the committed rows.  OrderToCash.tla models   *)
(* the same requests as the code runs them (row locks taken one by one,    *)
(* pending rows, rollback) and is checked to implement this module.        *)
(***************************************************************************)
EXTENDS Integers, Sequences

CONSTANTS
  Orders,      \* ids of orders
  Variants,    \* catalog variants; a stock level row exists for each
  Tracked,     \* the variants with track_inventory
  Carts,       \* the line lists an order can have
  Prices,      \* versions of the catalog's price list
  Lines,       \* Lines[c]: the lines of cart c, in order of position
  Demand,      \* Demand[c][v]: units of v that the lines of c take from stock
  Kind,        \* Kind[c]: the fulfillment type that the lines of c give
  CartTotal,   \* CartTotal[c][p]: what c costs at price list p
  Opening,     \* Opening[v]: units of v on hand at the start
  Adjustments, \* the signed quantities a manual adjustment can have
  Amounts,     \* payment amounts
  Totals,      \* totals of invoices made by hand
  Keys,        \* Idempotency-Key header values
  NoKey,       \* no header was sent
  NoOrder      \* an invoice made by hand belongs to no order

ASSUME SetsAssumption ==
  /\ Tracked \subseteq Variants
  /\ NoKey \notin Keys
  /\ NoOrder \notin Orders
ASSUME CartAssumption ==
  /\ Lines \in [Carts -> Seq([variant : Variants, quantity : Nat \ {0}])]
  /\ Demand \in [Carts -> [Variants -> Nat]]
  /\ Kind \in [Carts -> {"service", "product", "hybrid"}]
  /\ CartTotal \in [Carts -> [Prices -> Nat]]
  /\ Carts # {} /\ Prices # {}
ASSUME LinesAssumption == \A c \in Carts : Lines[c] # <<>>   \* OrderCreate.lines has min_length=1
ASSUME DemandAssumption ==     \* what the lines up to the n-th take adds up to the demand
  \A c \in Carts, v \in Variants :
    \E taken \in [0..Len(Lines[c]) -> 0..Demand[c][v]] :
      /\ taken[0] = 0 /\ taken[Len(Lines[c])] = Demand[c][v]
      /\ \A n \in DOMAIN Lines[c] :
           taken[n] = taken[n - 1] +
             (IF Lines[c][n].variant = v /\ v \in Tracked THEN Lines[c][n].quantity ELSE 0)
ASSUME AmountAssumption ==
  /\ Amounts \subseteq Nat \ {0}     \* PaymentCreate.amount has gt=0
  /\ Totals \subseteq Nat
  /\ Adjustments \subseteq Int \ {0}
  /\ Opening \in [Variants -> Nat]

VARIABLES
  order,    \* order[o]: the order's row
  onHand,   \* onHand[v]: units on the shelf
  moves,    \* the keyed stock movements: one per tracked line sold or returned
  invoice,  \* the invoices, in order of number
  payment   \* the payments, in order of number

vars == <<order, onHand, moves, invoice, payment>>

----------------------------------------------------------------------------
OrderStatuses ==
  {"none", "draft", "confirmed", "processing", "shipped", "delivered", "cancelled"}
InvoiceStatuses == {"draft", "issued", "partially_paid", "paid", "void"}

OrderNext ==
  [none       |-> {},
   draft      |-> {"confirmed", "cancelled"},
   confirmed  |-> {"processing", "cancelled"},
   processing |-> {"shipped", "delivered", "cancelled"},
   shipped    |-> {"delivered"},
   delivered  |-> {},
   cancelled  |-> {}]

StockDeducted == {"confirmed", "processing", "shipped", "delivered"}
OpenStatuses == {"issued", "partially_paid"}

OrderRow ==
  [status : OrderStatuses, cart : Carts, price : Prices, source : {"manual", "quote"}]
InvoiceRow ==
  [status : InvoiceStatuses, total : Nat, paid : Nat, order : Orders \cup {NoOrder}]
PaymentRow == [invoice : Nat \ {0}, amount : Nat \ {0}, key : Keys \cup {NoKey}]
Move == [order : Orders, line : Nat \ {0}, kind : {"sale", "return"}]

TrackedLines(c) == {n \in DOMAIN Lines[c] : Lines[c][n].variant \in Tracked}
Sale(o, n) == [order |-> o, line |-> n, kind |-> "sale"]
Return(o, n) == [order |-> o, line |-> n, kind |-> "return"]
Sales(o) == {Sale(o, n) : n \in TrackedLines(order[o].cart)}
Returns(o) == {Return(o, n) : n \in {m \in TrackedLines(order[o].cart) : Sale(o, m) \in moves}}

\* The invoice of an order that is not void, if any.
Live(i, o) == invoice[i].order = o /\ invoice[i].status # "void"
WholeTotal(row) == row.total                                    \* mutant of Balance
Balance(row) == row.total - row.paid
AnyLive(row) == row.status # "void"                             \* mutant of Voidable
Voidable(row) == row.paid = 0 /\ row.status \in {"draft", "issued"}
NewInvoice(o) ==
  [status |-> "issued", paid |-> 0, order |-> o,
   total |-> CartTotal[order[o].cart][order[o].price]]

\* ship, deliver, complete ... apply to some orders only.
Applies(action, status, kind) ==
  CASE action = "start_processing" -> TRUE
    [] action = "ship" -> kind # "service"
    [] action = "deliver" -> kind # "service" /\ status = "shipped"
    [] action = "complete" -> kind = "service" /\ status = "processing"
ProgressTarget ==
  [start_processing |-> "processing", ship |-> "shipped",
   deliver |-> "delivered", complete |-> "delivered"]

----------------------------------------------------------------------------
NotYet ==
  [status |-> "none", cart |-> CHOOSE c \in Carts : TRUE,
   price |-> CHOOSE p \in Prices : TRUE, source |-> "manual"]

Init ==
  /\ order = [o \in Orders |-> NotYet]
  /\ onHand = Opening
  /\ moves = {}
  /\ invoice = <<>>
  /\ payment = <<>>

CreateDraft(o, c, p, source) ==
  /\ order[o].status = "none"
  /\ order' = [order EXCEPT ![o] = [status |-> "draft", cart |-> c, price |-> p, source |-> source]]
  /\ UNCHANGED <<onHand, moves, invoice, payment>>

UpdateLines(o, c, p) ==
  /\ order[o].status = "draft"
  /\ order' = [order EXCEPT ![o].cart = c, ![o].price = p]
  /\ UNCHANGED <<onHand, moves, invoice, payment>>

\* bill: settings.auto_invoice_on_order_confirm.
Confirm(o, bill) ==
  /\ order[o].status = "draft"
  /\ \A v \in Variants : Demand[order[o].cart][v] <= onHand[v]
  /\ order' = [order EXCEPT ![o].status = "confirmed"]
  /\ onHand' = [v \in Variants |-> onHand[v] - Demand[order[o].cart][v]]
  /\ moves' = moves \cup Sales(o)
  /\ invoice' = IF bill /\ \A i \in DOMAIN invoice : ~Live(i, o)
                   THEN Append(invoice, NewInvoice(o)) ELSE invoice
  /\ UNCHANGED payment

Progress(o, action) ==
  /\ Applies(action, order[o].status, Kind[order[o].cart])
  /\ ProgressTarget[action] \in OrderNext[order[o].status]
  /\ order' = [order EXCEPT ![o].status = ProgressTarget[action]]
  /\ UNCHANGED <<onHand, moves, invoice, payment>>

\* An order with a payment cannot be cancelled.
Cancel(o) ==
  /\ "cancelled" \in OrderNext[order[o].status]
  /\ \A i \in DOMAIN invoice : Live(i, o) => Voidable(invoice[i])
  /\ order' = [order EXCEPT ![o].status = "cancelled"]
  /\ invoice' = [i \in DOMAIN invoice |->
                   IF Live(i, o) THEN [invoice[i] EXCEPT !.status = "void"] ELSE invoice[i]]
  /\ IF order[o].status \in StockDeducted
       THEN /\ moves' = moves \cup Returns(o)
            /\ onHand' = [v \in Variants |-> onHand[v] + Demand[order[o].cart][v]]
       ELSE UNCHANGED <<moves, onHand>>
  /\ UNCHANGED payment

Adjust(v, q) ==
  /\ onHand[v] + q >= 0
  /\ onHand' = [onHand EXCEPT ![v] = @ + q]
  /\ UNCHANGED <<order, moves, invoice, payment>>

CreateInvoice(total) ==
  /\ invoice' = Append(invoice, [status |-> "draft", total |-> total, paid |-> 0, order |-> NoOrder])
  /\ UNCHANGED <<order, onHand, moves, payment>>

Issue(i) ==
  /\ invoice[i].status = "draft"
  /\ invoice' = [invoice EXCEPT ![i].status = "issued"]
  /\ UNCHANGED <<order, onHand, moves, payment>>

Void(i) ==
  /\ Voidable(invoice[i])
  /\ invoice' = [invoice EXCEPT ![i].status = "void"]
  /\ UNCHANGED <<order, onHand, moves, payment>>

Pay(i, amount, key) ==
  /\ invoice[i].status \in OpenStatuses
  /\ amount <= Balance(invoice[i])
  /\ key \in Keys => \A n \in DOMAIN payment : payment[n].key # key
  /\ payment' = Append(payment, [invoice |-> i, amount |-> amount, key |-> key])
  /\ invoice' = [invoice EXCEPT
       ![i].paid = @ + amount,
       ![i].status = IF invoice[i].paid + amount = invoice[i].total
                       THEN "paid" ELSE "partially_paid"]
  /\ UNCHANGED <<order, onHand, moves>>

OrderStep(o) ==
  \/ \E c \in Carts, p \in Prices, source \in {"manual", "quote"} : CreateDraft(o, c, p, source)
  \/ \E c \in Carts, p \in Prices : UpdateLines(o, c, p)
  \/ \E bill \in BOOLEAN : Confirm(o, bill)
  \/ \E action \in DOMAIN ProgressTarget : Progress(o, action)
  \/ Cancel(o)

InvoiceStep(i) ==
  \/ Issue(i)
  \/ Void(i)
  \/ \E amount \in Amounts, key \in Keys \cup {NoKey} : Pay(i, amount, key)

Next ==
  \/ \E o \in Orders : OrderStep(o)
  \/ \E v \in Variants, q \in Adjustments : Adjust(v, q)
  \/ \E total \in Totals : CreateInvoice(total)
  \/ \E i \in DOMAIN invoice : InvoiceStep(i)

Spec == Init /\ [][Next]_vars

----------------------------------------------------------------------------
(* Every row has a value its columns and CHECK constraints allow.          *)
TypeOK ==
  /\ order \in [Orders -> OrderRow]
  /\ onHand \in [Variants -> Nat]
  /\ moves \subseteq Move
  /\ invoice \in Seq(InvoiceRow)
  /\ payment \in Seq(PaymentRow)

(* The stock ledger follows the orders: an order whose status says its     *)
(* stock was deducted has a sale for each tracked line and no return; a    *)
(* draft has neither; a cancelled order has given back all that it took.   *)
StockFollowsOrders ==
  \A o \in Orders :
    LET sold == {m \in moves : m.order = o /\ m.kind = "sale"}
        returned == {m \in moves : m.order = o /\ m.kind = "return"}
    IN  /\ order[o].status \in StockDeducted => sold = Sales(o) /\ returned = {}
        /\ order[o].status \in {"none", "draft"} => sold = {} /\ returned = {}
        /\ order[o].status = "cancelled" => returned = {Return(m.order, m.line) : m \in sold}

(* A live invoice for an order means the order stands, the amount is what  *)
(* the order costs, and there is no second one.                            *)
InvoiceFollowsOrder ==
  \A i \in DOMAIN invoice : \A o \in Orders :
    Live(i, o) =>
      /\ order[o].status \in StockDeducted
      /\ invoice[i].total = CartTotal[order[o].cart][order[o].price]
      /\ \A j \in DOMAIN invoice : Live(j, o) => j = i

(* The status of an invoice says how much of it is paid, and no invoice is *)
(* paid more than its total or void with money on it.                      *)
PaidMatchesStatus ==
  \A i \in DOMAIN invoice :
    LET row == invoice[i] IN
      /\ row.paid <= row.total
      /\ row.status \in {"draft", "issued", "void"} => row.paid = 0
      /\ row.status = "partially_paid" => row.paid > 0 /\ row.paid < row.total
      /\ row.status = "paid" => row.paid = row.total /\ row.paid > 0

(* A key records one payment, however often and for whatever invoice it is *)
(* sent again.                                                             *)
OnePaymentPerKey ==
  \A m, n \in DOMAIN payment :
    payment[m].key = payment[n].key /\ payment[m].key \in Keys => m = n
=============================================================================
