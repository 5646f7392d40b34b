---------------------------- MODULE OrderToCash ----------------------------
(***************************************************************************)
(* Orders, stock and invoices as the API serves them: each request is a    *)
(* database transaction (PostgreSQL, READ COMMITTED) that takes row locks  *)
(* one at a time with SELECT ... FOR UPDATE, reads other rows without a    *)
(* lock, keeps its writes to itself until it commits, and gives everything *)
(* back when it fails.  A request that locks a single row and does nothing *)
(* else before its commit is one action; confirm, cancel and payment take  *)
(* several rows and are a sequence of steps of a session.                  *)
(*                                                                         *)
(* The committed rows are the variables of OrderBook.  Stock is kept at    *)
(* the default location only: a sale names no other, and a return goes to  *)
(* the location of its sale.                                               *)
(***************************************************************************)
EXTENDS OrderBook

CONSTANTS
  Sessions,    \* requests that can be in progress at the same time
  AutoInvoice, \* the values settings.auto_invoice_on_order_confirm takes
  Free,        \* the owner of a row that no transaction has locked
  MaxInvoices, MaxPayments, MaxAdjustments   \* bounds on what is created

ASSUME SessionAssumption ==
  /\ Free \notin Sessions
  /\ AutoInvoice \subseteq BOOLEAN
  /\ MaxInvoices \in Nat /\ MaxPayments \in Nat /\ MaxAdjustments \in Nat

VARIABLES
  ledger,      \* ledger[v]: the committed movements of v, oldest first
  nextNumber,  \* the document_sequences rows
  numbers,     \* numbers[kind]: the number column of the committed rows of a kind
  priceList,   \* the catalog's current prices
  agreed,      \* the orders whose lines are those of their accepted quote
  adjusted,    \* adjustments made so far (a bound, not a row)
  lock,        \* lock[r]: the session whose transaction holds row r
  tx,          \* tx[s]: what session s is doing
  level,       \* level[s][v]: the stock row as the transaction of s has it
  bill         \* bill[s]: the invoice row as the transaction of s has it

rows == <<order, onHand, moves, invoice, payment, ledger, nextNumber, numbers,
          priceList, agreed, adjusted>>
cashVars == <<order, onHand, moves, invoice, payment, ledger, nextNumber, numbers,
              priceList, agreed, adjusted, lock, tx, level, bill>>

OrderKey(o) == <<"order", o>>
LevelKey(v) == <<"level", v>>
InvoiceKey(i) == <<"invoice", i>>
SequenceKey(kind) == <<"sequence", kind>>
Lockable ==
  {OrderKey(o) : o \in Orders} \cup {LevelKey(v) : v \in Variants}
    \cup {InvoiceKey(i) : i \in 1..MaxInvoices} \cup {SequenceKey("invoice"), SequenceKey("payment")}

Numbered == {"invoice", "payment"}
Idle == [op |-> "idle", at |-> "idle", order |-> NoOrder, line |-> 0, invoice |-> 0,
         amount |-> 0, key |-> NoKey, number |-> 0]
Unkeyed == [kind |-> "adjustment"]
NoLevel == [onHand |-> 0, new |-> <<>>]
NoBill == [status |-> "draft", total |-> 0, paid |-> 0, order |-> NoOrder]

CashInit ==
  /\ Init
  /\ ledger = [v \in Variants |-> <<>>]
  /\ nextNumber = [kind \in Numbered |-> 1]
  /\ numbers = [kind \in Numbered |-> <<>>]
  /\ priceList \in Prices
  /\ agreed = {}
  /\ adjusted = 0
  /\ lock = [r \in Lockable |-> Free]
  /\ tx = [s \in Sessions |-> Idle]
  /\ level = [s \in Sessions |-> [v \in Variants |-> NoLevel]]
  /\ bill = [s \in Sessions |-> NoBill]

----------------------------------------------------------------------------
(* Transactions.                                                           *)

Cart(s) == order[tx[s].order].cart
Line(s) == Lines[Cart(s)][tx[s].line]
Holds(s, r) == lock[r] = s

\* The row that the next step of s must lock.
Wanted(s) ==
  CASE tx[s].at = "order" -> OrderKey(tx[s].order)
    [] tx[s].at \in {"sell", "return"} -> LevelKey(Line(s).variant)
    [] tx[s].at = "invoice" -> InvoiceKey(tx[s].invoice)
    [] tx[s].at = "number" ->
         SequenceKey(IF tx[s].op = "confirm" THEN "invoice" ELSE "payment")

Locking(s) == tx[s].at \in {"order", "sell", "return", "invoice", "number"}
LevelsUnlocked(s) ==                                            \* mutant of Granted
  tx[s].at \in {"sell", "return"} \/ lock[Wanted(s)] \in {Free, s}
Granted(s) == lock[Wanted(s)] \in {Free, s}
Take(s) == lock' = [lock EXCEPT ![Wanted(s)] = s]
KeptLocks(s) == lock                                           \* mutant of Released
Released(s) == [r \in Lockable |-> IF Holds(s, r) THEN Free ELSE lock[r]]

\* The transaction is over: its locks and its own versions of rows are gone.
End(s) ==
  /\ lock' = Released(s)
  /\ tx' = [tx EXCEPT ![s] = Idle]
  /\ level' = [level EXCEPT ![s] = [v \in Variants |-> NoLevel]]
  /\ bill' = [bill EXCEPT ![s] = NoBill]

\* A raised error, a lost connection or a killed process: nothing was written.
Rollback(s) == End(s) /\ UNCHANGED rows

GoTo(s, at) == tx' = [tx EXCEPT ![s].at = at]

\* _locked_level: the row as committed, or as this transaction already left it.
Touched(s, v) == level[s][v].new # <<>>
CommittedLevel(s, v) == [onHand |-> onHand[v], new |-> <<>>]   \* mutant of LockedLevel
LockedLevel(s, v) == IF Touched(s, v) THEN level[s][v] ELSE CommittedLevel(s, v)

Movement(id, quantity, balance) ==
  [id |-> id, quantity |-> quantity, balance_after |-> balance]
Moved(row, id, quantity) ==
  [onHand |-> row.onHand + quantity,
   new |-> Append(row.new, Movement(id, quantity, row.onHand + quantity))]
NeverShort(row) == FALSE                                       \* mutant of Short
Short(row) == row.onHand < 0

----------------------------------------------------------------------------
(* OrderService.transition: confirm.                                       *)

BeginOrder(s, op, o) ==
  /\ tx[s].op = "idle"
  /\ order[o].status # "none"
  /\ tx' = [tx EXCEPT ![s] = [Idle EXCEPT !.op = op, !.at = "order", !.order = o, !.line = 1]]
  /\ UNCHANGED <<rows, lock, level, bill>>

LockOrder(s) ==
  /\ tx[s].at = "order"
  /\ Granted(s)
  /\ LET target == IF tx[s].op = "confirm" THEN "confirmed" ELSE "cancelled" IN
     IF target \in OrderNext[order[tx[s].order].status]
       THEN /\ Take(s)
            /\ GoTo(s, IF tx[s].op = "confirm" THEN "sell" ELSE "find")
            /\ UNCHANGED <<rows, level, bill>>
       ELSE Rollback(s)

ButLast(s) ==                                                  \* mutant of AfterLines
  IF tx[s].line < Len(Lines[Cart(s)]) - 1
    THEN {[tx[s] EXCEPT !.line = @ + 1]}
    ELSE {[tx[s] EXCEPT !.line = 0, !.at = "commit"]}

\* After the last line: the invoice, when the setting asks for one.
AfterLines(s) ==
  IF tx[s].line < Len(Lines[Cart(s)])
    THEN {[tx[s] EXCEPT !.line = @ + 1]}
    ELSE {[tx[s] EXCEPT !.line = 0, !.at = next] :
            next \in IF tx[s].op = "confirm" THEN {IF on THEN "number" ELSE "commit" : on \in AutoInvoice}
                                             ELSE {"commit"}}

PriceChanged(s) ==
  /\ order[tx[s].order].source # "quote"
  /\ priceList # order[tx[s].order].price

SellLine(s) ==
  /\ tx[s].at = "sell"
  /\ LET v == Line(s).variant
         sold == Moved(LockedLevel(s, v), Sale(tx[s].order, tx[s].line), -Line(s).quantity) IN
     IF PriceChanged(s)
       THEN Rollback(s)
     ELSE IF v \notin Tracked \/ Sale(tx[s].order, tx[s].line) \in moves
       THEN /\ \E next \in AfterLines(s) : tx' = [tx EXCEPT ![s] = next]
            /\ UNCHANGED <<rows, lock, level, bill>>
     ELSE /\ Granted(s)
          /\ IF Short(sold)
               THEN Rollback(s)
               ELSE /\ Take(s)
                    /\ level' = [level EXCEPT ![s][v] = sold]
                    /\ \E next \in AfterLines(s) : tx' = [tx EXCEPT ![s] = next]
                    /\ UNCHANGED <<rows, bill>>

\* BillingService.create_from_order inside the confirm; next_number holds the
\* sequence row until the transaction ends.
NumberInvoice(s) ==
  /\ tx[s].at = "number" /\ tx[s].op = "confirm"
  /\ IF \E i \in DOMAIN invoice : Live(i, tx[s].order)
       THEN GoTo(s, "commit") /\ UNCHANGED <<lock, bill>>
       ELSE /\ Granted(s)
            /\ nextNumber["invoice"] <= MaxInvoices
            /\ Take(s)
            /\ bill' = [bill EXCEPT ![s] = NewInvoice(tx[s].order)]
            /\ tx' = [tx EXCEPT ![s].number = nextNumber["invoice"], ![s].at = "commit"]
  /\ UNCHANGED <<rows, level>>

----------------------------------------------------------------------------
(* OrderService.transition: cancel.                                        *)

AfterInvoice(s) == IF order[tx[s].order].status \in StockDeducted THEN "return" ELSE "commit"

SkipInvoice(s) ==                                              \* mutant of FindInvoice
  /\ tx[s].at = "find"
  /\ GoTo(s, AfterInvoice(s))
  /\ UNCHANGED <<rows, lock, level, bill>>

\* void_for_order looks for the invoice without a lock.
FindInvoice(s) ==
  /\ tx[s].at = "find"
  /\ LET live == {i \in DOMAIN invoice : Live(i, tx[s].order)} IN
     IF live = {}
       THEN GoTo(s, AfterInvoice(s))
       ELSE \E i \in live : tx' = [tx EXCEPT ![s].invoice = i, ![s].at = "invoice"]
  /\ UNCHANGED <<rows, lock, level, bill>>

\* BillingService.act(void), on the row as it is once the lock is granted.
VoidInvoice(s) ==
  /\ tx[s].at = "invoice" /\ tx[s].op = "cancel"
  /\ Granted(s)
  /\ LET row == invoice[tx[s].invoice] IN
     IF ~Voidable(row)
       THEN Rollback(s)
       ELSE /\ Take(s)
            /\ bill' = [bill EXCEPT ![s] = [row EXCEPT !.status = "void"]]
            /\ GoTo(s, AfterInvoice(s))
            /\ UNCHANGED <<rows, level>>

\* A line is given back when its sale is in the ledger; the key makes it once.
ReturnLine(s) ==
  /\ tx[s].at = "return"
  /\ LET v == Line(s).variant
         give == Moved(LockedLevel(s, v), Return(tx[s].order, tx[s].line), Line(s).quantity) IN
     IF Sale(tx[s].order, tx[s].line) \notin moves \/ Return(tx[s].order, tx[s].line) \in moves
       THEN UNCHANGED <<lock, level>>
       ELSE /\ Granted(s)
            /\ Take(s)
            /\ level' = [level EXCEPT ![s][v] = give]
  /\ \E next \in AfterLines(s) : tx' = [tx EXCEPT ![s] = next]
  /\ UNCHANGED <<rows, bill>>

----------------------------------------------------------------------------
(* BillingService.record_payment.                                          *)

BeginPayment(s, i, amount, key) ==
  /\ tx[s].op = "idle"
  /\ Len(payment) < MaxPayments
  /\ tx' = [tx EXCEPT ![s] = [Idle EXCEPT !.op = "pay", !.at = "invoice", !.invoice = i,
                                           !.amount = amount, !.key = key]]
  /\ UNCHANGED <<rows, lock, level, bill>>

KeyForgotten(key) == FALSE                                     \* mutant of KeyUsed
KeyUsed(key) == key \in Keys /\ \E n \in DOMAIN payment : payment[n].key = key

\* A replay returns the payment of the first request, another request with the
\* key gets 409: neither writes, so both are the end of the transaction.
LockInvoice(s) ==
  /\ tx[s].at = "invoice" /\ tx[s].op = "pay"
  /\ Granted(s)
  /\ LET row == invoice[tx[s].invoice] IN
     IF KeyUsed(tx[s].key) \/ row.status \notin OpenStatuses \/ tx[s].amount > Balance(row)
       THEN Rollback(s)
       ELSE /\ Take(s)
            /\ GoTo(s, "number")
            /\ UNCHANGED <<rows, level, bill>>

\* The savepoint: the payment's number, then the insert.  The unique index
\* refuses a key that another invoice's payment used since the first look.
InsertPayment(s) ==
  /\ tx[s].at = "number" /\ tx[s].op = "pay"
  /\ Granted(s)
  /\ LET row == invoice[tx[s].invoice]
         paid == row.paid + tx[s].amount IN
     IF KeyUsed(tx[s].key) \/ nextNumber["payment"] > MaxPayments
       THEN Rollback(s)
       ELSE /\ Take(s)
            /\ bill' = [bill EXCEPT ![s] =
                 [row EXCEPT !.paid = paid,
                             !.status = IF paid = row.total THEN "paid" ELSE "partially_paid"]]
            /\ tx' = [tx EXCEPT ![s].number = nextNumber["payment"], ![s].at = "commit"]
            /\ UNCHANGED <<rows, level>>

----------------------------------------------------------------------------
(* The commit makes every pending row visible at once.                     *)

CommitStock(s) ==
  /\ onHand' = [v \in Variants |-> LockedLevel(s, v).onHand]
  /\ ledger' = [v \in Variants |-> ledger[v] \o level[s][v].new]
  /\ moves' = moves \cup
       (UNION {{level[s][v].new[n].id : n \in DOMAIN level[s][v].new} : v \in Variants})

StaleNumber(s, kind) ==                                        \* mutant of Numbering
  /\ UNCHANGED nextNumber
  /\ numbers' = [numbers EXCEPT ![kind] = Append(@, tx[s].number)]
\* The rows of a kind get the numbers their transaction read.
Numbering(s, kind) ==
  /\ nextNumber' = [nextNumber EXCEPT ![kind] = tx[s].number + 1]
  /\ numbers' = [numbers EXCEPT ![kind] = Append(@, tx[s].number)]

CommitConfirm(s) ==
  /\ tx[s].at = "commit" /\ tx[s].op = "confirm"
  /\ order' = [order EXCEPT ![tx[s].order].status = "confirmed"]
  /\ CommitStock(s)
  /\ IF tx[s].number = 0
       THEN UNCHANGED <<invoice, nextNumber, numbers>>
       ELSE invoice' = Append(invoice, bill[s]) /\ Numbering(s, "invoice")
  /\ End(s)
  /\ UNCHANGED <<payment, priceList, agreed, adjusted>>

CommitCancel(s) ==
  /\ tx[s].at = "commit" /\ tx[s].op = "cancel"
  /\ order' = [order EXCEPT ![tx[s].order].status = "cancelled"]
  /\ CommitStock(s)
  /\ invoice' = IF tx[s].invoice = 0 THEN invoice
                                      ELSE [invoice EXCEPT ![tx[s].invoice] = bill[s]]
  /\ End(s)
  /\ UNCHANGED <<payment, nextNumber, numbers, priceList, agreed, adjusted>>

CommitPayment(s) ==
  /\ tx[s].at = "commit" /\ tx[s].op = "pay"
  /\ invoice' = [invoice EXCEPT ![tx[s].invoice] = bill[s]]
  /\ payment' = Append(payment, [invoice |-> tx[s].invoice, amount |-> tx[s].amount,
                                  key |-> tx[s].key])
  /\ Numbering(s, "payment")
  /\ End(s)
  /\ UNCHANGED <<order, onHand, moves, ledger, priceList, agreed, adjusted>>

\* A crash, a lost connection or a cancelled request, at any step.
Fail(s) == tx[s].op # "idle" /\ Rollback(s)

\* PostgreSQL's deadlock detector fails one transaction of a cycle of waiters.
Waiting(s) == Locking(s) /\ ~Granted(s)
Deadlocked(s) ==
  \E S \in SUBSET Sessions :
    /\ s \in S
    /\ \A t \in S : Waiting(t)
    /\ S = {lock[Wanted(t)] : t \in S}
BreakDeadlock(s) == Deadlocked(s) /\ Rollback(s)

----------------------------------------------------------------------------
(* Requests that lock one row: its lock is free and they are one step.     *)

Private == <<lock, tx, level, bill>>
Untouched == UNCHANGED <<ledger, nextNumber, numbers, priceList, adjusted, Private>>

Draft(o, c) == CreateDraft(o, c, priceList, "manual") /\ Untouched /\ UNCHANGED agreed
DraftFromQuote(o, c, p) ==   \* at the agreed price
  CreateDraft(o, c, p, "quote") /\ Untouched /\ agreed' = agreed \cup {o}
Edit(o, c) ==
  /\ lock[OrderKey(o)] = Free
  /\ UpdateLines(o, c, priceList)
  /\ agreed' = agreed \ {o}
  /\ Untouched
Advance(o, action) == lock[OrderKey(o)] = Free /\ Progress(o, action) /\ Untouched /\ UNCHANGED agreed
IssueByHand(i) == lock[InvoiceKey(i)] = Free /\ Issue(i) /\ Untouched /\ UNCHANGED agreed
VoidByHand(i) == lock[InvoiceKey(i)] = Free /\ Void(i) /\ Untouched /\ UNCHANGED agreed

AdjustByHand(v, q) ==
  /\ lock[LevelKey(v)] = Free
  /\ adjusted < MaxAdjustments
  /\ Adjust(v, q)
  /\ ledger' = [ledger EXCEPT ![v] = Append(@, Movement(Unkeyed, q, onHand[v] + q))]
  /\ adjusted' = adjusted + 1
  /\ UNCHANGED <<nextNumber, numbers, priceList, agreed, Private>>

InvoiceByHand(total) ==
  /\ lock[SequenceKey("invoice")] = Free
  /\ nextNumber["invoice"] <= MaxInvoices
  /\ CreateInvoice(total)
  /\ nextNumber' = [nextNumber EXCEPT !["invoice"] = @ + 1]
  /\ numbers' = [numbers EXCEPT !["invoice"] = Append(@, nextNumber["invoice"])]
  /\ UNCHANGED <<ledger, priceList, agreed, adjusted, Private>>

PriceListChange(p) ==
  /\ priceList # p
  /\ priceList' = p
  /\ UNCHANGED <<order, onHand, moves, invoice, payment, ledger, nextNumber, numbers,
                 agreed, adjusted, Private>>

----------------------------------------------------------------------------
Begin(s) ==
  \/ \E op \in {"confirm", "cancel"}, o \in Orders : BeginOrder(s, op, o)
  \/ \E i \in DOMAIN invoice, amount \in Amounts, key \in Keys \cup {NoKey} :
       BeginPayment(s, i, amount, key)

Step(s) ==
  \/ LockOrder(s) \/ SellLine(s) \/ NumberInvoice(s) \/ CommitConfirm(s)
  \/ FindInvoice(s) \/ VoidInvoice(s) \/ ReturnLine(s) \/ CommitCancel(s)
  \/ LockInvoice(s) \/ InsertPayment(s) \/ CommitPayment(s)

OneRow ==
  \/ \E o \in Orders, c \in Carts :
       Draft(o, c) \/ Edit(o, c) \/ \E p \in Prices : DraftFromQuote(o, c, p)
  \/ \E o \in Orders, action \in DOMAIN ProgressTarget : Advance(o, action)
  \/ \E i \in DOMAIN invoice : IssueByHand(i) \/ VoidByHand(i)
  \/ \E v \in Variants, q \in Adjustments : AdjustByHand(v, q)
  \/ \E total \in Totals : InvoiceByHand(total)
  \/ \E p \in Prices : PriceListChange(p)

CashNext ==
  \/ \E s \in Sessions : Begin(s) \/ Step(s) \/ Fail(s) \/ BreakDeadlock(s)
  \/ OneRow

CashSpec == CashInit /\ [][CashNext]_cashVars

(* The event loop runs every request that can run, PostgreSQL queues the   *)
(* waiters of a row, and its deadlock detector always runs.                *)
CashFairness ==
  \A s \in Sessions : SF_cashVars(Step(s)) /\ WF_cashVars(BreakDeadlock(s))
FairCashSpec == CashSpec /\ CashFairness

----------------------------------------------------------------------------
Request ==
  [op : {"idle", "confirm", "cancel", "pay"},
   at : {"idle", "order", "sell", "number", "find", "invoice", "return", "commit"},
   order : Orders \cup {NoOrder}, line : Nat, invoice : Nat,
   amount : Amounts \cup {0}, key : Keys \cup {NoKey}, number : Nat]
LedgerRow == [id : Move \cup {Unkeyed}, quantity : Int, balance_after : Nat]
PendingLevel == [onHand : Nat, new : Seq([id : Move, quantity : Int, balance_after : Nat])]

(* Every row, lock and pending row has a value of its kind.                *)
CashTypeOK ==
  /\ TypeOK
  /\ ledger \in [Variants -> Seq(LedgerRow)]
  /\ nextNumber \in [Numbered -> Nat \ {0}]
  /\ numbers \in [Numbered -> Seq(Nat \ {0})]
  /\ priceList \in Prices
  /\ agreed \subseteq Orders
  /\ adjusted \in 0..MaxAdjustments
  /\ lock \in [Lockable -> Sessions \cup {Free}]
  /\ tx \in [Sessions -> Request]
  /\ level \in [Sessions -> [Variants -> PendingLevel]]
  /\ bill \in [Sessions -> InvoiceRow]

(* The requests, as they interleave, have the effect of requests that run  *)
(* one at a time: OrderToCash implements OrderBook.                        *)
Serializable == Spec

(* Every movement's balance_after is the balance before it plus its        *)
(* quantity, and the last one is what is on hand: a ledger kept under the  *)
(* row lock has no lost update.                                            *)
LedgerChained ==
  \A v \in Variants :
    LET l == ledger[v]
        Before(n) == IF n = 1 THEN Opening[v] ELSE l[n - 1].balance_after IN
      /\ \A n \in DOMAIN l : l[n].balance_after = Before(n) + l[n].quantity
                              /\ l[n].balance_after >= 0
      /\ onHand[v] = IF l = <<>> THEN Opening[v] ELSE l[Len(l)].balance_after

(* Numbers of documents are given out once and without gaps, although      *)
(* transactions that took one roll back (test_concurrency.py).             *)
NumbersGapless ==
  \A kind \in Numbered :
    /\ \A n \in DOMAIN numbers[kind] : numbers[kind][n] = n
    /\ nextNumber[kind] = Len(numbers[kind]) + 1

(* A payment that was recorded stays: no later step lowers what an invoice *)
(* has received, voids it, or cancels its order.                           *)
PaymentsStand ==
  [][\A i \in DOMAIN invoice : invoice[i].paid > 0 =>
        /\ invoice'[i].paid >= invoice[i].paid
        /\ invoice'[i].status # "void"
        /\ \A o \in Orders : invoice[i].order = o => order'[o].status # "cancelled"]_cashVars

(* Every request ends, although two confirms can lock the same stock rows  *)
(* in opposite orders.                                                     *)
RequestsEnd == \A s \in Sessions : tx[s].op # "idle" ~> tx[s].op = "idle"

(* "A draft never silently confirms at a price the customer did not see"   *)
(* (orders/service.py:457): a line that was priced from the catalog, not   *)
(* agreed in a quote, is confirmed at the catalog's price of that moment.  *)
NoSilentPrice ==
  [][\A s \in Sessions :
       tx[s].at = "sell" /\ tx'[s] # tx[s] /\ tx'[s].op = "confirm" /\ tx[s].order \notin agreed
         => priceList = order[tx[s].order].price]_cashVars
=============================================================================
