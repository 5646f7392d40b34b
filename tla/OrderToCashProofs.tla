------------------------- MODULE OrderToCashProofs -------------------------
(***************************************************************************)
(* What the row locks of OrderToCash are for: the ledger of a stock row    *)
(* chains, the numbers of documents have no gap, and the requests have the *)
(* effect that OrderBook promises, for any orders, carts, requests in      *)
(* progress and bounds, whatever rolls back or deadlocks; and what they    *)
(* can deadlock over.                                                      *)
(***************************************************************************)
EXTENDS OrderToCash, OrderBookProofs, WellFoundedInduction

(* A chain of movements from a balance, and the balance it ends with.      *)
Chain(l, start) ==
  \A n \in DOMAIN l :
    /\ l[n].balance_after = (IF n = 1 THEN start ELSE l[n - 1].balance_after) + l[n].quantity
    /\ l[n].balance_after >= 0
Final(l, start) == IF l = <<>> THEN start ELSE l[Len(l)].balance_after

(* Where a request stands: what it may still do, which invoice it means,   *)
(* and that the line it is at is a line of its order.                      *)
OnOrder(s) == tx[s].op \in {"confirm", "cancel"}
Sound(s) ==
  /\ tx[s].at \in {"order", "find", "sell", "return"} => OnOrder(s)
  /\ tx[s].at = "sell" => tx[s].op = "confirm"
  /\ tx[s].at \in {"find", "return"} => tx[s].op = "cancel"
  /\ tx[s].at = "invoice" => tx[s].op \in {"cancel", "pay"}
  /\ tx[s].at = "number" => tx[s].op \in {"confirm", "pay"}
  /\ OnOrder(s) => tx[s].order \in Orders /\ order[tx[s].order].status # "none"
  /\ tx[s].at = "order" => tx[s].line = 1
  /\ OnOrder(s) /\ tx[s].at \notin {"order", "number", "commit"} => tx[s].line \in DOMAIN Lines[Cart(s)]
  /\ tx[s].invoice # 0 => tx[s].invoice \in DOMAIN invoice
  /\ tx[s].op = "pay" \/ tx[s].at = "invoice" => tx[s].invoice # 0
  /\ tx[s].op = "pay" => tx[s].amount \in Amounts

(* Who is past the first step of a change of an order holds its row.       *)
HasOrder(s) == OnOrder(s) /\ tx[s].at # "order" => Holds(s, OrderKey(tx[s].order))

(* A number that was taken is the next one as long as its row is held.     *)
KindOf(op) == IF op = "confirm" THEN "invoice" ELSE "payment"
HasNumber(s) ==
  /\ tx[s].number # 0 =>
       /\ tx[s].at = "commit" /\ tx[s].op # "cancel"
       /\ Holds(s, SequenceKey(KindOf(tx[s].op)))
       /\ tx[s].number = nextNumber[KindOf(tx[s].op)]
  /\ tx[s].op = "pay" /\ tx[s].at = "commit" => tx[s].number # 0

(* A stock row that a request changed is held by it, and its movements go  *)
(* on from the committed balance.                                          *)
HasStock(s) ==
  \A v \in Variants : Touched(s, v) =>
    /\ Holds(s, LevelKey(v))
    /\ Chain(level[s][v].new, onHand[v])
    /\ level[s][v].onHand = Final(level[s][v].new, onHand[v])

Own(s) == Sound(s) /\ HasOrder(s) /\ HasNumber(s) /\ HasStock(s)

CashInv == CashTypeOK /\ (\A s \in Sessions : Own(s)) /\ LedgerChained /\ NumbersGapless

----------------------------------------------------------------------------
(* Chains of movements.                                                    *)

LEMMA ChainAppend ==
  ASSUME NEW S, NEW l \in Seq(S), NEW m \in S, NEW start \in Int,
         Chain(l, start), m.balance_after = Final(l, start) + m.quantity, m.balance_after >= 0
  PROVE  Chain(Append(l, m), start) /\ Final(Append(l, m), start) = m.balance_after
  <1> DEFINE k == Append(l, m)
  <1>1. /\ k \in Seq(S) /\ Len(l) \in Nat /\ Len(k) = Len(l) + 1 /\ DOMAIN k = 1..Len(k)
        /\ DOMAIN l = 1..Len(l)
        /\ k[Len(k)] = m /\ \A n \in 1..Len(l) : k[n] = l[n]
    BY AppendProperties, LenProperties
  <1>2. k # <<>> /\ Final(k, start) = m.balance_after
    BY <1>1, EmptySeq DEF Final
  <1>3. ASSUME NEW n \in DOMAIN k
        PROVE  /\ k[n].balance_after = (IF n = 1 THEN start ELSE k[n - 1].balance_after) + k[n].quantity
               /\ k[n].balance_after >= 0
    <2>1. CASE n \in 1..Len(l)
      <3>1. k[n] = l[n] /\ (n # 1 => n - 1 \in 1..Len(l) /\ k[n - 1] = l[n - 1])
        BY <1>1, <2>1
      <3>2. QED
        BY <1>1, <2>1, <3>1 DEF Chain
    <2>2. CASE n = Len(l) + 1
      <3>1. k[n] = m
        BY <1>1, <2>2
      <3>2. CASE l = <<>>
        BY <1>1, <2>2, <3>1, <3>2 DEF Final
      <3>3. CASE l # <<>>
        <4>1. Len(l) \in 1..Len(l)
          BY <1>1, <3>3, EmptySeq
        <4>2. n # 1 /\ k[n - 1] = l[Len(l)]
          BY <1>1, <2>2, <4>1
        <4>3. QED
          BY <3>1, <3>3, <4>2 DEF Final
      <3>4. QED
        BY <3>2, <3>3
    <2>3. QED
      BY <1>1, <2>1, <2>2
  <1>4. QED
    BY <1>2, <1>3 DEF Chain

LEMMA ChainJoined ==
  ASSUME NEW S, NEW l \in Seq(S), NEW k \in Seq(S), NEW start \in Int,
         Chain(l, start), k # <<>>, Chain(k, Final(l, start))
  PROVE  Chain(l \o k, start) /\ Final(l \o k, start) = Final(k, Final(l, start))
  <1> DEFINE b == l \o k
  <1>1. /\ b \in Seq(S) /\ Len(l) \in Nat /\ Len(k) \in Nat /\ Len(b) = Len(l) + Len(k)
        /\ DOMAIN b = 1..Len(b) /\ DOMAIN l = 1..Len(l) /\ DOMAIN k = 1..Len(k)
        /\ \A n \in 1..Len(b) : b[n] = IF n <= Len(l) THEN l[n] ELSE k[n - Len(l)]
    BY ConcatProperties, LenProperties
  <1>2. Len(k) > 0 /\ b # <<>>
    BY <1>1, EmptySeq
  <1>3. Final(b, start) = Final(k, Final(l, start))
    BY <1>1, <1>2 DEF Final
  <1>4. ASSUME NEW n \in DOMAIN b
        PROVE  /\ b[n].balance_after = (IF n = 1 THEN start ELSE b[n - 1].balance_after) + b[n].quantity
               /\ b[n].balance_after >= 0
    <2>1. CASE n <= Len(l)
      <3>1. n \in DOMAIN l /\ b[n] = l[n] /\ (n # 1 => n - 1 \in 1..Len(l) /\ b[n - 1] = l[n - 1])
        BY <1>1, <2>1
      <3>2. QED
        BY <3>1 DEF Chain
    <2>2. CASE n = Len(l) + 1
      <3>1. 1 \in DOMAIN k /\ b[n] = k[1]
        BY <1>1, <1>2, <2>2
      <3>2. /\ k[1].balance_after = Final(l, start) + k[1].quantity
            /\ k[1].balance_after >= 0
        BY <3>1 DEF Chain
      <3>3. CASE l = <<>>
        BY <1>1, <2>2, <3>1, <3>2, <3>3 DEF Final
      <3>4. CASE l # <<>>
        <4>1. Len(l) > 0 /\ n # 1 /\ b[n - 1] = l[Len(l)]
          BY <1>1, <2>2, <3>4, EmptySeq
        <4>2. QED
          BY <3>1, <3>2, <3>4, <4>1 DEF Final
      <3>5. QED
        BY <3>3, <3>4
    <2>3. CASE n > Len(l) + 1
      <3>1. /\ n - Len(l) \in DOMAIN k /\ n - Len(l) # 1 /\ n # 1
            /\ b[n] = k[n - Len(l)] /\ b[n - 1] = k[(n - Len(l)) - 1]
        BY <1>1, <2>3
      <3>2. QED
        BY <3>1 DEF Chain
    <2>4. QED
      BY <1>1, <2>1, <2>2, <2>3
  <1>5. QED
    BY <1>3, <1>4 DEF Chain

LEMMA LedgerIsChain ==
  LedgerChained <=>
    \A v \in Variants : Chain(ledger[v], Opening[v]) /\ onHand[v] = Final(ledger[v], Opening[v])
  BY DEF LedgerChained, Chain, Final

----------------------------------------------------------------------------
(* What a step of one request leaves to another.                           *)

LEMMA Typed ==
  ASSUME CashTypeOK
  PROVE  /\ order \in [Orders -> OrderRow] /\ onHand \in [Variants -> Nat]
         /\ tx \in [Sessions -> Request] /\ lock \in [Lockable -> Sessions \cup {Free}]
         /\ level \in [Sessions -> [Variants -> PendingLevel]]
         /\ bill \in [Sessions -> InvoiceRow]
         /\ \A s \in Sessions :
              /\ tx[s] \in Request
              /\ level[s] \in [Variants -> PendingLevel]
              /\ \A v \in Variants : level[s][v] \in PendingLevel
         /\ \A o \in Orders : order[o] \in OrderRow /\ order[o].cart \in Carts
  BY DEF CashTypeOK, TypeOK, OrderRow

LEMMA LockKeys ==
  /\ \A o \in Orders : OrderKey(o) \in Lockable
  /\ \A v \in Variants : LevelKey(v) \in Lockable
  /\ SequenceKey("invoice") \in Lockable /\ SequenceKey("payment") \in Lockable
  BY DEF Lockable

(* Nothing that t relies on is changed.                                    *)
Spared(t) ==
  /\ tx'[t] = tx[t] /\ level'[t] = level[t] /\ bill'[t] = bill[t]
  /\ \A r \in Lockable : Holds(t, r) => lock'[r] = t
  /\ \A o \in Orders :
       /\ order[o].status # "none" => order'[o].status # "none"
       /\ Holds(t, OrderKey(o)) /\ order[o].status # "none" => order'[o].cart = order[o].cart
  /\ DOMAIN invoice \subseteq DOMAIN invoice'
  /\ \A kind \in Numbered : Holds(t, SequenceKey(kind)) => nextNumber'[kind] = nextNumber[kind]
  /\ \A v \in Variants : Holds(t, LevelKey(v)) => onHand'[v] = onHand[v]

LEMMA SparedKeeps == ASSUME CashTypeOK, NEW t \in Sessions, Own(t), Spared(t) PROVE Own(t)'
  <1>1. Sound(t)'
    BY Typed, LockKeys DEF Own, Sound, HasOrder, Spared, OnOrder, Cart, Holds
  <1>2. HasOrder(t)'
    BY Typed, LockKeys DEF Own, Sound, HasOrder, Spared, OnOrder, Holds
  <1>3. HasNumber(t)'
    BY Typed, LockKeys DEF Own, HasNumber, Spared, Holds, KindOf, Numbered
  <1>4. HasStock(t)'
    BY Typed, LockKeys DEF Own, HasStock, Spared, Holds, Touched
  <1>5. QED
    BY <1>1, <1>2, <1>3, <1>4 DEF Own

(* A step of s that writes no committed row.                               *)
MovesOn(s) ==
  /\ UNCHANGED rows
  /\ lock' \in [Lockable -> Sessions \cup {Free}]
  /\ tx' \in [Sessions -> Request]
  /\ level' \in [Sessions -> [Variants -> PendingLevel]]
  /\ bill' \in [Sessions -> InvoiceRow]
  /\ \A t \in Sessions : t # s =>
       /\ tx'[t] = tx[t] /\ level'[t] = level[t] /\ bill'[t] = bill[t]
       /\ \A r \in Lockable : Holds(t, r) => lock'[r] = t

LEMMA MovesOnKeeps ==
  ASSUME CashInv, NEW s \in Sessions, MovesOn(s), Own(s)' PROVE CashInv'
  <1>1. CashTypeOK'
    BY DEF CashInv, CashTypeOK, TypeOK, MovesOn, rows
  <1>2. ASSUME NEW t \in Sessions, t # s PROVE Own(t)'
    <2>1. Spared(t)
      BY <1>2 DEF MovesOn, Spared, rows
    <2>2. QED
      BY <2>1, SparedKeeps DEF CashInv
  <1>3. LedgerChained' /\ NumbersGapless'
    BY DEF CashInv, MovesOn, rows, LedgerChained, NumbersGapless
  <1>4. QED
    BY <1>1, <1>2, <1>3 DEF CashInv

LEMMA TakeKeeps ==
  ASSUME CashTypeOK, NEW s \in Sessions, Granted(s), Take(s)
  PROVE  /\ lock' \in [Lockable -> Sessions \cup {Free}]
         /\ Wanted(s) \in Lockable => lock'[Wanted(s)] = s
         /\ \A r \in Lockable : Holds(s, r) => lock'[r] = s
         /\ \A t \in Sessions : t # s => \A r \in Lockable : Holds(t, r) => lock'[r] = t
  BY Typed, SessionAssumption DEF Take, Granted, Holds

LEMMA IdleTyped ==
  /\ Idle \in Request /\ NoBill \in InvoiceRow
  /\ NoLevel \in PendingLevel
  <1>1. NoLevel \in PendingLevel
    BY EmptySeq DEF NoLevel, PendingLevel
  <1>2. QED
    BY <1>1 DEF Idle, Request, NoBill, InvoiceRow, InvoiceStatuses

LEMMA EndKeeps ==
  ASSUME CashTypeOK, NEW s \in Sessions, End(s)
  PROVE  /\ lock' \in [Lockable -> Sessions \cup {Free}]
         /\ tx' \in [Sessions -> Request]
         /\ level' \in [Sessions -> [Variants -> PendingLevel]]
         /\ bill' \in [Sessions -> InvoiceRow]
         /\ Own(s)'
         /\ \A t \in Sessions : t # s =>
              /\ tx'[t] = tx[t] /\ level'[t] = level[t] /\ bill'[t] = bill[t]
              /\ \A r \in Lockable : Holds(t, r) => lock'[r] = t
  <1>1. /\ tx' = [tx EXCEPT ![s] = Idle] /\ bill' = [bill EXCEPT ![s] = NoBill]
        /\ level' = [level EXCEPT ![s] = [v \in Variants |-> NoLevel]]
        /\ lock' = [r \in Lockable |-> IF Holds(s, r) THEN Free ELSE lock[r]]
    BY DEF End, Released
  <1>2. lock' \in [Lockable -> Sessions \cup {Free}]
    BY <1>1, Typed
  <1>3. tx' \in [Sessions -> Request] /\ bill' \in [Sessions -> InvoiceRow]
        /\ level' \in [Sessions -> [Variants -> PendingLevel]]
    BY <1>1, Typed, IdleTyped
  <1>4. tx'[s] = Idle /\ \A v \in Variants : level'[s][v] = NoLevel
    BY <1>1, Typed
  <1>5. Sound(s)' /\ HasOrder(s)' /\ HasNumber(s)'
    BY <1>4 DEF Sound, HasOrder, HasNumber, OnOrder, Idle
  <1>6. HasStock(s)'
    BY <1>4 DEF HasStock, Touched, NoLevel
  <1>7. \A t \in Sessions : t # s =>
          /\ tx'[t] = tx[t] /\ level'[t] = level[t] /\ bill'[t] = bill[t]
          /\ \A r \in Lockable : Holds(t, r) => lock'[r] = t
    BY <1>1, Typed DEF Holds
  <1>8. QED
    BY <1>2, <1>3, <1>5, <1>6, <1>7 DEF Own

LEMMA RollbackKeeps == ASSUME CashInv, NEW s \in Sessions, Rollback(s) PROVE MovesOn(s) /\ Own(s)'
  BY EndKeeps DEF Rollback, MovesOn, CashInv

----------------------------------------------------------------------------
(* Lines of an order and the movements they make.                          *)

LEMMA LinesTyped ==
  ASSUME NEW c \in Carts
  PROVE  /\ Lines[c] \in Seq([variant : Variants, quantity : Nat \ {0}])
         /\ Len(Lines[c]) \in Nat \ {0} /\ DOMAIN Lines[c] = 1..Len(Lines[c])
         /\ \A n \in DOMAIN Lines[c] : Lines[c][n].variant \in Variants /\ Lines[c][n].quantity \in Nat \ {0}
  <1>1. Lines[c] \in Seq([variant : Variants, quantity : Nat \ {0}]) /\ Lines[c] # <<>>
    BY CartAssumption, LinesAssumption
  <1>2. Len(Lines[c]) \in Nat \ {0} /\ DOMAIN Lines[c] = 1..Len(Lines[c])
    BY <1>1, EmptySeq, LenProperties
  <1>3. \A n \in DOMAIN Lines[c] : Lines[c][n] \in [variant : Variants, quantity : Nat \ {0}]
    BY <1>1, <1>2, ElementOfSeq
  <1>4. QED
    BY <1>1, <1>2, <1>3

LEMMA LineTyped ==
  ASSUME CashTypeOK, NEW s \in Sessions, Sound(s), tx[s].at \in {"sell", "return"}
  PROVE  /\ tx[s].order \in Orders /\ Cart(s) \in Carts
         /\ tx[s].line \in DOMAIN Lines[Cart(s)] /\ tx[s].line \in Nat \ {0}
         /\ Line(s).variant \in Variants /\ Line(s).quantity \in Nat \ {0}
  <1>1. tx[s].order \in Orders /\ tx[s].line \in DOMAIN Lines[Cart(s)]
    BY DEF Sound
  <1>2. Cart(s) \in Carts
    BY <1>1, Typed DEF Cart
  <1>3. QED
    BY <1>1, <1>2, LinesTyped DEF Line

LEMMA AfterLinesTyped ==
  ASSUME CashTypeOK, NEW s \in Sessions, Sound(s), tx[s].at \in {"sell", "return"},
         NEW next \in AfterLines(s)
  PROVE  /\ next \in Request
         /\ next.op = tx[s].op /\ next.order = tx[s].order /\ next.invoice = tx[s].invoice
         /\ next.number = tx[s].number /\ next.amount = tx[s].amount
         /\ \/ next.at = tx[s].at /\ next.line \in DOMAIN Lines[Cart(s)]
            \/ next.at = "number" /\ next.op = "confirm"
            \/ next.at = "commit"
  <1>1. tx[s] \in Request
    BY Typed
  <1>2. CASE tx[s].line < Len(Lines[Cart(s)])
    <2>1. next = [tx[s] EXCEPT !.line = @ + 1]
      BY <1>2 DEF AfterLines
    <2>2. tx[s].line + 1 \in DOMAIN Lines[Cart(s)]
      BY <1>2, LineTyped, LinesTyped
    <2>3. QED
      BY <1>1, <2>1, <2>2 DEF Request
  <1>3. CASE ~(tx[s].line < Len(Lines[Cart(s)]))
    <2>1. PICK at : /\ next = [tx[s] EXCEPT !.line = 0, !.at = at]
                    /\ at = "commit" \/ (at = "number" /\ tx[s].op = "confirm")
      BY <1>3 DEF AfterLines
    <2>2. QED
      BY <1>1, <2>1 DEF Request
  <1>4. QED
    BY <1>2, <1>3

LEMMA LockedLevelChains ==
  ASSUME CashTypeOK, NEW s \in Sessions, HasStock(s), NEW v \in Variants
  PROVE  /\ LockedLevel(s, v) \in PendingLevel
         /\ Chain(LockedLevel(s, v).new, onHand[v])
         /\ LockedLevel(s, v).onHand = Final(LockedLevel(s, v).new, onHand[v])
  <1>1. CASE Touched(s, v)
    BY <1>1, Typed DEF LockedLevel, HasStock
  <1>2. CASE ~Touched(s, v)
    <2>1. LockedLevel(s, v) = [onHand |-> onHand[v], new |-> <<>>]
      BY <1>2 DEF LockedLevel, CommittedLevel
    <2>2. <<>> \in Seq([id : Move, quantity : Int, balance_after : Nat]) /\ DOMAIN <<>> = {}
      BY EmptySeq, LenProperties
    <2>3. Chain(<<>>, onHand[v]) /\ Final(<<>>, onHand[v]) = onHand[v]
      BY <2>2 DEF Chain, Final
    <2>4. QED
      BY <2>1, <2>2, <2>3, Typed DEF PendingLevel
  <1>3. QED
    BY <1>1, <1>2

LEMMA MovedChains ==
  ASSUME CashTypeOK, NEW s \in Sessions, HasStock(s), NEW v \in Variants,
         NEW id \in Move, NEW q \in Int, LockedLevel(s, v).onHand + q >= 0
  PROVE  LET row == Moved(LockedLevel(s, v), id, q) IN
         /\ row \in PendingLevel /\ row.new # <<>>
         /\ Chain(row.new, onHand[v]) /\ row.onHand = Final(row.new, onHand[v])
  <1> DEFINE was == LockedLevel(s, v)
             S == [id : Move, quantity : Int, balance_after : Nat]
             m == Movement(id, q, was.onHand + q)
  <1>1. was \in PendingLevel /\ Chain(was.new, onHand[v]) /\ was.onHand = Final(was.new, onHand[v])
    BY LockedLevelChains
  <1>2. was.new \in Seq(S) /\ was.onHand \in Nat /\ was.onHand + q \in Nat
    BY <1>1 DEF PendingLevel
  <1>3. m \in S /\ m.balance_after = was.onHand + m.quantity /\ m.balance_after = was.onHand + q
    BY <1>2 DEF Movement
  <1>4. onHand[v] \in Int
    BY Typed
  <1> HIDE DEF was, m
  <1>5. Chain(Append(was.new, m), onHand[v]) /\ Final(Append(was.new, m), onHand[v]) = m.balance_after
    <2>1. m.balance_after = Final(was.new, onHand[v]) + m.quantity /\ m.balance_after >= 0
      BY <1>1, <1>2, <1>3
    <2> HIDE DEF S
    <2>2. QED
      BY <1>1, <1>2, <1>3, <1>4, <2>1, ChainAppend
  <1>6. Append(was.new, m) \in Seq(S) /\ Append(was.new, m) # <<>>
    BY <1>2, <1>3, AppendProperties
  <1>7. Moved(was, id, q) = [onHand |-> was.onHand + q, new |-> Append(was.new, m)]
    BY DEF Moved, m
  <1>8. QED
    BY <1>2, <1>3, <1>5, <1>6, <1>7 DEF PendingLevel, was

----------------------------------------------------------------------------
(* The steps of a request, but for its commit.                             *)

LEMMA GoToTyped ==
  ASSUME CashTypeOK, NEW s \in Sessions,
         NEW at \in {"sell", "number", "find", "invoice", "return", "commit"}, GoTo(s, at)
  PROVE  /\ tx' \in [Sessions -> Request] /\ tx'[s] = [tx[s] EXCEPT !.at = at] /\ tx'[s] \in Request
         /\ tx'[s].op = tx[s].op /\ tx'[s].at = at /\ tx'[s].order = tx[s].order /\ tx'[s].line = tx[s].line
         /\ tx'[s].number = tx[s].number /\ tx'[s].invoice = tx[s].invoice /\ tx'[s].amount = tx[s].amount
         /\ \A t \in Sessions : t # s => tx'[t] = tx[t]
  <1>1. tx[s] \in Request /\ tx' = [tx EXCEPT ![s] = [tx[s] EXCEPT !.at = at]]
    BY Typed DEF GoTo
  <1>2. [tx[s] EXCEPT !.at = at] \in Request
    BY <1>1 DEF Request
  <1>3. tx'[s] = [tx[s] EXCEPT !.at = at] /\ tx' \in [Sessions -> Request]
        /\ \A t \in Sessions : t # s => tx'[t] = tx[t]
    BY <1>1, <1>2, Typed
  <1>4. QED
    BY <1>1, <1>2, <1>3 DEF Request

LEMMA BeginKeeps == ASSUME CashInv, NEW s \in Sessions, Begin(s) PROVE MovesOn(s) /\ Own(s)'
  <1>1. tx[s].op = "idle" /\ UNCHANGED <<rows, lock, level, bill>> /\ HasStock(s)
    BY DEF Begin, BeginOrder, BeginPayment, CashInv, Own
  <1>2. CashTypeOK
    BY DEF CashInv
  <1>3. HasStock(s)'
    BY <1>1 DEF HasStock, Holds, Touched, rows
  <1>4. ASSUME NEW op \in {"confirm", "cancel"}, NEW o \in Orders, BeginOrder(s, op, o) PROVE MovesOn(s) /\ Own(s)'
    <2> DEFINE r == [Idle EXCEPT !.op = op, !.at = "order", !.order = o, !.line = 1]
    <2>1. r \in Request /\ r.op = op /\ r.at = "order" /\ r.order = o /\ r.line = 1 /\ r.invoice = 0 /\ r.number = 0
      BY DEF Idle, Request
    <2>2. tx' = [tx EXCEPT ![s] = r] /\ order[o].status # "none"
      BY <1>4 DEF BeginOrder
    <2> HIDE DEF r
    <2>3. tx'[s] = r /\ MovesOn(s)
      BY <1>1, <1>2, <2>1, <2>2, Typed DEF MovesOn, Holds
    <2>4. Sound(s)' /\ HasOrder(s)' /\ HasNumber(s)'
      BY <1>1, <2>1, <2>2, <2>3 DEF Sound, HasOrder, HasNumber, OnOrder, rows
    <2>5. QED
      BY <1>3, <2>3, <2>4 DEF Own
  <1>5. ASSUME NEW i \in DOMAIN invoice, NEW amount \in Amounts, NEW key \in Keys \cup {NoKey},
               BeginPayment(s, i, amount, key)
        PROVE  MovesOn(s) /\ Own(s)'
    <2> DEFINE r == [Idle EXCEPT !.op = "pay", !.at = "invoice", !.invoice = i, !.amount = amount, !.key = key]
    <2>1. i \in Nat /\ i # 0
      BY <1>2, InvoiceRows DEF CashTypeOK
    <2>2. r \in Request /\ r.op = "pay" /\ r.at = "invoice" /\ r.amount = amount /\ r.invoice = i /\ r.number = 0
      BY <2>1 DEF Idle, Request
    <2>3. tx' = [tx EXCEPT ![s] = r]
      BY <1>5 DEF BeginPayment
    <2> HIDE DEF r
    <2>4. tx'[s] = r /\ MovesOn(s)
      BY <1>1, <1>2, <2>2, <2>3, Typed DEF MovesOn, Holds
    <2>5. Sound(s)' /\ HasOrder(s)' /\ HasNumber(s)'
      BY <1>1, <2>1, <2>2, <2>4 DEF Sound, HasOrder, HasNumber, OnOrder, rows
    <2>6. QED
      BY <1>3, <2>4, <2>5 DEF Own
  <1>6. QED
    BY <1>4, <1>5 DEF Begin

LEMMA LockOrderKeeps == ASSUME CashInv, NEW s \in Sessions, LockOrder(s) PROVE MovesOn(s) /\ Own(s)'
  <1>1. CashTypeOK /\ Own(s) /\ tx[s].at = "order" /\ Granted(s)
    BY DEF CashInv, LockOrder
  <1>2. CASE Rollback(s)
    BY <1>2, RollbackKeeps
  <1>3. CASE ~Rollback(s)
    <2> DEFINE at == IF tx[s].op = "confirm" THEN "sell" ELSE "find"
    <2>1. Take(s) /\ GoTo(s, at) /\ UNCHANGED <<rows, level, bill>>
      BY <1>3 DEF LockOrder
    <2>2. tx'[s] = [tx[s] EXCEPT !.at = at] /\ tx'[s] \in Request /\ tx' \in [Sessions -> Request]
          /\ \A t \in Sessions : t # s => tx'[t] = tx[t]
      <3>1. at \in {"sell", "find"}
        OBVIOUS
      <3> HIDE DEF at
      <3>2. QED
        BY <1>1, <2>1, <3>1, GoToTyped
    <2>3. MovesOn(s)
      BY <1>1, <2>1, <2>2, Typed, TakeKeeps DEF MovesOn
    <2>4. OnOrder(s) /\ tx[s].order \in Orders /\ order[tx[s].order].status # "none"
          /\ tx[s].line = 1 /\ tx[s].number = 0
      BY <1>1 DEF Own, Sound, HasNumber
    <2>5. Wanted(s) = OrderKey(tx[s].order) /\ Wanted(s) \in Lockable
      BY <1>1, <2>4, LockKeys DEF Wanted
    <2>6. /\ tx'[s].op = tx[s].op /\ tx'[s].at = at /\ tx'[s].order = tx[s].order /\ tx'[s].line = 1
          /\ tx'[s].number = 0 /\ tx'[s].invoice = tx[s].invoice
      BY <1>1, <2>2, <2>4, Typed DEF Request
    <2>7. 1 \in DOMAIN Lines[order[tx[s].order].cart]
      BY <1>1, <2>4, Typed, LinesTyped
    <2>8. Sound(s)'
      BY <1>1, <2>1, <2>4, <2>6, <2>7 DEF Own, Sound, OnOrder, Cart, rows
    <2>9. HasOrder(s)' /\ HasNumber(s)'
      BY <1>1, <2>1, <2>5, <2>6, TakeKeeps DEF HasOrder, HasNumber, Holds
    <2>10. HasStock(s)'
      BY <1>1, <2>1, TakeKeeps, LockKeys DEF Own, HasStock, Holds, Touched, rows
    <2>11. QED
      BY <2>3, <2>8, <2>9, <2>10 DEF Own
  <1>4. QED
    BY <1>2, <1>3

(* After a line: its stock row is as it was, or is locked and has moved.   *)
LEMMA LineKeeps ==
  ASSUME CashInv, NEW s \in Sessions, tx[s].at \in {"sell", "return"},
         NEW next \in AfterLines(s), tx' = [tx EXCEPT ![s] = next], UNCHANGED rows, bill' = bill,
         NEW v \in Variants, v = Line(s).variant, NEW row,
         \/ UNCHANGED <<lock, level>>
         \/ /\ Granted(s) /\ Take(s) /\ level' = [level EXCEPT ![s][v] = row]
            /\ row \in PendingLevel /\ row.new # <<>>
            /\ Chain(row.new, onHand[v]) /\ row.onHand = Final(row.new, onHand[v])
  PROVE  MovesOn(s) /\ Own(s)'
  <1>1. CashTypeOK /\ Own(s) /\ Sound(s)
    BY DEF CashInv, Own
  <1>2. Wanted(s) = LevelKey(v) /\ Wanted(s) \in Lockable
    BY LockKeys DEF Wanted
  <1>3. /\ lock' \in [Lockable -> Sessions \cup {Free}]
        /\ \A r \in Lockable : Holds(s, r) => lock'[r] = s
        /\ \A t \in Sessions : t # s => \A r \in Lockable : Holds(t, r) => lock'[r] = t
    BY <1>1, Typed, TakeKeeps DEF Holds
  <1>4. /\ level' \in [Sessions -> [Variants -> PendingLevel]]
        /\ \A t \in Sessions : t # s => level'[t] = level[t]
        /\ \A u \in Variants : u # v => level'[s][u] = level[s][u]
    <2>1. CASE level' = level
      BY <1>1, <2>1, Typed
    <2>2. CASE level' # level
      <3>1. row \in PendingLevel /\ level' = [level EXCEPT ![s] = [level[s] EXCEPT ![v] = row]]
        BY <2>2
      <3>2. [level[s] EXCEPT ![v] = row] \in [Variants -> PendingLevel]
        BY <1>1, <3>1, Typed
      <3>3. QED
        BY <1>1, <3>1, <3>2, Typed
    <2>3. QED
      BY <2>1, <2>2
  <1>5. next \in Request /\ tx'[s] = next /\ tx' \in [Sessions -> Request]
        /\ \A t \in Sessions : t # s => tx'[t] = tx[t]
    BY <1>1, Typed, AfterLinesTyped
  <1>6. MovesOn(s)
    BY <1>1, <1>3, <1>4, <1>5, Typed DEF MovesOn
  <1>7. Sound(s)' /\ HasOrder(s)' /\ HasNumber(s)'
    <2>1. /\ next.op = tx[s].op /\ next.order = tx[s].order /\ next.invoice = tx[s].invoice
          /\ next.number = 0 /\ next.op \in {"confirm", "cancel"}
          /\ next.op = "confirm" <=> tx[s].at = "sell"
          /\ \/ next.at = tx[s].at /\ next.line \in DOMAIN Lines[Cart(s)]
             \/ next.at = "number" /\ next.op = "confirm"
             \/ next.at = "commit"
      BY <1>1, AfterLinesTyped DEF Own, HasNumber, Sound, OnOrder
    <2>2. tx[s].order \in Orders /\ order[tx[s].order].status # "none" /\ Cart(s)' = order[tx[s].order].cart
          /\ lock'[OrderKey(tx[s].order)] = s
      BY <1>1, <1>3, <1>5, <2>1, LockKeys DEF Sound, Own, HasOrder, OnOrder, Cart, rows
    <2>3. Sound(s)'
      BY <1>1, <1>5, <2>1, <2>2 DEF Sound, OnOrder, Cart, rows
    <2>4. QED
      BY <1>5, <2>1, <2>2, <2>3 DEF HasOrder, HasNumber, OnOrder, Holds
  <1>8. HasStock(s)'
    <2>1. ASSUME NEW u \in Variants, u # v, Touched(s, u)'
          PROVE  (Holds(s, LevelKey(u)) /\ Chain(level[s][u].new, onHand[u])
                    /\ level[s][u].onHand = Final(level[s][u].new, onHand[u]))'
      BY <1>1, <1>3, <1>4, <2>1, LockKeys DEF Own, HasStock, Touched, Holds, rows
    <2>2. ASSUME Touched(s, v)'
          PROVE  (Holds(s, LevelKey(v)) /\ Chain(level[s][v].new, onHand[v])
                    /\ level[s][v].onHand = Final(level[s][v].new, onHand[v]))'
      <3>1. CASE UNCHANGED <<lock, level>>
        BY <1>1, <2>2, <3>1 DEF Own, HasStock, Touched, Holds, rows
      <3>2. CASE ~UNCHANGED <<lock, level>>
        <4>1. level'[s][v] = row /\ lock'[LevelKey(v)] = s
          BY <1>1, <1>2, <3>2, Typed, TakeKeeps
        <4>2. QED
          BY <3>2, <4>1 DEF Holds, rows
      <3>3. QED
        BY <3>1, <3>2
    <2>3. QED
      BY <2>1, <2>2 DEF HasStock
  <1>9. QED
    BY <1>6, <1>7, <1>8 DEF Own

LEMMA SellLineKeeps == ASSUME CashInv, NEW s \in Sessions, SellLine(s) PROVE MovesOn(s) /\ Own(s)'
  <1> DEFINE v == Line(s).variant
             sold == Moved(LockedLevel(s, v), Sale(tx[s].order, tx[s].line), -Line(s).quantity)
  <1>1. CashTypeOK /\ Own(s) /\ Sound(s) /\ tx[s].at = "sell" /\ tx[s].op = "confirm"
    BY DEF CashInv, SellLine, Own, Sound
  <1>2. CASE Rollback(s)
    BY <1>2, RollbackKeeps
  <1>3. CASE ~Rollback(s)
    <2>1. PICK next \in AfterLines(s) : tx' = [tx EXCEPT ![s] = next]
      BY <1>3 DEF SellLine
    <2>2. UNCHANGED rows /\ bill' = bill
      BY <1>3 DEF SellLine, rows
    <2>3. \/ UNCHANGED <<lock, level>>
          \/ Granted(s) /\ Take(s) /\ ~Short(sold) /\ level' = [level EXCEPT ![s][v] = sold]
      BY <1>3 DEF SellLine
    <2>4. v \in Variants /\ Sale(tx[s].order, tx[s].line) \in Move /\ -Line(s).quantity \in Int
      BY <1>1, LineTyped DEF Move, Sale
    <2>5. CASE UNCHANGED <<lock, level>>
      BY <1>1, <2>1, <2>2, <2>4, <2>5, LineKeeps
    <2>6. CASE ~UNCHANGED <<lock, level>>
      <3>1. LockedLevel(s, v).onHand + -Line(s).quantity >= 0
        BY <1>1, <2>3, <2>4, <2>6, LockedLevelChains DEF Short, Moved, PendingLevel, Own
      <3>2. /\ sold \in PendingLevel /\ sold.new # <<>>
            /\ Chain(sold.new, onHand[v]) /\ sold.onHand = Final(sold.new, onHand[v])
        BY <1>1, <2>4, <3>1, MovedChains DEF Own
      <3> HIDE DEF sold
      <3>3. QED
        BY <1>1, <2>1, <2>2, <2>3, <2>4, <2>6, <3>2, LineKeeps
    <2>7. QED
      BY <2>5, <2>6
  <1>4. QED
    BY <1>2, <1>3

LEMMA ReturnLineKeeps == ASSUME CashInv, NEW s \in Sessions, ReturnLine(s) PROVE MovesOn(s) /\ Own(s)'
  <1> DEFINE v == Line(s).variant
             give == Moved(LockedLevel(s, v), Return(tx[s].order, tx[s].line), Line(s).quantity)
  <1>1. CashTypeOK /\ Own(s) /\ Sound(s) /\ tx[s].at = "return" /\ UNCHANGED rows /\ bill' = bill
    BY DEF CashInv, ReturnLine, Own
  <1>2. PICK next \in AfterLines(s) : tx' = [tx EXCEPT ![s] = next]
    BY DEF ReturnLine
  <1>3. \/ UNCHANGED <<lock, level>>
        \/ Granted(s) /\ Take(s) /\ level' = [level EXCEPT ![s][v] = give]
    BY DEF ReturnLine
  <1>4. v \in Variants /\ Return(tx[s].order, tx[s].line) \in Move /\ Line(s).quantity \in Nat
    BY <1>1, LineTyped DEF Move, Return
  <1>5. LockedLevel(s, v).onHand + Line(s).quantity >= 0
    BY <1>1, <1>4, LockedLevelChains DEF PendingLevel, Own
  <1>6. /\ give \in PendingLevel /\ give.new # <<>>
        /\ Chain(give.new, onHand[v]) /\ give.onHand = Final(give.new, onHand[v])
    BY <1>1, <1>4, <1>5, MovedChains DEF Own
  <1> HIDE DEF give
  <1>7. QED
    BY <1>1, <1>2, <1>3, <1>4, <1>6, LineKeeps

LEMMA FindInvoiceKeeps == ASSUME CashInv, NEW s \in Sessions, FindInvoice(s) PROVE MovesOn(s) /\ Own(s)'
  <1>1. /\ CashTypeOK /\ Own(s) /\ Sound(s) /\ tx[s].at = "find" /\ tx[s].op = "cancel" /\ tx[s].number = 0
        /\ UNCHANGED <<rows, lock, level, bill>>
    BY DEF CashInv, FindInvoice, Own, Sound, HasNumber
  <1>2. PICK i, at : /\ tx' = [tx EXCEPT ![s] = [tx[s] EXCEPT !.invoice = i, !.at = at]]
                     /\ at \in {"invoice", "return", "commit"}
                     /\ i = tx[s].invoice \/ i \in DOMAIN invoice
                     /\ at = "invoice" => i \in DOMAIN invoice
    <2>1. CASE GoTo(s, AfterInvoice(s))
      <3>1. tx' = [tx EXCEPT ![s] = [tx[s] EXCEPT !.invoice = tx[s].invoice, !.at = AfterInvoice(s)]]
        BY <1>1, <2>1, Typed DEF GoTo, Request
      <3>2. AfterInvoice(s) \in {"return", "commit"}
        BY DEF AfterInvoice
      <3>3. QED
        BY <3>1, <3>2
    <2>2. CASE ~GoTo(s, AfterInvoice(s))
      <3>1. PICK i \in DOMAIN invoice : tx' = [tx EXCEPT ![s].invoice = i, ![s].at = "invoice"]
        BY <2>2 DEF FindInvoice
      <3>2. tx' = [tx EXCEPT ![s] = [tx[s] EXCEPT !.invoice = i, !.at = "invoice"]]
        BY <1>1, <3>1, Typed
      <3>3. QED
        BY <3>2
    <2>3. QED
      BY <2>1, <2>2
  <1>3. i \in Nat /\ (i \in DOMAIN invoice => i # 0)
    BY <1>1, <1>2, Typed, InvoiceRows DEF Request, CashTypeOK
  <1>4. /\ tx'[s] = [tx[s] EXCEPT !.invoice = i, !.at = at] /\ tx' \in [Sessions -> Request]
        /\ \A t \in Sessions : t # s => tx'[t] = tx[t]
    <2>1. [tx[s] EXCEPT !.invoice = i, !.at = at] \in Request
      BY <1>1, <1>2, <1>3, Typed DEF Request
    <2>2. QED
      BY <1>1, <1>2, <2>1, Typed
  <1>5. /\ tx'[s].op = "cancel" /\ tx'[s].order = tx[s].order /\ tx'[s].line = tx[s].line
        /\ tx'[s].number = 0 /\ tx'[s].invoice = i /\ tx'[s].at = at
    BY <1>1, <1>4, Typed DEF Request
  <1>6. MovesOn(s)
    BY <1>1, <1>4, Typed DEF MovesOn, Holds
  <1>7. Sound(s)'
    BY <1>1, <1>2, <1>3, <1>5 DEF Sound, OnOrder, Cart, rows
  <1>8. HasOrder(s)' /\ HasNumber(s)' /\ HasStock(s)'
    BY <1>1, <1>2, <1>5 DEF Own, HasOrder, HasNumber, HasStock, Holds, OnOrder, Touched, rows
  <1>9. QED
    BY <1>6, <1>7, <1>8 DEF Own

LEMMA VoidInvoiceKeeps == ASSUME CashInv, NEW s \in Sessions, VoidInvoice(s) PROVE MovesOn(s) /\ Own(s)'
  <1>1. CashTypeOK /\ Own(s) /\ Sound(s) /\ tx[s].at = "invoice" /\ tx[s].op = "cancel" /\ Granted(s)
        /\ tx[s].number = 0 /\ tx[s].invoice \in DOMAIN invoice
    BY DEF CashInv, VoidInvoice, Own, Sound, HasNumber
  <1>2. CASE Rollback(s)
    BY <1>2, RollbackKeeps
  <1>3. CASE ~Rollback(s)
    <2> DEFINE at == AfterInvoice(s)
               row == [invoice[tx[s].invoice] EXCEPT !.status = "void"]
    <2>1. Take(s) /\ bill' = [bill EXCEPT ![s] = row] /\ GoTo(s, at) /\ UNCHANGED <<rows, level>>
      BY <1>3 DEF VoidInvoice
    <2>2. row \in InvoiceRow
      BY <1>1, InvoiceRows DEF CashTypeOK, InvoiceRow, InvoiceStatuses
    <2>3. at \in {"return", "commit"}
      BY DEF AfterInvoice
    <2> HIDE DEF at, row
    <2>4. MovesOn(s)
      BY <1>1, <2>1, <2>2, <2>3, Typed, GoToTyped, TakeKeeps DEF MovesOn
    <2>5. /\ tx'[s].op = "cancel" /\ tx'[s].order = tx[s].order /\ tx'[s].line = tx[s].line
          /\ tx'[s].number = 0 /\ tx'[s].invoice = tx[s].invoice /\ tx'[s].at = at
      BY <1>1, <2>1, <2>3, GoToTyped
    <2>6. Sound(s)'
      BY <1>1, <2>1, <2>3, <2>5 DEF Sound, OnOrder, Cart, rows
    <2>7. HasOrder(s)' /\ HasNumber(s)' /\ HasStock(s)'
      BY <1>1, <2>1, <2>3, <2>5, TakeKeeps, LockKeys
        DEF Own, Sound, HasOrder, HasNumber, HasStock, Holds, OnOrder, Touched, rows
    <2>8. QED
      BY <2>4, <2>6, <2>7 DEF Own
  <1>4. QED
    BY <1>2, <1>3

LEMMA LockInvoiceKeeps == ASSUME CashInv, NEW s \in Sessions, LockInvoice(s) PROVE MovesOn(s) /\ Own(s)'
  <1>1. CashTypeOK /\ Own(s) /\ Sound(s) /\ tx[s].at = "invoice" /\ tx[s].op = "pay" /\ Granted(s)
        /\ tx[s].number = 0
    BY DEF CashInv, LockInvoice, Own, HasNumber
  <1>2. CASE Rollback(s)
    BY <1>2, RollbackKeeps
  <1>3. CASE ~Rollback(s)
    <2>1. Take(s) /\ GoTo(s, "number") /\ UNCHANGED <<rows, level, bill>>
      BY <1>3 DEF LockInvoice
    <2>2. MovesOn(s)
      BY <1>1, <2>1, Typed, GoToTyped, TakeKeeps DEF MovesOn
    <2>3. /\ tx'[s].op = "pay" /\ tx'[s].number = 0 /\ tx'[s].invoice = tx[s].invoice /\ tx'[s].at = "number"
          /\ tx'[s].amount = tx[s].amount
      BY <1>1, <2>1, GoToTyped
    <2>4. Sound(s)' /\ HasOrder(s)' /\ HasNumber(s)'
      BY <1>1, <2>1, <2>3 DEF Sound, HasOrder, HasNumber, OnOrder, rows
    <2>5. HasStock(s)'
      BY <1>1, <2>1, TakeKeeps, LockKeys DEF Own, HasStock, Holds, Touched, rows
    <2>6. QED
      BY <2>2, <2>4, <2>5 DEF Own
  <1>4. QED
    BY <1>2, <1>3

(* A request that took the number of its document.                         *)
LEMMA NumberTaken ==
  ASSUME CashInv, NEW s \in Sessions, tx[s].at = "number", tx[s].op \in {"confirm", "pay"},
         Granted(s), Take(s), UNCHANGED <<rows, level>>, NEW row \in InvoiceRow, bill' = [bill EXCEPT ![s] = row],
         tx' = [tx EXCEPT ![s].number = nextNumber[KindOf(tx[s].op)], ![s].at = "commit"]
  PROVE  MovesOn(s) /\ Own(s)'
  <1> DEFINE kind == KindOf(tx[s].op)
  <1>1. CashTypeOK /\ Own(s) /\ Sound(s)
    BY DEF CashInv, Own
  <1>2. kind \in Numbered /\ Wanted(s) = SequenceKey(kind) /\ Wanted(s) \in Lockable
    BY LockKeys DEF KindOf, Wanted, Numbered
  <1>3. nextNumber[kind] \in Nat \ {0}
    BY <1>1, <1>2 DEF CashTypeOK
  <1> HIDE DEF kind
  <1>4. /\ tx'[s] = [tx[s] EXCEPT !.number = nextNumber[kind], !.at = "commit"]
        /\ tx' \in [Sessions -> Request] /\ \A t \in Sessions : t # s => tx'[t] = tx[t]
    <2>1. [tx[s] EXCEPT !.number = nextNumber[kind], !.at = "commit"] \in Request
      BY <1>1, <1>3, Typed DEF Request
    <2>2. tx' = [tx EXCEPT ![s] = [tx[s] EXCEPT !.number = nextNumber[kind], !.at = "commit"]]
      BY <1>1, Typed DEF kind
    <2>3. QED
      BY <1>1, <2>1, <2>2, Typed
  <1>5. /\ tx'[s].op = tx[s].op /\ tx'[s].order = tx[s].order /\ tx'[s].invoice = tx[s].invoice
        /\ tx'[s].amount = tx[s].amount /\ tx'[s].number = nextNumber[kind] /\ tx'[s].at = "commit"
    BY <1>1, <1>3, <1>4, Typed DEF Request
  <1>6. MovesOn(s)
    BY <1>1, <1>4, Typed, TakeKeeps DEF MovesOn
  <1>7. Sound(s)'
    BY <1>1, <1>5 DEF Sound, OnOrder, rows
  <1>8. HasOrder(s)' /\ HasStock(s)'
    BY <1>1, <1>5, TakeKeeps, LockKeys DEF Own, Sound, HasOrder, HasStock, Holds, OnOrder, Touched, rows
  <1>9. HasNumber(s)'
    BY <1>1, <1>2, <1>3, <1>5, TakeKeeps DEF HasNumber, Holds, kind, rows
  <1>10. QED
    BY <1>6, <1>7, <1>8, <1>9 DEF Own

LEMMA NumberInvoiceKeeps == ASSUME CashInv, NEW s \in Sessions, NumberInvoice(s) PROVE MovesOn(s) /\ Own(s)'
  <1>1. CashTypeOK /\ Own(s) /\ Sound(s) /\ tx[s].at = "number" /\ tx[s].op = "confirm" /\ UNCHANGED <<rows, level>>
        /\ tx[s].order \in Orders /\ tx[s].number = 0
    BY DEF CashInv, NumberInvoice, Own, Sound, OnOrder, HasNumber
  <1>2. CASE \E i \in DOMAIN invoice : Live(i, tx[s].order)
    <2>1. GoTo(s, "commit") /\ UNCHANGED <<lock, bill>>
      BY <1>2 DEF NumberInvoice
    <2>2. MovesOn(s)
      BY <1>1, <2>1, Typed, GoToTyped DEF MovesOn, Holds
    <2>3. /\ tx'[s].op = "confirm" /\ tx'[s].number = 0 /\ tx'[s].invoice = tx[s].invoice /\ tx'[s].at = "commit"
          /\ tx'[s].order = tx[s].order
      BY <1>1, <2>1, GoToTyped
    <2>4. Sound(s)'
      BY <1>1, <2>1, <2>3 DEF Sound, OnOrder, rows
    <2>5. HasOrder(s)' /\ HasNumber(s)' /\ HasStock(s)'
      BY <1>1, <2>1, <2>3 DEF Own, HasOrder, HasNumber, HasStock, OnOrder, Holds, Touched, rows
    <2>6. QED
      BY <2>2, <2>4, <2>5 DEF Own
  <1>3. CASE ~\E i \in DOMAIN invoice : Live(i, tx[s].order)
    <2>1. NewInvoice(tx[s].order) \in InvoiceRow
      BY <1>1, NewInvoiceTyped DEF CashTypeOK
    <2>2. QED
      BY <1>1, <1>3, <2>1, NumberTaken DEF NumberInvoice, KindOf
  <1>4. QED
    BY <1>2, <1>3

LEMMA InsertPaymentKeeps == ASSUME CashInv, NEW s \in Sessions, InsertPayment(s) PROVE MovesOn(s) /\ Own(s)'
  <1>1. CashTypeOK /\ Sound(s) /\ tx[s].at = "number" /\ tx[s].op = "pay" /\ Granted(s)
        /\ tx[s].invoice \in DOMAIN invoice /\ tx[s].amount \in Amounts
    BY DEF CashInv, InsertPayment, Own, Sound
  <1>2. CASE Rollback(s)
    BY <1>2, RollbackKeeps
  <1>3. CASE ~Rollback(s)
    <2> DEFINE was == invoice[tx[s].invoice]
               row == [was EXCEPT !.paid = was.paid + tx[s].amount,
                                  !.status = IF was.paid + tx[s].amount = was.total THEN "paid" ELSE "partially_paid"]
    <2>1. Take(s) /\ bill' = [bill EXCEPT ![s] = row] /\ UNCHANGED <<rows, level>>
          /\ tx' = [tx EXCEPT ![s].number = nextNumber["payment"], ![s].at = "commit"]
      BY <1>3 DEF InsertPayment
    <2>2. row \in InvoiceRow
      <3>1. was \in InvoiceRow /\ was.paid \in Nat /\ tx[s].amount \in Nat
        BY <1>1, InvoiceRows, AmountAssumption DEF CashTypeOK
      <3>2. was.paid + tx[s].amount \in Nat
        BY <3>1
      <3>3. QED
        BY <3>1, <3>2 DEF InvoiceRow, InvoiceStatuses
    <2> HIDE DEF row
    <2>3. QED
      BY <1>1, <2>1, <2>2, NumberTaken DEF KindOf
  <1>4. QED
    BY <1>2, <1>3

----------------------------------------------------------------------------
(* Commits.                                                                *)

LEMMA CommitStockKeeps ==
  ASSUME CashInv, NEW s \in Sessions, CommitStock(s)
  PROVE  /\ onHand' \in [Variants -> Nat] /\ moves' \subseteq Move
         /\ ledger' \in [Variants -> Seq(LedgerRow)] /\ LedgerChained'
         /\ \A t \in Sessions : t # s => \A v \in Variants : Holds(t, LevelKey(v)) => onHand'[v] = onHand[v]
  <1> DEFINE S == [id : Move, quantity : Int, balance_after : Nat]
  <1>1. CashTypeOK /\ HasStock(s) /\ LedgerChained
    BY DEF CashInv, Own
  <1>2. \A v \in Variants : level[s][v].new \in Seq(S) /\ onHand[v] \in Nat /\ ledger[v] \in Seq(LedgerRow)
    BY <1>1, Typed DEF PendingLevel, CashTypeOK
  <1>3. onHand' \in [Variants -> Nat]
    BY <1>1, LockedLevelChains DEF CommitStock, PendingLevel
  <1>4. moves' \subseteq Move
    <2>1. ASSUME NEW v \in Variants, NEW n \in DOMAIN level[s][v].new PROVE level[s][v].new[n].id \in Move
      <3>1. level[s][v].new[n] \in S
        BY <1>2, LenProperties, ElementOfSeq
      <3>2. QED
        BY <3>1
    <2>2. moves \subseteq Move
      BY <1>1 DEF CashTypeOK, TypeOK
    <2>3. QED
      BY <2>1, <2>2 DEF CommitStock
  <1>5. \A v \in Variants : level[s][v].new \in Seq(LedgerRow)
    <2>1. S \subseteq LedgerRow
      BY DEF LedgerRow
    <2>2. Seq(S) \subseteq Seq(LedgerRow)
      BY <2>1, SeqMonotonic
    <2>3. QED
      BY <1>2, <2>2
  <1>6. ledger' = [v \in Variants |-> ledger[v] \o level[s][v].new]
    BY DEF CommitStock
  <1>7. ledger' \in [Variants -> Seq(LedgerRow)]
    BY <1>2, <1>5, <1>6, ConcatProperties
  <1>8. ASSUME NEW v \in Variants
        PROVE  Chain(ledger'[v], Opening[v]) /\ onHand'[v] = Final(ledger'[v], Opening[v])
    <2>1. Chain(ledger[v], Opening[v]) /\ onHand[v] = Final(ledger[v], Opening[v])
      BY <1>1, LedgerIsChain
    <2>2. ledger'[v] = ledger[v] \o level[s][v].new /\ onHand'[v] = LockedLevel(s, v).onHand
      BY <1>6 DEF CommitStock
    <2>3. CASE Touched(s, v)
      <3>1. /\ level[s][v].new # <<>> /\ Chain(level[s][v].new, onHand[v])
            /\ onHand'[v] = Final(level[s][v].new, onHand[v])
        BY <1>1, <2>2, <2>3 DEF HasStock, Touched, LockedLevel
      <3>2. Opening[v] \in Int
        BY AmountAssumption
      <3>3. QED
        BY <1>2, <1>5, <2>1, <2>2, <3>1, <3>2, ChainJoined
    <2>4. CASE ~Touched(s, v)
      <3>1. ledger'[v] = ledger[v] /\ onHand'[v] = onHand[v]
        BY <1>2, <2>2, <2>4, ConcatEmptySeq DEF Touched, LockedLevel, CommittedLevel
      <3>2. QED
        BY <2>1, <3>1
    <2>5. QED
      BY <2>3, <2>4
  <1>9. LedgerChained'
    <2>1. LedgerChained' <=>
            \A v \in Variants : Chain(ledger'[v], Opening[v]) /\ onHand'[v] = Final(ledger'[v], Opening[v])
      BY DEF LedgerChained, Chain, Final
    <2>2. QED
      BY <1>8, <2>1
  <1>10. ASSUME NEW t \in Sessions, t # s, NEW v \in Variants, Holds(t, LevelKey(v))
         PROVE  onHand'[v] = onHand[v]
    BY <1>1, <1>10 DEF HasStock, Holds, CommitStock, LockedLevel, CommittedLevel
  <1>11. QED
    BY <1>3, <1>4, <1>7, <1>9, <1>10

LEMMA NextNumberKeeps ==
  ASSUME CashTypeOK, NumbersGapless, NEW kind \in Numbered,
         nextNumber' = [nextNumber EXCEPT ![kind] = nextNumber[kind] + 1],
         numbers' = [numbers EXCEPT ![kind] = Append(numbers[kind], nextNumber[kind])]
  PROVE  /\ nextNumber' \in [Numbered -> Nat \ {0}] /\ numbers' \in [Numbered -> Seq(Nat \ {0})]
         /\ NumbersGapless'
         /\ \A k \in Numbered : k # kind => nextNumber'[k] = nextNumber[k]
  <1>1. nextNumber \in [Numbered -> Nat \ {0}] /\ numbers \in [Numbered -> Seq(Nat \ {0})]
    BY DEF CashTypeOK
  <1> DEFINE l == numbers[kind]
             n == nextNumber[kind]
  <1>2. /\ l \in Seq(Nat \ {0}) /\ n \in Nat \ {0} /\ Len(l) \in Nat /\ n = Len(l) + 1
        /\ DOMAIN l = 1..Len(l) /\ \A i \in 1..Len(l) : l[i] = i
    BY <1>1, LenProperties DEF NumbersGapless
  <1>3. /\ Append(l, n) \in Seq(Nat \ {0}) /\ Len(Append(l, n)) = Len(l) + 1
        /\ DOMAIN Append(l, n) = 1..(Len(l) + 1)
        /\ \A i \in 1..Len(l) : Append(l, n)[i] = l[i]
        /\ Append(l, n)[Len(l) + 1] = n
    BY <1>2, AppendProperties, LenProperties
  <1>4. \A i \in DOMAIN Append(l, n) : Append(l, n)[i] = i
    BY <1>2, <1>3
  <1>5. /\ nextNumber' \in [Numbered -> Nat \ {0}] /\ numbers' \in [Numbered -> Seq(Nat \ {0})]
        /\ nextNumber'[kind] = n + 1 /\ numbers'[kind] = Append(l, n)
        /\ \A k \in Numbered : k # kind => nextNumber'[k] = nextNumber[k] /\ numbers'[k] = numbers[k]
    BY <1>1, <1>2, <1>3
  <1> HIDE DEF l, n
  <1>6. NumbersGapless'
    <2> SUFFICES ASSUME NEW k \in Numbered
                 PROVE  /\ \A i \in DOMAIN numbers'[k] : numbers'[k][i] = i
                        /\ nextNumber'[k] = Len(numbers'[k]) + 1
      BY DEF NumbersGapless
    <2>1. CASE k = kind
      BY <1>2, <1>3, <1>4, <1>5, <2>1
    <2>2. CASE k # kind
      BY <1>5, <2>2 DEF NumbersGapless
    <2>3. QED
      BY <2>1, <2>2
  <1>7. QED
    BY <1>5, <1>6

LEMMA NumberingKeeps ==
  ASSUME CashTypeOK, NumbersGapless, NEW s \in Sessions, NEW kind \in Numbered,
         Numbering(s, kind), tx[s].number = nextNumber[kind]
  PROVE  /\ nextNumber' \in [Numbered -> Nat \ {0}] /\ numbers' \in [Numbered -> Seq(Nat \ {0})]
         /\ NumbersGapless'
         /\ \A k \in Numbered : k # kind => nextNumber'[k] = nextNumber[k]
  BY NextNumberKeeps DEF Numbering

(* What the commit of s writes, and what it leaves to the others.          *)
Commits(s) ==
  /\ End(s)
  /\ UNCHANGED <<priceList, agreed, adjusted>>
  /\ TypeOK' /\ LedgerChained' /\ NumbersGapless'
  /\ ledger' \in [Variants -> Seq(LedgerRow)]
  /\ nextNumber' \in [Numbered -> Nat \ {0}] /\ numbers' \in [Numbered -> Seq(Nat \ {0})]
  /\ DOMAIN invoice \subseteq DOMAIN invoice'
  /\ \A o \in Orders : /\ order[o].status # "none" => order'[o].status # "none"
                       /\ order'[o].cart = order[o].cart
  /\ \A kind \in Numbered : Holds(s, SequenceKey(kind)) \/ nextNumber'[kind] = nextNumber[kind]
  /\ \A t \in Sessions : t # s => \A v \in Variants : Holds(t, LevelKey(v)) => onHand'[v] = onHand[v]

LEMMA CommitSpares ==
  ASSUME CashTypeOK, NEW s \in Sessions, Commits(s), NEW t \in Sessions, t # s PROVE Spared(t)
  BY EndKeeps DEF Commits, Spared, Holds

LEMMA CommitKeeps == ASSUME CashInv, NEW s \in Sessions, Commits(s) PROVE CashInv'
  <1>1. CashTypeOK
    BY DEF CashInv
  <1>2. CashTypeOK'
    BY <1>1, EndKeeps DEF Commits, CashTypeOK
  <1>3. ASSUME NEW t \in Sessions, t # s PROVE Own(t)'
    <2>1. Spared(t)
      BY <1>1, <1>3, CommitSpares
    <2>2. QED
      BY <1>1, <2>1, SparedKeeps DEF CashInv
  <1>4. Own(s)'
    BY <1>1, EndKeeps DEF Commits
  <1>5. QED
    BY <1>2, <1>3, <1>4 DEF Commits, CashInv

LEMMA StatusSet ==
  ASSUME CashTypeOK, NEW o \in Orders, NEW status \in OrderStatuses \ {"none"},
         order' = [order EXCEPT ![o].status = status]
  PROVE  /\ order' \in [Orders -> OrderRow]
         /\ \A p \in Orders : /\ order[p].status # "none" => order'[p].status # "none"
                              /\ order'[p].cart = order[p].cart
  <1>1. order \in [Orders -> OrderRow] /\ order' = [order EXCEPT ![o] = [order[o] EXCEPT !.status = status]]
    BY Typed
  <1>2. /\ [order[o] EXCEPT !.status = status] \in OrderRow
        /\ [order[o] EXCEPT !.status = status].status = status
        /\ [order[o] EXCEPT !.status = status].cart = order[o].cart
    BY <1>1 DEF OrderRow
  <1>3. QED
    BY <1>1, <1>2

LEMMA CommitConfirmKeeps == ASSUME CashInv, NEW s \in Sessions, CommitConfirm(s) PROVE Commits(s)
  <1>1. /\ CashTypeOK /\ TypeOK /\ HasNumber(s) /\ tx[s].at = "commit" /\ tx[s].op = "confirm"
        /\ tx[s].order \in Orders /\ LedgerChained /\ NumbersGapless
    BY DEF CashInv, CommitConfirm, CashTypeOK, Own, Sound, OnOrder
  <1>2. CommitStock(s) /\ End(s) /\ UNCHANGED <<payment, priceList, agreed, adjusted>>
        /\ order' = [order EXCEPT ![tx[s].order].status = "confirmed"]
    BY DEF CommitConfirm
  <1>3. \/ tx[s].number = 0 /\ UNCHANGED <<invoice, nextNumber, numbers>>
        \/ tx[s].number # 0 /\ invoice' = Append(invoice, bill[s]) /\ Numbering(s, "invoice")
    BY DEF CommitConfirm
  <1>4. invoice' \in Seq(InvoiceRow) /\ DOMAIN invoice \subseteq DOMAIN invoice'
    <2>1. invoice \in Seq(InvoiceRow) /\ bill[s] \in InvoiceRow
      BY <1>1, Typed DEF TypeOK
    <2>2. Append(invoice, bill[s]) \in Seq(InvoiceRow) /\ DOMAIN invoice \subseteq DOMAIN Append(invoice, bill[s])
      BY <2>1, AppendProperties, LenProperties
    <2>3. QED
      BY <1>3, <2>1, <2>2
  <1>5. /\ nextNumber' \in [Numbered -> Nat \ {0}] /\ numbers' \in [Numbered -> Seq(Nat \ {0})] /\ NumbersGapless'
        /\ \A kind \in Numbered : Holds(s, SequenceKey(kind)) \/ nextNumber'[kind] = nextNumber[kind]
    <2>1. CASE tx[s].number = 0
      BY <1>1, <1>3, <2>1 DEF CashTypeOK, NumbersGapless
    <2>2. CASE tx[s].number # 0
      <3>1. tx[s].number = nextNumber["invoice"] /\ Holds(s, SequenceKey("invoice")) /\ "invoice" \in Numbered
        BY <1>1, <2>2 DEF HasNumber, KindOf, Numbered
      <3>2. QED
        BY <1>1, <1>3, <2>2, <3>1, NumberingKeeps
    <2>3. QED
      BY <2>1, <2>2
  <1>6. /\ \A o \in Orders : /\ order[o].status # "none" => order'[o].status # "none"
                             /\ order'[o].cart = order[o].cart
        /\ order' \in [Orders -> OrderRow]
    <2>1. "confirmed" \in OrderStatuses \ {"none"}
      BY DEF OrderStatuses
    <2>2. QED
      BY <1>1, <1>2, <2>1, StatusSet
  <1>7. /\ onHand' \in [Variants -> Nat] /\ moves' \subseteq Move
        /\ ledger' \in [Variants -> Seq(LedgerRow)] /\ LedgerChained'
        /\ \A t \in Sessions : t # s => \A v \in Variants : Holds(t, LevelKey(v)) => onHand'[v] = onHand[v]
    BY <1>2, CommitStockKeeps
  <1>8. TypeOK'
    BY <1>1, <1>2, <1>4, <1>6, <1>7 DEF TypeOK
  <1>9. End(s) /\ UNCHANGED <<priceList, agreed, adjusted>>
    BY <1>2
  <1>10. QED
    BY <1>4, <1>5, <1>6, <1>7, <1>8, <1>9 DEF Commits

LEMMA CommitCancelKeeps == ASSUME CashInv, NEW s \in Sessions, CommitCancel(s) PROVE Commits(s)
  <1>1. /\ CashTypeOK /\ TypeOK /\ tx[s].at = "commit" /\ tx[s].op = "cancel"
        /\ tx[s].order \in Orders /\ LedgerChained /\ NumbersGapless
        /\ tx[s].invoice # 0 => tx[s].invoice \in DOMAIN invoice
    BY DEF CashInv, CommitCancel, CashTypeOK, Own, Sound, OnOrder
  <1>2. CommitStock(s) /\ End(s) /\ UNCHANGED <<payment, nextNumber, numbers, priceList, agreed, adjusted>>
        /\ order' = [order EXCEPT ![tx[s].order].status = "cancelled"]
        /\ invoice' = IF tx[s].invoice = 0 THEN invoice ELSE [invoice EXCEPT ![tx[s].invoice] = bill[s]]
    BY DEF CommitCancel
  <1>3. invoice' \in Seq(InvoiceRow) /\ DOMAIN invoice' = DOMAIN invoice
    BY <1>1, <1>2, Typed, RowReplaced DEF TypeOK
  <1>4. /\ nextNumber' \in [Numbered -> Nat \ {0}] /\ numbers' \in [Numbered -> Seq(Nat \ {0})] /\ NumbersGapless'
        /\ nextNumber' = nextNumber
    BY <1>1, <1>2 DEF CashTypeOK, NumbersGapless
  <1>5. /\ \A o \in Orders : /\ order[o].status # "none" => order'[o].status # "none"
                             /\ order'[o].cart = order[o].cart
        /\ order' \in [Orders -> OrderRow]
    <2>1. "cancelled" \in OrderStatuses \ {"none"}
      BY DEF OrderStatuses
    <2>2. QED
      BY <1>1, <1>2, <2>1, StatusSet
  <1>6. /\ onHand' \in [Variants -> Nat] /\ moves' \subseteq Move
        /\ ledger' \in [Variants -> Seq(LedgerRow)] /\ LedgerChained'
        /\ \A t \in Sessions : t # s => \A v \in Variants : Holds(t, LevelKey(v)) => onHand'[v] = onHand[v]
    BY <1>2, CommitStockKeeps
  <1>7. TypeOK'
    BY <1>1, <1>2, <1>3, <1>5, <1>6 DEF TypeOK
  <1>8. End(s) /\ UNCHANGED <<priceList, agreed, adjusted>>
    BY <1>2
  <1>9. QED
    BY <1>3, <1>4, <1>5, <1>6, <1>7, <1>8 DEF Commits

LEMMA CommitPaymentKeeps == ASSUME CashInv, NEW s \in Sessions, CommitPayment(s) PROVE Commits(s)
  <1>1. /\ CashTypeOK /\ TypeOK /\ HasNumber(s) /\ tx[s].at = "commit" /\ tx[s].op = "pay"
        /\ LedgerChained /\ NumbersGapless
        /\ tx[s].invoice # 0 /\ tx[s].invoice \in DOMAIN invoice /\ tx[s].amount \in Amounts
    BY DEF CashInv, CommitPayment, CashTypeOK, Own, Sound
  <1> DEFINE row == [invoice |-> tx[s].invoice, amount |-> tx[s].amount, key |-> tx[s].key]
  <1>2. /\ invoice' = [invoice EXCEPT ![tx[s].invoice] = bill[s]] /\ payment' = Append(payment, row)
        /\ Numbering(s, "payment") /\ End(s)
        /\ UNCHANGED <<order, onHand, moves, ledger, priceList, agreed, adjusted>>
    BY DEF CommitPayment
  <1>3. invoice' \in Seq(InvoiceRow) /\ DOMAIN invoice' = DOMAIN invoice
    BY <1>1, <1>2, Typed, RowReplaced
  <1>4. payment' \in Seq(PaymentRow)
    <2>1. tx[s].invoice \in Nat \ {0} /\ tx[s].amount \in Nat \ {0} /\ tx[s].key \in Keys \cup {NoKey}
      BY <1>1, Typed, InvoiceRows, AmountAssumption DEF Request
    <2>2. row \in PaymentRow /\ payment \in Seq(PaymentRow)
      BY <1>1, <2>1 DEF PaymentRow, TypeOK
    <2>3. QED
      BY <1>2, <2>2, AppendProperties
  <1>5. tx[s].number = nextNumber["payment"] /\ Holds(s, SequenceKey("payment")) /\ "payment" \in Numbered
    BY <1>1 DEF HasNumber, KindOf, Numbered
  <1>6. /\ nextNumber' \in [Numbered -> Nat \ {0}] /\ numbers' \in [Numbered -> Seq(Nat \ {0})] /\ NumbersGapless'
        /\ \A kind \in Numbered : Holds(s, SequenceKey(kind)) \/ nextNumber'[kind] = nextNumber[kind]
    BY <1>1, <1>2, <1>5, NumberingKeeps
  <1>7. TypeOK' /\ LedgerChained' /\ ledger' \in [Variants -> Seq(LedgerRow)]
    BY <1>1, <1>2, <1>3, <1>4 DEF TypeOK, LedgerChained, CashTypeOK
  <1>8. QED
    BY <1>1, <1>2, <1>3, <1>6, <1>7 DEF Commits

----------------------------------------------------------------------------
(* Requests of one step.                                                   *)

(* What is committed by others while s is in the middle of its request.    *)
LEMMA OneRowSpares ==
  ASSUME CashInv, UNCHANGED Private, CashTypeOK', LedgerChained', NumbersGapless',
         DOMAIN invoice \subseteq DOMAIN invoice',
         \A o \in Orders :
           /\ order[o].status # "none" => order'[o].status # "none"
           /\ order'[o].cart = order[o].cart \/ lock[OrderKey(o)] = Free \/ order[o].status = "none",
         \A kind \in Numbered : lock[SequenceKey(kind)] = Free \/ nextNumber'[kind] = nextNumber[kind],
         \A v \in Variants : lock[LevelKey(v)] = Free \/ onHand'[v] = onHand[v]
  PROVE  CashInv'
  <1>1. ASSUME NEW t \in Sessions PROVE Own(t)'
    <2>1. CashTypeOK /\ Own(t) /\ t # Free
      BY SessionAssumption DEF CashInv
    <2>2. Spared(t)
      BY <2>1 DEF Spared, Private, Holds
    <2>3. QED
      BY <2>1, <2>2, SparedKeeps
  <1>2. QED
    BY <1>1 DEF CashInv

(* A request that changes an order and nothing else.                       *)
LEMMA OrderRowSpares ==
  ASSUME CashInv, UNCHANGED <<onHand, moves, invoice, payment, ledger, nextNumber, numbers, priceList, adjusted, Private>>,
         order' \in [Orders -> OrderRow], agreed' \subseteq Orders,
         \A o \in Orders :
           /\ order[o].status # "none" => order'[o].status # "none"
           /\ order'[o].cart = order[o].cart \/ lock[OrderKey(o)] = Free \/ order[o].status = "none"
  PROVE  CashInv'
  <1>1. CashTypeOK /\ LedgerChained /\ NumbersGapless
    BY DEF CashInv
  <1>2. CashTypeOK' /\ LedgerChained' /\ NumbersGapless'
    BY <1>1 DEF CashTypeOK, TypeOK, LedgerChained, NumbersGapless, Private
  <1>3. QED
    BY <1>2, OneRowSpares

LEMMA DraftKeeps ==
  ASSUME CashInv, NEW o \in Orders, NEW c \in Carts, NEW p \in Prices,
         NEW source \in {"manual", "quote"}, CreateDraft(o, c, p, source), Untouched, agreed' \subseteq Orders
  PROVE  CashInv'
  <1>1. order \in [Orders -> OrderRow]
    BY DEF CashInv, CashTypeOK, TypeOK
  <1>2. [status |-> "draft", cart |-> c, price |-> p, source |-> source] \in OrderRow
    BY DEF OrderRow, OrderStatuses
  <1>3. /\ order' \in [Orders -> OrderRow]
        /\ \A q \in Orders :
             /\ order[q].status # "none" => order'[q].status # "none"
             /\ order'[q].cart = order[q].cart \/ order[q].status = "none"
    BY <1>1, <1>2 DEF CreateDraft
  <1>4. QED
    BY <1>3, OrderRowSpares DEF CreateDraft, Untouched

LEMMA EditKeeps ==
  ASSUME CashInv, NEW o \in Orders, NEW c \in Carts, Edit(o, c) PROVE CashInv'
  <1>1. order \in [Orders -> OrderRow] /\ priceList \in Prices /\ agreed \subseteq Orders
    BY DEF CashInv, CashTypeOK, TypeOK
  <1> DEFINE row == [order[o] EXCEPT !.cart = c, !.price = priceList]
  <1>2. row \in OrderRow /\ row.status = order[o].status
    BY <1>1 DEF OrderRow
  <1>3. order' = [order EXCEPT ![o] = row]
    BY <1>1 DEF Edit, UpdateLines
  <1> HIDE DEF row
  <1>4. /\ order' \in [Orders -> OrderRow]
        /\ \A q \in Orders :
             /\ order[q].status # "none" => order'[q].status # "none"
             /\ order'[q].cart = order[q].cart \/ lock[OrderKey(q)] = Free
    BY <1>1, <1>2, <1>3 DEF Edit
  <1>5. QED
    BY <1>1, <1>4, OrderRowSpares DEF Edit, UpdateLines, Untouched

LEMMA AdvanceKeeps ==
  ASSUME CashInv, NEW o \in Orders, NEW action \in DOMAIN ProgressTarget, Advance(o, action) PROVE CashInv'
  <1>1. ProgressTarget[action] \in OrderStatuses \ {"none"}
    BY DEF ProgressTarget, OrderStatuses
  <1>2. CashTypeOK /\ agreed \subseteq Orders
    BY DEF CashInv, CashTypeOK
  <1>3. QED
    BY <1>1, <1>2, StatusSet, OrderRowSpares DEF Advance, Progress, Untouched

(* A request that changes an invoice and nothing else.                     *)
LEMMA InvoiceRowSpares ==
  ASSUME CashInv, NEW i \in DOMAIN invoice, NEW status \in InvoiceStatuses,
         invoice' = [invoice EXCEPT ![i].status = status], UNCHANGED <<order, onHand, moves, payment, agreed>>, Untouched
  PROVE  CashInv'
  <1>1. CashTypeOK /\ TypeOK /\ LedgerChained /\ NumbersGapless
    BY DEF CashInv, CashTypeOK
  <1>2. [invoice[i] EXCEPT !.status = status] \in InvoiceRow
    BY <1>1, InvoiceRows DEF InvoiceRow
  <1>3. invoice' = [invoice EXCEPT ![i] = [invoice[i] EXCEPT !.status = status]]
    OBVIOUS
  <1>4. invoice' \in Seq(InvoiceRow) /\ DOMAIN invoice' = DOMAIN invoice
    BY <1>1, <1>2, <1>3, RowReplaced
  <1>5. CashTypeOK' /\ LedgerChained' /\ NumbersGapless'
    BY <1>1, <1>4 DEF CashTypeOK, TypeOK, LedgerChained, NumbersGapless, Untouched, Private
  <1>6. QED
    BY <1>4, <1>5, OneRowSpares DEF Untouched

LEMMA AdjustKeeps ==
  ASSUME CashInv, NEW v \in Variants, NEW q \in Adjustments, AdjustByHand(v, q) PROVE CashInv'
  <1> DEFINE m == Movement(Unkeyed, q, onHand[v] + q)
  <1>1. /\ CashTypeOK /\ TypeOK /\ LedgerChained /\ NumbersGapless /\ q \in Int
        /\ onHand \in [Variants -> Nat] /\ ledger \in [Variants -> Seq(LedgerRow)] /\ Opening[v] \in Int
    BY AmountAssumption DEF CashInv, CashTypeOK, TypeOK
  <1>2. /\ onHand[v] + q \in Nat /\ onHand' = [onHand EXCEPT ![v] = onHand[v] + q]
        /\ ledger' = [ledger EXCEPT ![v] = Append(ledger[v], m)] /\ lock[LevelKey(v)] = Free
        /\ adjusted' = adjusted + 1 /\ adjusted < MaxAdjustments
        /\ UNCHANGED <<order, moves, invoice, payment, nextNumber, numbers, priceList, agreed, Private>>
    BY <1>1 DEF AdjustByHand, Adjust
  <1>3. /\ m \in LedgerRow /\ m.balance_after = onHand[v] + q /\ m.quantity = q
    BY <1>1, <1>2 DEF Movement, LedgerRow
  <1> HIDE DEF m
  <1>4. /\ ledger' \in [Variants -> Seq(LedgerRow)] /\ onHand' \in [Variants -> Nat]
        /\ ledger'[v] = Append(ledger[v], m) /\ onHand'[v] = onHand[v] + q
        /\ \A u \in Variants : u # v => ledger'[u] = ledger[u] /\ onHand'[u] = onHand[u]
    BY <1>1, <1>2, <1>3, AppendProperties
  <1>5. ASSUME NEW u \in Variants
        PROVE  Chain(ledger'[u], Opening[u]) /\ onHand'[u] = Final(ledger'[u], Opening[u])
    <2>1. Chain(ledger[u], Opening[u]) /\ onHand[u] = Final(ledger[u], Opening[u])
      BY <1>1, LedgerIsChain
    <2>2. CASE u = v
      <3>1. m.balance_after = Final(ledger[v], Opening[v]) + m.quantity /\ m.balance_after >= 0
        BY <1>2, <1>3, <2>1, <2>2
      <3>2. ledger[v] \in Seq(LedgerRow)
        BY <1>1
      <3>3. Chain(Append(ledger[v], m), Opening[v]) /\ Final(Append(ledger[v], m), Opening[v]) = m.balance_after
        BY <1>1, <1>3, <2>1, <2>2, <3>1, <3>2, ChainAppend
      <3>4. QED
        BY <1>3, <1>4, <2>2, <3>3
    <2>3. CASE u # v
      BY <1>4, <2>1, <2>3
    <2>4. QED
      BY <2>2, <2>3
  <1>6. LedgerChained'
    <2>1. LedgerChained' <=>
            \A u \in Variants : Chain(ledger'[u], Opening[u]) /\ onHand'[u] = Final(ledger'[u], Opening[u])
      BY DEF LedgerChained, Chain, Final
    <2>2. QED
      BY <1>5, <2>1
  <1>7. NumbersGapless'
    BY <1>1, <1>2 DEF NumbersGapless
  <1>8. CashTypeOK'
    <2>1. adjusted' \in 0..MaxAdjustments
      BY <1>1, <1>2, SessionAssumption DEF CashTypeOK
    <2>2. QED
      BY <1>1, <1>2, <1>4, <2>1 DEF CashTypeOK, TypeOK, Private
  <1>9. QED
    BY <1>2, <1>4, <1>6, <1>7, <1>8, OneRowSpares

LEMMA InvoiceByHandKeeps ==
  ASSUME CashInv, NEW total \in Totals, InvoiceByHand(total) PROVE CashInv'
  <1>1. CashTypeOK /\ TypeOK /\ LedgerChained /\ NumbersGapless
    BY DEF CashInv, CashTypeOK
  <1> DEFINE row == [status |-> "draft", total |-> total, paid |-> 0, order |-> NoOrder]
  <1>2. /\ invoice' = Append(invoice, row) /\ lock[SequenceKey("invoice")] = Free
        /\ nextNumber' = [nextNumber EXCEPT !["invoice"] = nextNumber["invoice"] + 1]
        /\ numbers' = [numbers EXCEPT !["invoice"] = Append(numbers["invoice"], nextNumber["invoice"])]
        /\ UNCHANGED <<order, onHand, moves, payment, ledger, priceList, agreed, adjusted, Private>>
    BY DEF InvoiceByHand, CreateInvoice
  <1>3. invoice' \in Seq(InvoiceRow) /\ DOMAIN invoice \subseteq DOMAIN invoice'
    <2>1. row \in InvoiceRow /\ invoice \in Seq(InvoiceRow)
      BY <1>1, AmountAssumption DEF InvoiceRow, InvoiceStatuses, TypeOK
    <2>2. QED
      BY <1>2, <2>1, AppendProperties, LenProperties
  <1>4. /\ nextNumber' \in [Numbered -> Nat \ {0}] /\ numbers' \in [Numbered -> Seq(Nat \ {0})]
        /\ NumbersGapless'
        /\ \A k \in Numbered : k # "invoice" => nextNumber'[k] = nextNumber[k]
    BY <1>1, <1>2, NextNumberKeeps DEF Numbered
  <1>5. CashTypeOK' /\ LedgerChained'
    BY <1>1, <1>2, <1>3, <1>4 DEF CashTypeOK, TypeOK, LedgerChained, Private
  <1>6. QED
    BY <1>2, <1>3, <1>4, <1>5, OneRowSpares

LEMMA OneRowKeeps == ASSUME CashInv, OneRow PROVE CashInv'
  <1>1. priceList \in Prices /\ agreed \subseteq Orders
    BY DEF CashInv, CashTypeOK
  <1>2. ASSUME NEW o \in Orders, NEW c \in Carts, Draft(o, c) PROVE CashInv'
    BY <1>1, <1>2, DraftKeeps DEF Draft
  <1>3. ASSUME NEW o \in Orders, NEW c \in Carts, NEW p \in Prices, DraftFromQuote(o, c, p) PROVE CashInv'
    BY <1>1, <1>3, DraftKeeps DEF DraftFromQuote
  <1>4. ASSUME NEW i \in DOMAIN invoice, IssueByHand(i) \/ VoidByHand(i) PROVE CashInv'
    BY <1>4, InvoiceRowSpares DEF IssueByHand, VoidByHand, Issue, Void, InvoiceStatuses
  <1>5. ASSUME NEW p \in Prices, PriceListChange(p) PROVE CashInv'
    <2>1. CashTypeOK' /\ LedgerChained' /\ NumbersGapless'
      BY <1>5 DEF CashInv, PriceListChange, CashTypeOK, TypeOK, LedgerChained, NumbersGapless, Private
    <2>2. QED
      BY <1>5, <2>1, OneRowSpares DEF PriceListChange
  <1>6. QED
    BY <1>2, <1>3, <1>4, <1>5, EditKeeps, AdvanceKeeps, AdjustKeeps, InvoiceByHandKeeps DEF OneRow

----------------------------------------------------------------------------
(* The invariant of the specification.                                     *)

LEMMA CashInitially == CashInit => CashInv
  <1> SUFFICES ASSUME CashInit PROVE CashInv
    OBVIOUS
  <1>1. TypeOK
    BY InvInitially DEF CashInit, Inv
  <1>2. /\ ledger \in [Variants -> Seq(LedgerRow)] /\ numbers \in [Numbered -> Seq(Nat \ {0})]
        /\ nextNumber \in [Numbered -> Nat \ {0}]
    BY EmptySeq DEF CashInit
  <1>3. CashTypeOK
    BY <1>1, <1>2, IdleTyped, SessionAssumption DEF CashTypeOK, CashInit
  <1>4. ASSUME NEW s \in Sessions PROVE Own(s)
    BY <1>4 DEF CashInit, Own, Sound, HasOrder, HasNumber, HasStock, Touched, OnOrder, Idle, NoLevel
  <1>5. DOMAIN <<>> = {} /\ Len(<<>>) = 0
    BY EmptySeq, LenProperties
  <1>6. LedgerChained
    BY <1>5 DEF LedgerChained, CashInit, Init
  <1>7. NumbersGapless
    BY <1>5 DEF NumbersGapless, CashInit
  <1>8. QED
    BY <1>3, <1>4, <1>6, <1>7 DEF CashInv

LEMMA CashStepKeeps == CashInv /\ [CashNext]_cashVars => CashInv'
  <1> SUFFICES ASSUME CashInv, [CashNext]_cashVars PROVE CashInv'
    OBVIOUS
  <1>1. ASSUME NEW s \in Sessions, Step(s) PROVE CashInv'
    BY <1>1, LockOrderKeeps, SellLineKeeps, NumberInvoiceKeeps, CommitConfirmKeeps, FindInvoiceKeeps, VoidInvoiceKeeps,
       ReturnLineKeeps, CommitCancelKeeps, LockInvoiceKeeps, InsertPaymentKeeps, CommitPaymentKeeps, MovesOnKeeps, CommitKeeps DEF Step
  <1>2. ASSUME NEW s \in Sessions, Fail(s) \/ BreakDeadlock(s) PROVE CashInv'
    BY <1>2, RollbackKeeps, MovesOnKeeps DEF Fail, BreakDeadlock
  <1>3. CASE UNCHANGED cashVars
    <2>1. CashTypeOK' /\ LedgerChained' /\ NumbersGapless'
      BY <1>3 DEF cashVars, CashInv, CashTypeOK, TypeOK, LedgerChained, NumbersGapless
    <2>2. QED
      BY <1>3, <2>1, OneRowSpares DEF cashVars, Private
  <1>4. QED
    BY <1>1, <1>2, <1>3, BeginKeeps, MovesOnKeeps, OneRowKeeps DEF CashNext

LEMMA CashAlways == CashSpec => []CashInv
  BY CashInitially, CashStepKeeps, PTL DEF CashSpec

(* Every row, every lock and what every request has pending keeps a value  *)
(* of its kind; a stock level is never below zero, pending or committed.   *)
THEOREM CashTypes == CashSpec => []CashTypeOK
  <1>1. CashInv => CashTypeOK
    BY DEF CashInv
  <1>2. QED
    BY <1>1, CashAlways, PTL

(* The ledger of a stock row has no lost update (post_movement under       *)
(* _locked_level): the balances go on from each other to what is on hand,  *)
(* whatever requests overlap, fail half-way or deadlock.                   *)
THEOREM LedgerHolds == CashSpec => []LedgerChained
  <1>1. CashInv => LedgerChained
    BY DEF CashInv
  <1>2. QED
    BY <1>1, CashAlways, PTL

(* next_number gives out each number once and leaves no gap, although a    *)
(* request that took one may roll back (shared/sequences.py).              *)
THEOREM NumbersHold == CashSpec => []NumbersGapless
  <1>1. CashInv => NumbersGapless
    BY DEF CashInv
  <1>2. QED
    BY <1>1, CashAlways, PTL

----------------------------------------------------------------------------
(* OrderToCash implements OrderBook: what a request did so far is the      *)
(* beginning of the one change that OrderBook makes of it.                 *)

(* What the first n lines of a cart take of v.                             *)
TakenOf(c, v) ==
  CHOOSE taken \in [0..Len(Lines[c]) -> 0..Demand[c][v]] :
    /\ taken[0] = 0 /\ taken[Len(Lines[c])] = Demand[c][v]
    /\ \A n \in DOMAIN Lines[c] :
         taken[n] = taken[n - 1] +
           (IF Lines[c][n].variant = v /\ v \in Tracked THEN Lines[c][n].quantity ELSE 0)
Taken(c, v, n) == TakenOf(c, v)[n]

(* The lines that s is done with, and what they were to move.              *)
Done(s) ==
  IF tx[s].at \in {"sell", "return"} THEN tx[s].line - 1
  ELSE IF tx[s].at \in {"number", "commit"}
          /\ (tx[s].op = "confirm" \/ order[tx[s].order].status \in StockDeducted)
    THEN Len(Lines[Cart(s)]) ELSE 0
MoveOf(s, n) == IF tx[s].op = "confirm" THEN Sale(tx[s].order, n) ELSE Return(tx[s].order, n)
Signed(s, q) == IF tx[s].op = "confirm" THEN -q ELSE q
Ids(l) == {l[n].id : n \in DOMAIN l}
Pending(s) == UNION {Ids(level[s][v].new) : v \in Variants}

StockSoFar(s) ==
  /\ Pending(s) = {MoveOf(s, n) : n \in {m \in TrackedLines(Cart(s)) : m <= Done(s)}}
  /\ \A v \in Variants : LockedLevel(s, v).onHand = onHand[v] + Signed(s, Taken(Cart(s), v, Done(s)))

OrderDoing(s) ==
  /\ tx[s].op = "idle" \/ tx[s].at = "order" => \A v \in Variants : ~Touched(s, v)
  /\ tx[s].op = "cancel" /\ tx[s].at \in {"find", "invoice"} => tx[s].line = 1
  /\ OnOrder(s) /\ tx[s].at # "order" =>
       /\ tx[s].op = "confirm" => order[tx[s].order].status = "draft"
       /\ tx[s].op = "cancel" => "cancelled" \in OrderNext[order[tx[s].order].status]
       /\ tx[s].at = "return" => order[tx[s].order].status \in StockDeducted
       /\ StockSoFar(s)

VoidsLive(s) ==
  IF tx[s].invoice = 0
    THEN \A i \in DOMAIN invoice : ~Live(i, tx[s].order)
    ELSE /\ Holds(s, InvoiceKey(tx[s].invoice))
         /\ Live(tx[s].invoice, tx[s].order) /\ Voidable(invoice[tx[s].invoice])
         /\ bill[s] = [invoice[tx[s].invoice] EXCEPT !.status = "void"]

InvoiceDoing(s) ==
  /\ tx[s].op = "confirm" /\ tx[s].number # 0 =>
       /\ bill[s] = NewInvoice(tx[s].order) /\ tx[s].number <= MaxInvoices
       /\ \A i \in DOMAIN invoice : ~Live(i, tx[s].order)
  /\ tx[s].op = "cancel" /\ tx[s].at \in {"order", "find"} => tx[s].invoice = 0
  /\ tx[s].op = "cancel" /\ tx[s].at = "invoice" => invoice[tx[s].invoice].order = tx[s].order
  /\ tx[s].op = "cancel" /\ tx[s].at \in {"return", "commit"} => VoidsLive(s)

PaymentDoing(s) ==
  tx[s].op = "pay" /\ tx[s].at \in {"number", "commit"} =>
    LET row == invoice[tx[s].invoice]
        paid == row.paid + tx[s].amount IN
      /\ Holds(s, InvoiceKey(tx[s].invoice))
      /\ row.status \in OpenStatuses /\ tx[s].amount <= Balance(row)
      /\ tx[s].at = "commit" =>
           /\ ~KeyUsed(tx[s].key)
           /\ bill[s] = [row EXCEPT !.paid = paid,
                                    !.status = IF paid = row.total THEN "paid" ELSE "partially_paid"]

Doing(s) == OrderDoing(s) /\ InvoiceDoing(s) /\ PaymentDoing(s)

\* Every invoice has a row that can be locked.
InvoicesCounted == nextNumber["invoice"] = Len(invoice) + 1 /\ Len(invoice) <= MaxInvoices

ImplInv == CashInv /\ Inv /\ InvoicesCounted /\ \A s \in Sessions : Doing(s)

LEMMA TakenAdds ==
  ASSUME NEW c \in Carts, NEW v \in Variants
  PROVE  /\ Taken(c, v, 0) = 0 /\ Taken(c, v, Len(Lines[c])) = Demand[c][v]
         /\ \A n \in 0..Len(Lines[c]) : Taken(c, v, n) \in Nat
         /\ \A n \in DOMAIN Lines[c] :
              Taken(c, v, n) = Taken(c, v, n - 1) +
                (IF Lines[c][n].variant = v /\ v \in Tracked THEN Lines[c][n].quantity ELSE 0)
  <1>1. /\ TakenOf(c, v) \in [0..Len(Lines[c]) -> 0..Demand[c][v]]
        /\ TakenOf(c, v)[0] = 0 /\ TakenOf(c, v)[Len(Lines[c])] = Demand[c][v]
        /\ \A n \in DOMAIN Lines[c] :
             TakenOf(c, v)[n] = TakenOf(c, v)[n - 1] +
               (IF Lines[c][n].variant = v /\ v \in Tracked THEN Lines[c][n].quantity ELSE 0)
    BY DemandAssumption DEF TakenOf
  <1>2. Demand[c][v] \in Nat
    BY CartAssumption
  <1>3. QED
    BY <1>1, <1>2 DEF Taken

LEMMA DoneTyped ==
  ASSUME CashTypeOK, NEW s \in Sessions, Sound(s), OnOrder(s)
  PROVE  /\ Cart(s) \in Carts /\ Done(s) \in 0..Len(Lines[Cart(s)])
         /\ \A v \in Variants : Signed(s, Taken(Cart(s), v, Done(s))) \in Int
  <1>1. Cart(s) \in Carts
    BY Typed DEF Sound, Cart
  <1>2. Len(Lines[Cart(s)]) \in Nat \ {0} /\ DOMAIN Lines[Cart(s)] = 1..Len(Lines[Cart(s)])
    BY <1>1, LinesTyped
  <1>3. tx[s].at \in {"sell", "return"} => tx[s].line \in 1..Len(Lines[Cart(s)])
    BY <1>2 DEF Sound
  <1>4. Done(s) \in 0..Len(Lines[Cart(s)])
    BY <1>2, <1>3 DEF Done
  <1>5. QED
    BY <1>1, <1>4, TakenAdds DEF Signed

(* Nothing that t relies on in its change is changed.                      *)
Undisturbed(t) ==
  /\ Spared(t)
  /\ \A o \in Orders : Holds(t, OrderKey(o)) /\ order[o].status # "none" => order'[o] = order[o]
  /\ \A i \in DOMAIN invoice :
       /\ invoice'[i].order = invoice[i].order
       /\ invoice[i].status = "void" => invoice'[i].status = "void"
       /\ Holds(t, InvoiceKey(i)) => invoice'[i] = invoice[i]
  /\ \A i \in DOMAIN invoice' \ DOMAIN invoice : \A o \in Orders :
       Holds(t, OrderKey(o)) => invoice'[i].order # o
  /\ Holds(t, SequenceKey("payment")) => payment' = payment

LEMMA UndisturbedKeeps ==
  ASSUME ImplInv, CashTypeOK', NEW t \in Sessions, Undisturbed(t) PROVE Doing(t)'
  <1>1. /\ CashTypeOK /\ TypeOK /\ Own(t) /\ Doing(t) /\ Sound(t) /\ HasOrder(t) /\ HasNumber(t) /\ HasStock(t)
        /\ Spared(t) /\ tx'[t] = tx[t] /\ level'[t] = level[t] /\ bill'[t] = bill[t]
        /\ Len(invoice) \in Nat /\ Len(invoice) <= MaxInvoices /\ DOMAIN invoice = 1..Len(invoice)
    BY InvoiceRows DEF ImplInv, CashInv, Own, InvoicesCounted, Undisturbed, Spared, CashTypeOK
  <1>2. \A i \in DOMAIN invoice : InvoiceKey(i) \in Lockable
    BY <1>1, SessionAssumption DEF Lockable
  <1>3. OnOrder(t) /\ tx[t].at # "order" =>
          /\ tx[t].order \in Orders /\ order'[tx[t].order] = order[tx[t].order]
          /\ Holds(t, OrderKey(tx[t].order)) /\ Holds(t, OrderKey(tx[t].order))'
    BY <1>1, LockKeys DEF Sound, HasOrder, Undisturbed, Spared, Holds
  <1>4. \A v \in Variants : LockedLevel(t, v)' = LockedLevel(t, v) \/ ~Touched(t, v)
    BY <1>1 DEF LockedLevel, Touched
  <1>5. ASSUME OnOrder(t), tx[t].at # "order" PROVE StockSoFar(t)'
    <2>1. /\ Cart(t)' = Cart(t) /\ Done(t)' = Done(t) /\ Pending(t)' = Pending(t)
          /\ \A n : MoveOf(t, n)' = MoveOf(t, n) /\ \A q : Signed(t, q)' = Signed(t, q)
      BY <1>1, <1>3, <1>5 DEF Cart, Done, Pending, MoveOf, Signed
    <2>2. StockSoFar(t)
      BY <1>1, <1>5 DEF Doing, OrderDoing
    <2>3. ASSUME NEW v \in Variants
          PROVE  LockedLevel(t, v)'.onHand = onHand'[v] + Signed(t, Taken(Cart(t), v, Done(t)))
      <3>1. LockedLevel(t, v).onHand = onHand[v] + Signed(t, Taken(Cart(t), v, Done(t)))
        BY <2>2 DEF StockSoFar
      <3>2. CASE Touched(t, v)
        <4>1. onHand'[v] = onHand[v] /\ LockedLevel(t, v)' = LockedLevel(t, v)
          BY <1>1, <1>4, <3>2 DEF HasStock, Spared
        <4>2. QED
          BY <3>1, <4>1
      <3>3. CASE ~Touched(t, v)
        <4>1. LockedLevel(t, v)'.onHand = onHand'[v] /\ LockedLevel(t, v).onHand = onHand[v]
          BY <1>1, <3>3 DEF LockedLevel, CommittedLevel, Touched
        <4>2. onHand[v] \in Nat /\ onHand'[v] \in Nat /\ Signed(t, Taken(Cart(t), v, Done(t))) \in Int
          BY <1>1, <1>5, DoneTyped DEF CashTypeOK, TypeOK
        <4>3. QED
          BY <3>1, <4>1, <4>2
      <3>4. QED
        BY <3>2, <3>3
    <2>4. QED
      BY <2>1, <2>2, <2>3 DEF StockSoFar
  <1>6. OrderDoing(t)'
    BY <1>1, <1>3, <1>5 DEF Doing, OrderDoing, OnOrder, Touched
  <1>7. InvoiceDoing(t)'
    <2>1. ASSUME OnOrder(t), tx[t].at # "order", \A i \in DOMAIN invoice : ~Live(i, tx[t].order)
          PROVE  \A i \in DOMAIN invoice' : ~Live(i, tx[t].order)'
      BY <1>1, <1>3, <2>1 DEF Live, Undisturbed
    <2>2. ASSUME tx[t].op = "confirm", tx[t].number # 0
          PROVE  bill'[t] = NewInvoice(tx[t].order)' /\ \A i \in DOMAIN invoice' : ~Live(i, tx[t].order)'
      <3>1. OnOrder(t) /\ tx[t].at # "order"
        BY <1>1, <2>2 DEF OnOrder, HasNumber
      <3>2. bill[t] = NewInvoice(tx[t].order) /\ \A i \in DOMAIN invoice : ~Live(i, tx[t].order)
        BY <1>1, <2>2 DEF Doing, InvoiceDoing
      <3>3. NewInvoice(tx[t].order)' = NewInvoice(tx[t].order)
        BY <1>1, <1>3, <3>1 DEF NewInvoice
      <3>4. QED
        BY <1>1, <2>1, <3>1, <3>2, <3>3
    <2>3. ASSUME tx[t].op = "cancel", tx[t].at \in {"return", "commit"} PROVE VoidsLive(t)'
      <3>1. OnOrder(t) /\ VoidsLive(t)
        BY <1>1, <2>3 DEF Doing, InvoiceDoing, OnOrder
      <3>2. CASE tx[t].invoice = 0
        BY <1>1, <2>1, <2>3, <3>1, <3>2 DEF VoidsLive
      <3>3. CASE tx[t].invoice # 0
        <4>1. tx[t].invoice \in DOMAIN invoice /\ Holds(t, InvoiceKey(tx[t].invoice))
          BY <1>1, <3>1, <3>3 DEF VoidsLive, Sound
        <4>2. invoice'[tx[t].invoice] = invoice[tx[t].invoice] /\ Holds(t, InvoiceKey(tx[t].invoice))'
          BY <1>1, <1>2, <4>1 DEF Undisturbed, Spared, Holds
        <4>3. QED
          BY <1>1, <3>1, <3>3, <4>1, <4>2 DEF VoidsLive, Live
      <3>4. QED
        BY <3>2, <3>3
    <2>4. ASSUME tx[t].op = "cancel", tx[t].at = "invoice" PROVE invoice'[tx[t].invoice].order = tx[t].order
      BY <1>1, <2>4 DEF Doing, InvoiceDoing, Sound, Undisturbed
    <2>5. QED
      BY <1>1, <2>2, <2>3, <2>4 DEF Doing, InvoiceDoing
  <1>8. PaymentDoing(t)'
    <2>1. ASSUME tx[t].op = "pay", tx[t].at \in {"number", "commit"}
          PROVE  invoice'[tx[t].invoice] = invoice[tx[t].invoice] /\ Holds(t, InvoiceKey(tx[t].invoice))'
      <3>1. tx[t].invoice \in DOMAIN invoice /\ Holds(t, InvoiceKey(tx[t].invoice))
        BY <1>1, <2>1 DEF Doing, PaymentDoing, Sound
      <3>2. QED
        BY <1>1, <1>2, <3>1 DEF Undisturbed, Spared, Holds
    <2>2. ASSUME tx[t].op = "pay", tx[t].at = "commit" PROVE payment' = payment
      <3>1. Holds(t, SequenceKey("payment"))
        BY <1>1, <2>2 DEF HasNumber, KindOf
      <3>2. QED
        BY <3>1 DEF Undisturbed
    <2>3. QED
      BY <1>1, <2>1, <2>2 DEF Doing, PaymentDoing, KeyUsed, Balance
  <1>9. QED
    BY <1>6, <1>7, <1>8 DEF Doing

LEMMA MovesOnImplements ==
  ASSUME ImplInv, NEW s \in Sessions, MovesOn(s), Own(s)', Doing(s)' PROVE ImplInv' /\ UNCHANGED vars
  <1>1. UNCHANGED <<rows, vars>>
    BY DEF MovesOn, rows, vars
  <1>2. CashInv' /\ CashTypeOK'
    BY MovesOnKeeps DEF ImplInv, CashInv
  <1>3. Inv' /\ InvoicesCounted'
    BY <1>1, InvInductive DEF ImplInv, InvoicesCounted, rows
  <1>4. ASSUME NEW t \in Sessions, t # s PROVE Doing(t)'
    <2>1. Undisturbed(t)
      BY <1>4 DEF MovesOn, Undisturbed, Spared, rows
    <2>2. QED
      BY <1>2, <2>1, UndisturbedKeeps
  <1>5. QED
    BY <1>1, <1>2, <1>3, <1>4 DEF ImplInv

LEMMA Doings ==
  ASSUME ImplInv, NEW s \in Sessions
  PROVE  /\ CashTypeOK /\ TypeOK /\ CashInv /\ Inv /\ Own(s) /\ Sound(s) /\ HasOrder(s) /\ HasNumber(s) /\ HasStock(s)
         /\ OrderDoing(s) /\ InvoiceDoing(s) /\ PaymentDoing(s)
  BY DEF ImplInv, CashInv, CashTypeOK, Own, Doing

\* A request that is over, or has done nothing yet.
LEMMA FreshDoing ==
  ASSUME NEW s \in Sessions, tx'[s] = Idle, \A v \in Variants : ~Touched(s, v)' PROVE Doing(s)'
  BY DEF Doing, OrderDoing, InvoiceDoing, PaymentDoing, OnOrder, Idle

LEMMA EndDoing == ASSUME CashTypeOK, NEW s \in Sessions, End(s) PROVE Doing(s)'
  <1>1. tx'[s] = Idle /\ \A v \in Variants : level'[s][v] = NoLevel
    BY Typed DEF End
  <1>2. QED
    BY <1>1, FreshDoing DEF Touched, NoLevel

LEMMA RollbackDoing == ASSUME ImplInv, NEW s \in Sessions, Rollback(s) PROVE Doing(s)'
  BY Doings, EndDoing DEF Rollback

LEMMA BeginDoing == ASSUME ImplInv, NEW s \in Sessions, Begin(s) PROVE Doing(s)'
  <1>1. CashTypeOK /\ tx[s].op = "idle" /\ UNCHANGED level
    BY Doings DEF Begin, BeginOrder, BeginPayment, rows
  <1>2. \A v \in Variants : ~Touched(s, v)'
    BY <1>1, Doings DEF OrderDoing, Touched
  <1>3. ASSUME NEW op \in {"confirm", "cancel"}, NEW o \in Orders, BeginOrder(s, op, o) PROVE Doing(s)'
    <2>1. /\ tx'[s].op = op /\ tx'[s].at = "order" /\ tx'[s].invoice = 0 /\ tx'[s].number = 0
      BY <1>1, <1>3, Typed DEF BeginOrder, Idle
    <2>2. QED
      BY <1>2, <2>1 DEF Doing, OrderDoing, InvoiceDoing, PaymentDoing
  <1>4. ASSUME NEW i \in DOMAIN invoice, NEW amount \in Amounts, NEW key \in Keys \cup {NoKey},
               BeginPayment(s, i, amount, key)
        PROVE  Doing(s)'
    <2>1. tx'[s].op = "pay" /\ tx'[s].at = "invoice"
      BY <1>1, <1>4, Typed DEF BeginPayment, Idle
    <2>2. QED
      BY <2>1 DEF Doing, OrderDoing, InvoiceDoing, PaymentDoing, OnOrder
  <1>5. QED
    BY <1>3, <1>4 DEF Begin

LEMMA LockOrderDoing == ASSUME ImplInv, NEW s \in Sessions, LockOrder(s) PROVE Doing(s)'
  <1>1. /\ CashTypeOK /\ Sound(s) /\ tx[s].at = "order" /\ OnOrder(s) /\ tx[s].line = 1 /\ tx[s].order \in Orders
        /\ tx[s].number = 0 /\ (tx[s].op = "cancel" => tx[s].invoice = 0) /\ \A v \in Variants : ~Touched(s, v)
    BY Doings DEF LockOrder, Sound, HasNumber, OrderDoing, InvoiceDoing
  <1>2. CASE Rollback(s)
    BY <1>2, RollbackDoing
  <1>3. CASE ~Rollback(s)
    <2> DEFINE at == IF tx[s].op = "confirm" THEN "sell" ELSE "find"
    <2>1. /\ GoTo(s, at) /\ UNCHANGED <<rows, level, bill>>
          /\ (IF tx[s].op = "confirm" THEN "confirmed" ELSE "cancelled") \in OrderNext[order[tx[s].order].status]
      BY <1>3 DEF LockOrder
    <2>2. at \in {"sell", "find"} /\ (at = "sell" <=> tx[s].op = "confirm")
      OBVIOUS
    <2> HIDE DEF at
    <2>3. /\ tx'[s].op = tx[s].op /\ tx'[s].at = at /\ tx'[s].order = tx[s].order /\ tx'[s].line = 1
          /\ tx'[s].number = 0 /\ (tx[s].op = "cancel" => tx'[s].invoice = 0)
      BY <1>1, <2>1, <2>2, GoToTyped
    <2>4. order[tx[s].order].status \in OrderStatuses
      BY <1>1, Typed DEF OrderRow
    <2>5. /\ tx[s].op = "confirm" => order[tx[s].order].status = "draft"
          /\ tx[s].op = "cancel" => "cancelled" \in OrderNext[order[tx[s].order].status]
      BY <2>1, <2>4 DEF OrderNext, OrderStatuses
    <2>6. StockSoFar(s)'
      <3>1. Cart(s)' = Cart(s) /\ Cart(s) \in Carts /\ Done(s)' = 0
        BY <1>1, <2>1, <2>2, <2>3, Typed DEF Cart, Done, rows
      <3>2. Pending(s)' = {}
        <4>1. \A v \in Variants : Ids(level'[s][v].new) = {}
          BY <1>1, <2>1, EmptySeq DEF Touched, Ids
        <4>2. QED
          BY <4>1 DEF Pending
      <3>3. {m \in TrackedLines(Cart(s)) : m <= 0} = {}
        BY <3>1, LineNumbers DEF TrackedLines
      <3>4. ASSUME NEW v \in Variants
            PROVE  LockedLevel(s, v)'.onHand = onHand'[v] + Signed(s, Taken(Cart(s), v, 0))'
        <4>1. LockedLevel(s, v)'.onHand = onHand'[v] /\ onHand'[v] \in Nat
          BY <1>1, <2>1, Typed DEF LockedLevel, CommittedLevel, Touched, rows
        <4>2. Signed(s, Taken(Cart(s), v, 0))' = 0
          BY <3>1, TakenAdds DEF Signed
        <4>3. QED
          BY <4>1, <4>2
      <3>5. QED
        BY <3>1, <3>2, <3>3, <3>4 DEF StockSoFar
    <2>7. OrderDoing(s)'
      BY <1>1, <2>1, <2>2, <2>3, <2>5, <2>6 DEF OrderDoing, OnOrder, rows
    <2>8. InvoiceDoing(s)' /\ PaymentDoing(s)'
      BY <1>1, <2>2, <2>3 DEF InvoiceDoing, PaymentDoing, OnOrder
    <2>9. QED
      BY <2>7, <2>8 DEF Doing
  <1>4. QED
    BY <1>2, <1>3

LEMMA AfterLinesDone ==
  ASSUME CashTypeOK, NEW s \in Sessions, Sound(s), tx[s].at \in {"sell", "return"}, NEW next \in AfterLines(s)
  PROVE  \/ next.at = tx[s].at /\ next.line = tx[s].line + 1
         \/ next.at \in {"number", "commit"} /\ tx[s].line = Len(Lines[Cart(s)])
  <1>1. tx[s] \in Request /\ tx[s].line \in 1..Len(Lines[Cart(s)]) /\ Len(Lines[Cart(s)]) \in Nat
    BY Typed, LineTyped, LinesTyped
  <1>2. CASE tx[s].line < Len(Lines[Cart(s)])
    <2>1. next = [tx[s] EXCEPT !.line = @ + 1]
      BY <1>2 DEF AfterLines
    <2>2. QED
      BY <1>1, <2>1 DEF Request
  <1>3. CASE ~(tx[s].line < Len(Lines[Cart(s)]))
    <2>1. PICK at \in {"number", "commit"} : next = [tx[s] EXCEPT !.line = 0, !.at = at]
      BY <1>3 DEF AfterLines
    <2>2. QED
      BY <1>1, <1>3, <2>1 DEF Request
  <1>4. QED
    BY <1>2, <1>3

LEMMA IdsAppend ==
  ASSUME NEW S, NEW l \in Seq(S), NEW m \in S
  PROVE  Ids(Append(l, m)) = Ids(l) \cup {m.id}
  <1>1. /\ Len(l) \in Nat /\ DOMAIN l = 1..Len(l) /\ DOMAIN Append(l, m) = 1..(Len(l) + 1)
        /\ \A n \in 1..Len(l) : Append(l, m)[n] = l[n]
    BY AppendProperties, LenProperties
  <1>2. Append(l, m)[Len(l) + 1] = m
    BY AppendProperties
  <1>3. QED
    BY <1>1, <1>2 DEF Ids

(* One more line is done: its move is pending, and its units are counted.  *)
LEMMA LineDoing ==
  ASSUME ImplInv, NEW s \in Sessions, tx[s].at \in {"sell", "return"},
         NEW next \in AfterLines(s), tx' = [tx EXCEPT ![s] = next], UNCHANGED rows, bill' = bill,
         \A r \in Lockable : Holds(s, r) => lock'[r] = s,
         NEW v, v = Line(s).variant,
         level' = IF v \in Tracked
                    THEN [level EXCEPT ![s][v] =
                            Moved(LockedLevel(s, v), MoveOf(s, tx[s].line), Signed(s, Line(s).quantity))]
                    ELSE level
  PROVE  Doing(s)'
  <1> DEFINE n == tx[s].line
             c == Cart(s)
             q == Signed(s, Line(s).quantity)
  <1>1. /\ CashTypeOK /\ Sound(s) /\ HasStock(s) /\ OnOrder(s) /\ StockSoFar(s) /\ tx[s].order \in Orders
        /\ tx[s].op = "confirm" => order[tx[s].order].status = "draft"
        /\ tx[s].op = "cancel" => /\ "cancelled" \in OrderNext[order[tx[s].order].status]
                                 /\ order[tx[s].order].status \in StockDeducted
                                 /\ VoidsLive(s)
        /\ tx[s].number = 0 /\ (tx[s].at = "sell" <=> tx[s].op = "confirm")
    BY Doings DEF OrderDoing, InvoiceDoing, Sound, OnOrder, HasNumber
  <1>2. /\ c \in Carts /\ n \in DOMAIN Lines[c] /\ DOMAIN Lines[c] = 1..Len(Lines[c]) /\ Len(Lines[c]) \in Nat
        /\ v \in Variants /\ Lines[c][n].variant = v /\ Line(s).quantity \in Nat /\ q \in Int
        /\ Lines[c][n].quantity = Line(s).quantity
    BY <1>1, LineTyped, LinesTyped DEF Signed, Line
  <1>3. /\ tx'[s] = next /\ next.op = tx[s].op /\ next.order = tx[s].order /\ next.invoice = tx[s].invoice
        /\ next.number = 0 /\ next.at \in {tx[s].at, "number", "commit"}
        /\ next.at = "number" => next.op = "confirm"
    BY <1>1, Typed, AfterLinesTyped
  <1>4. Done(s) = n - 1 /\ Done(s)' = n
    <2>1. Done(s) = n - 1
      BY DEF Done
    <2>2. Cart(s)' = c
      BY <1>3 DEF Cart, rows
    <2>3. CASE next.at = tx[s].at /\ next.line = n + 1
      BY <1>2, <1>3, <2>3 DEF Done
    <2>4. CASE next.at \in {"number", "commit"} /\ n = Len(Lines[c])
      BY <1>1, <1>3, <2>2, <2>4 DEF Done, OnOrder, rows
    <2>5. QED
      BY <1>1, <2>1, <2>3, <2>4, AfterLinesDone
  <1>5. ASSUME v \in Tracked
        PROVE  /\ level'[s][v] = Moved(LockedLevel(s, v), MoveOf(s, n), q)
               /\ level'[s][v].new # <<>> /\ level'[s][v].onHand = LockedLevel(s, v).onHand + q
               /\ Ids(level'[s][v].new) = Ids(level[s][v].new) \cup {MoveOf(s, n)}
    <2> DEFINE S == [id : Move, quantity : Int, balance_after : Nat]
               m == Movement(MoveOf(s, n), q, LockedLevel(s, v).onHand + q)
               was == LockedLevel(s, v).new
    <2>1. level'[s][v] = Moved(LockedLevel(s, v), MoveOf(s, n), q)
      BY <1>1, <1>2, <1>5, Typed
    <2>2. was \in Seq([id : Move, quantity : Int, balance_after : Nat])
      BY <1>1, <1>2, LockedLevelChains DEF PendingLevel
    <2>3. was \in Seq(S \cup {m})
      BY <2>2, SeqMonotonic
    <2>4. level'[s][v].onHand = LockedLevel(s, v).onHand + q /\ level'[s][v].new = Append(was, m)
      BY <2>1 DEF Moved
    <2>5. m.id = MoveOf(s, n)
      BY DEF Movement
    <2>6. Ids(was) = Ids(level[s][v].new)
      <3>1. CASE Touched(s, v)
        BY <3>1 DEF LockedLevel
      <3>2. CASE ~Touched(s, v)
        BY <3>2 DEF LockedLevel, Touched, CommittedLevel
      <3>3. QED
        BY <3>1, <3>2
    <2> HIDE DEF m, was
    <2>7. Append(was, m) # <<>> /\ Ids(Append(was, m)) = Ids(was) \cup {m.id}
      BY <2>3, AppendProperties, IdsAppend
    <2>8. QED
      BY <2>1, <2>4, <2>5, <2>6, <2>7
  <1>6. \A u \in Variants : u # v \/ v \notin Tracked => level'[s][u] = level[s][u]
    BY <1>1, <1>2, Typed
  <1>7. Pending(s)' = Pending(s) \cup (IF v \in Tracked THEN {MoveOf(s, n)} ELSE {})
    <2>1. CASE v \in Tracked
      BY <1>2, <1>5, <1>6, <2>1 DEF Pending
    <2>2. CASE v \notin Tracked
      BY <1>6, <2>2 DEF Pending
    <2>3. QED
      BY <2>1, <2>2
  <1>8. /\ Cart(s)' = c /\ \A m : MoveOf(s, m)' = MoveOf(s, m)
        /\ \A k : Signed(s, k)' = Signed(s, k)
    BY <1>3 DEF Cart, MoveOf, Signed, rows
  <1>9. {m \in TrackedLines(c) : m <= n} =
          {m \in TrackedLines(c) : m <= n - 1} \cup (IF v \in Tracked THEN {n} ELSE {})
    BY <1>2 DEF TrackedLines
  <1>10. Pending(s)' = {MoveOf(s, m) : m \in {k \in TrackedLines(c) : k <= n}}
    BY <1>1, <1>4, <1>7, <1>9 DEF StockSoFar
  <1>11. ASSUME NEW u \in Variants
         PROVE  LockedLevel(s, u)'.onHand = onHand'[u] + Signed(s, Taken(c, u, n))
    <2>1. LockedLevel(s, u).onHand = onHand[u] + Signed(s, Taken(c, u, n - 1)) /\ onHand[u] \in Nat
      BY <1>1, <1>4, Typed DEF StockSoFar
    <2>2. /\ Taken(c, u, n - 1) \in Nat /\ Taken(c, u, n) \in Nat
          /\ Taken(c, u, n) = Taken(c, u, n - 1) + (IF v = u /\ u \in Tracked THEN Line(s).quantity ELSE 0)
      <3>1. n - 1 \in 0..Len(Lines[c]) /\ n \in 0..Len(Lines[c])
        BY <1>2
      <3>2. /\ Taken(c, u, n - 1) \in Nat /\ Taken(c, u, n) \in Nat
            /\ Taken(c, u, n) = Taken(c, u, n - 1) +
                 (IF Lines[c][n].variant = u /\ u \in Tracked THEN Lines[c][n].quantity ELSE 0)
        <4> HIDE DEF c, n
        <4>1. QED
          BY <1>2, <3>1, TakenAdds
      <3>3. QED
        BY <1>2, <3>2
    <2>3. CASE u = v /\ v \in Tracked
      <3>1. LockedLevel(s, u)'.onHand = LockedLevel(s, u).onHand + q
        BY <1>5, <2>3 DEF LockedLevel, Touched
      <3>2. Taken(c, u, n) = Taken(c, u, n - 1) + Line(s).quantity
        BY <2>2, <2>3
      <3>3. Signed(s, Taken(c, u, n)) = Signed(s, Taken(c, u, n - 1)) + q
        BY <1>2, <2>2, <3>2 DEF Signed
      <3>4. Signed(s, Taken(c, u, n - 1)) \in Int
        BY <2>2 DEF Signed
      <3> HIDE DEF q, c, n
      <3>5. QED
        BY <1>2, <2>1, <3>1, <3>3, <3>4 DEF rows
    <2>4. CASE ~(u = v /\ v \in Tracked)
      <3>1. LockedLevel(s, u)' = LockedLevel(s, u)
        BY <1>6, <2>4 DEF LockedLevel, Touched, CommittedLevel, rows
      <3>2. QED
        BY <2>1, <2>2, <2>4, <3>1 DEF rows
    <2>5. QED
      BY <2>3, <2>4
  <1>12. StockSoFar(s)'
    BY <1>4, <1>8, <1>10, <1>11 DEF StockSoFar
  <1>13. OrderDoing(s)'
    BY <1>1, <1>3, <1>12 DEF OrderDoing, OnOrder, rows
  <1>14. InvoiceDoing(s)' /\ PaymentDoing(s)'
    <2>1. tx[s].op = "cancel" => VoidsLive(s)'
      <3>1. tx[s].invoice # 0 => InvoiceKey(tx[s].invoice) \in Lockable
        <4>1. tx[s].invoice # 0 => tx[s].invoice \in 1..MaxInvoices
          BY <1>1, InvoiceRows, SessionAssumption DEF Sound, ImplInv, InvoicesCounted, CashTypeOK
        <4>2. QED
          BY <4>1 DEF Lockable
      <3>2. QED
        BY <1>1, <1>3, <3>1 DEF VoidsLive, Holds, Live, rows
    <2>2. QED
      BY <1>1, <1>3, <2>1 DEF InvoiceDoing, PaymentDoing, OnOrder
  <1>15. QED
    BY <1>13, <1>14 DEF Doing

LEMMA SellLineDoing == ASSUME ImplInv, NEW s \in Sessions, SellLine(s) PROVE Doing(s)'
  <1> DEFINE v == Line(s).variant
             o == tx[s].order
             n == tx[s].line
  <1>1. /\ CashTypeOK /\ Sound(s) /\ tx[s].at = "sell" /\ tx[s].op = "confirm" /\ OnOrder(s)
        /\ o \in Orders /\ order[o].status = "draft" /\ StockFollowsOrders
    BY Doings DEF SellLine, Sound, OrderDoing, OnOrder, Inv
  <1>2. CASE Rollback(s)
    BY <1>2, RollbackDoing
  <1>3. CASE ~Rollback(s)
    <2>1. PICK next \in AfterLines(s) : tx' = [tx EXCEPT ![s] = next]
      BY <1>3 DEF SellLine
    <2>2. UNCHANGED rows /\ bill' = bill
      BY <1>3 DEF SellLine, rows
    <2>3. Sale(o, n) \notin moves
      BY <1>1 DEF StockFollowsOrders, Sale
    <2>4. MoveOf(s, n) = Sale(o, n) /\ Signed(s, Line(s).quantity) = -Line(s).quantity
      BY <1>1 DEF MoveOf, Signed
    <2>5. CASE v \notin Tracked
      <3>1. lock' = lock /\ level' = level
        BY <1>3, <2>5 DEF SellLine
      <3>2. QED
        BY <1>1, <2>1, <2>2, <2>5, <3>1, LineDoing DEF Holds
    <2>6. CASE v \in Tracked
      <3>1. /\ Granted(s) /\ Take(s)
            /\ level' = [level EXCEPT ![s][v] =
                           Moved(LockedLevel(s, v), Sale(o, n), -Line(s).quantity)]
        BY <1>3, <2>3, <2>6 DEF SellLine
      <3>2. \A r \in Lockable : Holds(s, r) => lock'[r] = s
        BY <1>1, <3>1, TakeKeeps
      <3>3. QED
        BY <1>1, <2>1, <2>2, <2>4, <2>6, <3>1, <3>2, LineDoing
    <2>7. QED
      BY <2>5, <2>6
  <1>4. QED
    BY <1>2, <1>3

LEMMA ReturnLineDoing == ASSUME ImplInv, NEW s \in Sessions, ReturnLine(s) PROVE Doing(s)'
  <1> DEFINE v == Line(s).variant
             o == tx[s].order
             n == tx[s].line
  <1>1. /\ CashTypeOK /\ Sound(s) /\ tx[s].at = "return" /\ tx[s].op = "cancel" /\ OnOrder(s)
        /\ o \in Orders /\ order[o].status \in StockDeducted /\ StockFollowsOrders
        /\ UNCHANGED rows /\ bill' = bill
    BY Doings DEF ReturnLine, Sound, OrderDoing, OnOrder, Inv
  <1>2. PICK next \in AfterLines(s) : tx' = [tx EXCEPT ![s] = next]
    BY DEF ReturnLine
  <1>3. n \in DOMAIN Lines[Cart(s)]
    BY <1>1, LineTyped
  <1>4. {m \in moves : m.order = o /\ m.kind = "sale"} = Sales(o) /\ {m \in moves : m.order = o /\ m.kind = "return"} = {}
    BY <1>1 DEF StockFollowsOrders
  <1>5. Return(o, n) \notin moves
    BY <1>4 DEF Return
  <1>6. Sale(o, n) \in moves <=> v \in Tracked
    <2>1. Sale(o, n) \in moves <=> Sale(o, n) \in Sales(o)
      BY <1>4 DEF Sale
    <2>2. Sale(o, n) \in Sales(o) <=> n \in TrackedLines(Cart(s))
      BY DEF Sales, Sale, Cart
    <2>3. QED
      BY <1>3, <2>1, <2>2 DEF TrackedLines, Line
  <1>7. MoveOf(s, n) = Return(o, n) /\ Signed(s, Line(s).quantity) = Line(s).quantity
    BY <1>1 DEF MoveOf, Signed
  <1>8. CASE v \notin Tracked
    <2>1. lock' = lock /\ level' = level
      BY <1>6, <1>8 DEF ReturnLine
    <2>2. QED
      BY <1>1, <1>2, <1>8, <2>1, LineDoing DEF Holds
  <1>9. CASE v \in Tracked
    <2>1. /\ Granted(s) /\ Take(s)
          /\ level' = [level EXCEPT ![s][v] = Moved(LockedLevel(s, v), Return(o, n), Line(s).quantity)]
      BY <1>5, <1>6, <1>9 DEF ReturnLine
    <2>2. \A r \in Lockable : Holds(s, r) => lock'[r] = s
      BY <1>1, <2>1, TakeKeeps
    <2>3. QED
      BY <1>1, <1>2, <1>7, <1>9, <2>1, <2>2, LineDoing
  <1>10. QED
    BY <1>8, <1>9

\* A step of a request that moves no stock.
LEMMA StockStays ==
  ASSUME NEW s \in Sessions, StockSoFar(s), UNCHANGED <<rows, level>>,
         tx'[s].op = tx[s].op, tx'[s].order = tx[s].order, Done(s)' = Done(s)
  PROVE  StockSoFar(s)'
  BY DEF StockSoFar, Pending, MoveOf, Signed, Cart, LockedLevel, Touched, CommittedLevel, rows

LEMMA NumberInvoiceDoing == ASSUME ImplInv, NEW s \in Sessions, NumberInvoice(s) PROVE Doing(s)'
  <1>1. /\ CashTypeOK /\ tx[s].at = "number" /\ tx[s].op = "confirm" /\ OnOrder(s) /\ UNCHANGED <<rows, level>>
        /\ tx[s].order \in Orders /\ order[tx[s].order].status = "draft" /\ StockSoFar(s) /\ tx[s].number = 0
    BY Doings DEF NumberInvoice, Sound, OrderDoing, OnOrder, HasNumber
  <1>2. tx'[s].op = "confirm" /\ tx'[s].order = tx[s].order /\ tx'[s].at = "commit"
    BY <1>1, Typed DEF NumberInvoice, GoTo, Request
  <1>3. Done(s)' = Done(s)
    BY <1>1, <1>2 DEF Done, Cart, rows
  <1>4. OrderDoing(s)' /\ PaymentDoing(s)'
    BY <1>1, <1>2, <1>3, StockStays DEF OrderDoing, PaymentDoing, OnOrder, rows
  <1>5. InvoiceDoing(s)'
    <2>1. CASE \E i \in DOMAIN invoice : Live(i, tx[s].order)
      <3>1. tx'[s].number = 0
        BY <1>1, <2>1, GoToTyped DEF NumberInvoice
      <3>2. QED
        BY <1>2, <3>1 DEF InvoiceDoing
    <2>2. CASE ~\E i \in DOMAIN invoice : Live(i, tx[s].order)
      <3>1. /\ tx' = [tx EXCEPT ![s].number = nextNumber["invoice"], ![s].at = "commit"]
            /\ bill' = [bill EXCEPT ![s] = NewInvoice(tx[s].order)] /\ nextNumber["invoice"] <= MaxInvoices
        BY <2>2 DEF NumberInvoice
      <3>2. tx'[s].number = nextNumber["invoice"] /\ bill'[s] = NewInvoice(tx[s].order)
        BY <1>1, <3>1, Typed DEF Request
      <3>3. NewInvoice(tx[s].order)' = NewInvoice(tx[s].order)
        BY <1>1, <1>2 DEF NewInvoice, rows
      <3>4. QED
        BY <1>1, <1>2, <2>2, <3>1, <3>2, <3>3 DEF InvoiceDoing, Live, rows
    <2>3. QED
      BY <2>1, <2>2
  <1>6. QED
    BY <1>4, <1>5 DEF Doing

LEMMA FindInvoiceDoing == ASSUME ImplInv, NEW s \in Sessions, FindInvoice(s) PROVE Doing(s)'
  <1> DEFINE o == tx[s].order
  <1>1. /\ CashTypeOK /\ tx[s].at = "find" /\ tx[s].op = "cancel" /\ OnOrder(s) /\ UNCHANGED <<rows, lock, level, bill>>
        /\ o \in Orders /\ "cancelled" \in OrderNext[order[o].status] /\ StockSoFar(s)
        /\ tx[s].number = 0 /\ tx[s].invoice = 0 /\ tx[s].line = 1
    BY Doings DEF FindInvoice, Sound, OrderDoing, InvoiceDoing, OnOrder, HasNumber
  <1>2. CASE ~\E i \in DOMAIN invoice : Live(i, o)
    <2>1. GoTo(s, AfterInvoice(s)) /\ AfterInvoice(s) \in {"return", "commit"}
      BY <1>2 DEF FindInvoice, AfterInvoice
    <2>2. /\ tx'[s].op = "cancel" /\ tx'[s].order = o /\ tx'[s].line = 1 /\ tx'[s].number = 0
          /\ tx'[s].invoice = 0 /\ tx'[s].at = AfterInvoice(s)
      BY <1>1, <2>1, GoToTyped
    <2>3. Done(s)' = Done(s)
      BY <1>1, <2>2 DEF Done, Cart, AfterInvoice, rows
    <2>4. OrderDoing(s)' /\ PaymentDoing(s)'
      BY <1>1, <2>1, <2>2, <2>3, StockStays DEF OrderDoing, PaymentDoing, OnOrder, AfterInvoice, rows
    <2>5. InvoiceDoing(s)'
      BY <1>1, <1>2, <2>1, <2>2 DEF InvoiceDoing, VoidsLive, Live, rows
    <2>6. QED
      BY <2>4, <2>5 DEF Doing
  <1>3. CASE \E i \in DOMAIN invoice : Live(i, o)
    <2>1. PICK i \in DOMAIN invoice : Live(i, o) /\ tx' = [tx EXCEPT ![s].invoice = i, ![s].at = "invoice"]
      BY <1>3 DEF FindInvoice
    <2>2. /\ tx'[s].op = "cancel" /\ tx'[s].order = o /\ tx'[s].line = 1 /\ tx'[s].number = 0
          /\ tx'[s].invoice = i /\ tx'[s].at = "invoice"
      BY <1>1, <2>1, Typed DEF Request
    <2>3. Done(s)' = Done(s)
      BY <1>1, <2>2 DEF Done
    <2>4. OrderDoing(s)' /\ PaymentDoing(s)'
      BY <1>1, <2>2, <2>3, StockStays DEF OrderDoing, PaymentDoing, OnOrder, rows
    <2>5. InvoiceDoing(s)'
      BY <1>1, <2>1, <2>2 DEF InvoiceDoing, Live, rows
    <2>6. QED
      BY <2>4, <2>5 DEF Doing
  <1>4. QED
    BY <1>2, <1>3

LEMMA InvoiceLockable == ASSUME ImplInv, NEW i \in DOMAIN invoice PROVE InvoiceKey(i) \in Lockable
  <1>1. i \in 1..MaxInvoices
    BY InvoiceRows, SessionAssumption DEF ImplInv, CashInv, CashTypeOK, InvoicesCounted
  <1>2. QED
    BY <1>1 DEF Lockable

LEMMA VoidInvoiceDoing == ASSUME ImplInv, NEW s \in Sessions, VoidInvoice(s) PROVE Doing(s)'
  <1> DEFINE o == tx[s].order
             i == tx[s].invoice
  <1>1. /\ CashTypeOK /\ tx[s].at = "invoice" /\ tx[s].op = "cancel" /\ OnOrder(s) /\ Granted(s)
        /\ o \in Orders /\ "cancelled" \in OrderNext[order[o].status] /\ StockSoFar(s)
        /\ tx[s].number = 0 /\ tx[s].line = 1 /\ i # 0 /\ i \in DOMAIN invoice /\ invoice[i].order = o
    BY Doings DEF VoidInvoice, Sound, OrderDoing, InvoiceDoing, OnOrder, HasNumber
  <1>2. CASE Rollback(s)
    BY <1>2, RollbackDoing
  <1>3. CASE ~Rollback(s)
    <2>1. /\ Take(s) /\ bill' = [bill EXCEPT ![s] = [invoice[i] EXCEPT !.status = "void"]]
          /\ GoTo(s, AfterInvoice(s)) /\ UNCHANGED <<rows, level>> /\ Voidable(invoice[i])
          /\ AfterInvoice(s) \in {"return", "commit"}
      BY <1>3 DEF VoidInvoice, AfterInvoice
    <2>2. /\ tx'[s].op = "cancel" /\ tx'[s].order = o /\ tx'[s].line = 1 /\ tx'[s].number = 0
          /\ tx'[s].invoice = i /\ tx'[s].at = AfterInvoice(s)
      BY <1>1, <2>1, GoToTyped
    <2>3. Done(s)' = Done(s)
      BY <1>1, <2>1, <2>2 DEF Done, Cart, AfterInvoice, rows
    <2>4. OrderDoing(s)' /\ PaymentDoing(s)'
      BY <1>1, <2>1, <2>2, <2>3, StockStays DEF OrderDoing, PaymentDoing, OnOrder, AfterInvoice, rows
    <2>5. Wanted(s) = InvoiceKey(i) /\ Wanted(s) \in Lockable
      BY <1>1, InvoiceLockable DEF Wanted
    <2>6. lock'[InvoiceKey(i)] = s /\ bill'[s] = [invoice[i] EXCEPT !.status = "void"]
      BY <1>1, <2>1, <2>5, Typed, TakeKeeps
    <2>7. Live(i, o)
      BY <1>1, <2>1 DEF Live, Voidable
    <2>8. InvoiceDoing(s)'
      BY <1>1, <2>1, <2>2, <2>6, <2>7 DEF InvoiceDoing, VoidsLive, Holds, Live, rows
    <2>9. QED
      BY <2>4, <2>8 DEF Doing
  <1>4. QED
    BY <1>2, <1>3

LEMMA LockInvoiceDoing == ASSUME ImplInv, NEW s \in Sessions, LockInvoice(s) PROVE Doing(s)'
  <1> DEFINE i == tx[s].invoice
  <1>1. /\ CashTypeOK /\ tx[s].at = "invoice" /\ tx[s].op = "pay" /\ Granted(s) /\ i \in DOMAIN invoice
        /\ tx[s].number = 0
    BY Doings DEF LockInvoice, Sound, HasNumber
  <1>2. CASE Rollback(s)
    BY <1>2, RollbackDoing
  <1>3. CASE ~Rollback(s)
    <2>1. /\ Take(s) /\ GoTo(s, "number") /\ UNCHANGED <<rows, level, bill>>
          /\ invoice[i].status \in OpenStatuses /\ ~(tx[s].amount > Balance(invoice[i]))
      BY <1>3 DEF LockInvoice
    <2>2. /\ tx'[s].op = "pay" /\ tx'[s].invoice = i /\ tx'[s].at = "number" /\ tx'[s].amount = tx[s].amount
      BY <1>1, <2>1, GoToTyped
    <2>3. lock'[InvoiceKey(i)] = s
      <3>1. Wanted(s) = InvoiceKey(i) /\ Wanted(s) \in Lockable
        BY <1>1, InvoiceLockable DEF Wanted
      <3>2. QED
        BY <1>1, <2>1, <3>1, TakeKeeps
    <2>4. tx[s].amount <= Balance(invoice[i])
      <3>1. tx[s].amount \in Int /\ Balance(invoice[i]) \in Int
        <4>1. TypeOK /\ tx[s].amount \in Amounts
          BY <1>1, Doings DEF Sound
        <4>2. invoice[i].total \in Nat /\ invoice[i].paid \in Nat
          BY <1>1, <4>1, InvoiceRows
        <4>3. tx[s].amount \in Nat
          BY <4>1, AmountAssumption
        <4>4. Balance(invoice[i]) \in Int
          BY <4>2 DEF Balance
        <4>5. QED
          BY <4>3, <4>4
      <3>2. QED
        BY <2>1, <3>1
    <2>5. PaymentDoing(s)'
      BY <2>1, <2>2, <2>3, <2>4 DEF PaymentDoing, Holds, Balance, rows
    <2>6. OrderDoing(s)' /\ InvoiceDoing(s)'
      BY <2>2 DEF OrderDoing, InvoiceDoing, OnOrder
    <2>7. QED
      BY <2>5, <2>6 DEF Doing
  <1>4. QED
    BY <1>2, <1>3

LEMMA InsertPaymentDoing == ASSUME ImplInv, NEW s \in Sessions, InsertPayment(s) PROVE Doing(s)'
  <1> DEFINE i == tx[s].invoice
             was == invoice[i]
             paid == was.paid + tx[s].amount
             row == [was EXCEPT !.paid = paid, !.status = IF paid = was.total THEN "paid" ELSE "partially_paid"]
  <1>1. /\ CashTypeOK /\ tx[s].at = "number" /\ tx[s].op = "pay" /\ Granted(s) /\ i \in DOMAIN invoice
        /\ Holds(s, InvoiceKey(i)) /\ was.status \in OpenStatuses /\ tx[s].amount <= Balance(was)
    BY Doings DEF InsertPayment, Sound, PaymentDoing
  <1>2. CASE Rollback(s)
    BY <1>2, RollbackDoing
  <1>3. CASE ~Rollback(s)
    <2>1. /\ Take(s) /\ UNCHANGED <<rows, level>> /\ ~KeyUsed(tx[s].key) /\ bill' = [bill EXCEPT ![s] = row]
          /\ tx' = [tx EXCEPT ![s].number = nextNumber["payment"], ![s].at = "commit"]
      BY <1>3 DEF InsertPayment
    <2>2. /\ tx'[s].op = "pay" /\ tx'[s].invoice = i /\ tx'[s].at = "commit" /\ tx'[s].amount = tx[s].amount
          /\ tx'[s].key = tx[s].key
      BY <1>1, <2>1, Typed DEF Request
    <2>3. lock'[InvoiceKey(i)] = s
      BY <1>1, <2>1, InvoiceLockable, TakeKeeps
    <2>4. bill'[s] = row
      BY <1>1, <2>1, Typed
    <2>5. PaymentDoing(s)'
      BY <1>1, <2>1, <2>2, <2>3, <2>4 DEF PaymentDoing, Holds, Balance, KeyUsed, rows
    <2>6. OrderDoing(s)' /\ InvoiceDoing(s)'
      BY <2>2 DEF OrderDoing, InvoiceDoing, OnOrder
    <2>7. QED
      BY <2>5, <2>6 DEF Doing
  <1>4. QED
    BY <1>2, <1>3

----------------------------------------------------------------------------
(* Every commit is the one change that OrderBook makes of the request.     *)

LEMMA StockCommitted ==
  ASSUME ImplInv, NEW s \in Sessions, OnOrder(s), StockSoFar(s), CommitStock(s),
         Done(s) = Len(Lines[Cart(s)])
  PROVE  /\ onHand' = [v \in Variants |-> onHand[v] + Signed(s, Demand[Cart(s)][v])]
         /\ \A v \in Variants : onHand[v] + Signed(s, Demand[Cart(s)][v]) >= 0
         /\ moves' = moves \cup {MoveOf(s, n) : n \in TrackedLines(Cart(s))}
  <1>1. CashTypeOK /\ Sound(s) /\ HasStock(s)
    BY Doings
  <1>2. Cart(s) \in Carts
    BY <1>1, DoneTyped
  <1>3. ASSUME NEW v \in Variants
        PROVE  /\ LockedLevel(s, v).onHand = onHand[v] + Signed(s, Demand[Cart(s)][v])
               /\ LockedLevel(s, v).onHand \in Nat
    BY <1>1, <1>2, TakenAdds, LockedLevelChains DEF StockSoFar, PendingLevel
  <1>4. {m \in TrackedLines(Cart(s)) : m <= Len(Lines[Cart(s)])} = TrackedLines(Cart(s))
    BY <1>2, LinesTyped DEF TrackedLines
  <1>5. moves' = moves \cup Pending(s)
    BY DEF CommitStock, Pending, Ids
  <1>6. onHand' = [v \in Variants |-> LockedLevel(s, v).onHand]
    BY DEF CommitStock
  <1>7. QED
    BY <1>3, <1>4, <1>5, <1>6 DEF StockSoFar

LEMMA ConfirmActs ==
  ASSUME ImplInv, NEW s \in Sessions, CommitConfirm(s)
  PROVE  Confirm(tx[s].order, tx[s].number # 0)
  <1> DEFINE o == tx[s].order
  <1>1. /\ CashTypeOK /\ tx[s].at = "commit" /\ tx[s].op = "confirm" /\ OnOrder(s) /\ o \in Orders
        /\ order[o].status = "draft" /\ StockSoFar(s) /\ Cart(s) \in Carts /\ Cart(s) = order[o].cart
        /\ tx[s].number # 0 => bill[s] = NewInvoice(o) /\ \A i \in DOMAIN invoice : ~Live(i, o)
    BY Doings, DoneTyped DEF CommitConfirm, Sound, OrderDoing, InvoiceDoing, OnOrder, Cart
  <1>2. /\ CommitStock(s) /\ UNCHANGED payment
        /\ order' = [order EXCEPT ![o].status = "confirmed"]
        /\ IF tx[s].number = 0 THEN invoice' = invoice ELSE invoice' = Append(invoice, bill[s])
    BY DEF CommitConfirm
  <1>3. Done(s) = Len(Lines[Cart(s)])
    BY <1>1 DEF Done
  <1>4. /\ onHand' = [v \in Variants |-> onHand[v] + Signed(s, Demand[Cart(s)][v])]
        /\ \A v \in Variants : onHand[v] + Signed(s, Demand[Cart(s)][v]) >= 0
        /\ moves' = moves \cup {MoveOf(s, n) : n \in TrackedLines(Cart(s))}
    BY <1>1, <1>2, <1>3, StockCommitted
  <1>5. \A v \in Variants : onHand[v] \in Nat /\ Demand[Cart(s)][v] \in Nat
    BY <1>1, CartAssumption, Typed
  <1>6. /\ onHand' = [v \in Variants |-> onHand[v] - Demand[order[o].cart][v]]
        /\ \A v \in Variants : Demand[order[o].cart][v] <= onHand[v]
    BY <1>1, <1>4, <1>5 DEF Signed
  <1>7. moves' = moves \cup Sales(o)
    BY <1>1, <1>4 DEF MoveOf, Sales
  <1>8. QED
    BY <1>1, <1>2, <1>6, <1>7 DEF Confirm

LEMMA CancelActs == ASSUME ImplInv, NEW s \in Sessions, CommitCancel(s) PROVE Cancel(tx[s].order)
  <1> DEFINE o == tx[s].order
             k == tx[s].invoice
  <1>1. /\ CashTypeOK /\ TypeOK /\ tx[s].at = "commit" /\ tx[s].op = "cancel" /\ OnOrder(s) /\ o \in Orders
        /\ "cancelled" \in OrderNext[order[o].status] /\ StockSoFar(s) /\ Cart(s) \in Carts /\ Cart(s) = order[o].cart
        /\ VoidsLive(s) /\ StockFollowsOrders /\ InvoiceFollowsOrder /\ (k # 0 => k \in DOMAIN invoice)
    BY Doings, DoneTyped DEF CommitCancel, Sound, OrderDoing, InvoiceDoing, OnOrder, Cart, Inv
  <1>2. /\ CommitStock(s) /\ UNCHANGED payment
        /\ order' = [order EXCEPT ![o].status = "cancelled"]
        /\ invoice' = IF k = 0 THEN invoice ELSE [invoice EXCEPT ![k] = bill[s]]
    BY DEF CommitCancel
  <1>3. /\ \A i \in DOMAIN invoice : Live(i, o) => Voidable(invoice[i])
        /\ invoice' = [i \in DOMAIN invoice |-> IF Live(i, o) THEN [invoice[i] EXCEPT !.status = "void"] ELSE invoice[i]]
    <2>1. invoice = [i \in DOMAIN invoice |-> invoice[i]]
      BY <1>1, InvoiceRows
    <2>2. CASE k = 0
      BY <1>1, <1>2, <2>1, <2>2 DEF VoidsLive
    <2>3. CASE k # 0
      <3>1. /\ k \in DOMAIN invoice /\ Live(k, o) /\ Voidable(invoice[k])
            /\ bill[s] = [invoice[k] EXCEPT !.status = "void"]
        BY <1>1, <2>3 DEF VoidsLive
      <3>2. \A i \in DOMAIN invoice : Live(i, o) <=> i = k
        BY <1>1, <3>1 DEF InvoiceFollowsOrder
      <3>3. QED
        BY <1>2, <2>1, <2>3, <3>1, <3>2
    <2>4. QED
      BY <2>2, <2>3
  <1>4. CASE order[o].status \in StockDeducted
    <2>1. Done(s) = Len(Lines[Cart(s)])
      BY <1>1, <1>4 DEF Done
    <2>2. /\ onHand' = [v \in Variants |-> onHand[v] + Signed(s, Demand[Cart(s)][v])]
          /\ moves' = moves \cup {MoveOf(s, n) : n \in TrackedLines(Cart(s))}
      BY <1>1, <1>2, <2>1, StockCommitted
    <2>3. Returns(o) = {MoveOf(s, n) : n \in TrackedLines(Cart(s))}
      <3>1. {m \in moves : m.order = o /\ m.kind = "sale"} = Sales(o)
        BY <1>1, <1>4 DEF StockFollowsOrders
      <3>2. \A n \in TrackedLines(Cart(s)) : Sale(o, n) \in moves
        BY <1>1, <3>1 DEF Sales
      <3>3. QED
        BY <1>1, <3>2 DEF Returns, MoveOf
    <2>4. onHand' = [v \in Variants |-> onHand[v] + Demand[order[o].cart][v]]
      BY <1>1, <2>2 DEF Signed
    <2>5. QED
      BY <1>1, <1>2, <1>3, <1>4, <2>2, <2>3, <2>4 DEF Cancel
  <1>5. CASE order[o].status \notin StockDeducted
    <2>1. Done(s) = 0
      BY <1>1, <1>5 DEF Done
    <2>2. onHand' = onHand
      <3>1. \A v \in Variants : LockedLevel(s, v).onHand = onHand[v] + Taken(Cart(s), v, 0)
        BY <1>1, <2>1 DEF StockSoFar, Signed
      <3>2. \A v \in Variants : LockedLevel(s, v).onHand = onHand[v]
        BY <1>1, <3>1, TakenAdds, Typed
      <3>3. onHand' = [v \in Variants |-> onHand[v]]
        BY <1>2, <3>2 DEF CommitStock
      <3>4. QED
        BY <1>1, <3>3, Typed
    <2>3. moves' = moves
      <3>1. Pending(s) = {}
        BY <1>1, <2>1, LineNumbers DEF StockSoFar, TrackedLines
      <3>2. moves' = moves \cup Pending(s)
        BY <1>2 DEF CommitStock, Pending, Ids
      <3>3. QED
        BY <3>1, <3>2
    <2>4. QED
      BY <1>1, <1>2, <1>3, <1>5, <2>2, <2>3 DEF Cancel
  <1>6. QED
    BY <1>4, <1>5

LEMMA PayActs ==
  ASSUME ImplInv, NEW s \in Sessions, CommitPayment(s)
  PROVE  Pay(tx[s].invoice, tx[s].amount, tx[s].key)
  <1> DEFINE k == tx[s].invoice
             row == invoice[k]
             paid == row.paid + tx[s].amount
  <1>1. /\ tx[s].at = "commit" /\ tx[s].op = "pay" /\ k \in DOMAIN invoice /\ TypeOK
        /\ row.status \in OpenStatuses /\ tx[s].amount <= Balance(row) /\ ~KeyUsed(tx[s].key)
        /\ bill[s] = [row EXCEPT !.paid = paid, !.status = IF paid = row.total THEN "paid" ELSE "partially_paid"]
    BY Doings DEF CommitPayment, Sound, PaymentDoing
  <1>2. /\ invoice' = [invoice EXCEPT ![k] = bill[s]]
        /\ payment' = Append(payment, [invoice |-> k, amount |-> tx[s].amount, key |-> tx[s].key])
        /\ UNCHANGED <<order, onHand, moves>>
    BY DEF CommitPayment
  <1>3. invoice' = [invoice EXCEPT ![k].paid = @ + tx[s].amount,
                                   ![k].status = IF paid = row.total THEN "paid" ELSE "partially_paid"]
    BY <1>1, <1>2, InvoiceRows
  <1>4. QED
    BY <1>1, <1>2, <1>3 DEF Pay, KeyUsed

LEMMA CommitUndisturbed ==
  ASSUME ImplInv, NEW s \in Sessions, Commits(s), NEW t \in Sessions, t # s,
         NEW o, Holds(s, OrderKey(o)) \/ order' = order,
         \A p \in Orders : p # o => order'[p] = order[p],
         \A i \in DOMAIN invoice :
           /\ invoice'[i].order = invoice[i].order
           /\ invoice[i].status = "void" => invoice'[i].status = "void"
           /\ invoice'[i] = invoice[i] \/ Holds(s, InvoiceKey(i)),
         \A i \in DOMAIN invoice' \ DOMAIN invoice : invoice'[i].order = o /\ Holds(s, OrderKey(o)),
         payment' = payment \/ Holds(s, SequenceKey("payment"))
  PROVE  Undisturbed(t)
  <1>1. Spared(t)
    BY Doings, CommitSpares
  <1>2. QED
    BY <1>1 DEF Undisturbed, Holds

\* With what it is in OrderBook, a commit keeps the invariant.
LEMMA CommitImplements ==
  ASSUME ImplInv, NEW s \in Sessions, Commits(s), Next, InvoicesCounted',
         \A t \in Sessions : t # s => Undisturbed(t)
  PROVE  ImplInv'
  <1>1. CashInv' /\ CashTypeOK'
    BY CommitKeeps DEF ImplInv, CashInv
  <1>2. Inv'
    BY InvInductive DEF ImplInv
  <1>3. \A t \in Sessions : t # s => Doing(t)'
    BY <1>1, UndisturbedKeeps
  <1>4. Doing(s)'
    BY Doings, EndDoing DEF Commits
  <1>5. QED
    BY <1>1, <1>2, <1>3, <1>4 DEF ImplInv

LEMMA ConfirmImplements == ASSUME ImplInv, NEW s \in Sessions, CommitConfirm(s) PROVE ImplInv' /\ Next
  <1> DEFINE o == tx[s].order
  <1>1. /\ TypeOK /\ CashTypeOK /\ tx[s].op = "confirm" /\ o \in Orders /\ Holds(s, OrderKey(o)) /\ HasNumber(s)
        /\ bill[s] \in InvoiceRow
        /\ tx[s].number # 0 => bill[s] = NewInvoice(o) /\ tx[s].number <= MaxInvoices
    BY Doings, Typed DEF CommitConfirm, Sound, HasOrder, OnOrder, InvoiceDoing
  <1>2. Commits(s)
    BY CommitConfirmKeeps DEF ImplInv
  <1>3. Next
    BY <1>1, ConfirmActs DEF Next, OrderStep
  <1>4. CASE tx[s].number = 0
    <2>1. UNCHANGED <<invoice, nextNumber, payment>> /\ order' = [order EXCEPT ![o].status = "confirmed"]
      BY <1>4 DEF CommitConfirm
    <2>2. \A p \in Orders : p # o => order'[p] = order[p]
      BY <1>1, <2>1, Typed
    <2>3. \A t \in Sessions : t # s => Undisturbed(t)
      BY <1>1, <1>2, <2>1, <2>2, CommitUndisturbed
    <2>4. InvoicesCounted'
      BY <2>1 DEF ImplInv, InvoicesCounted
    <2>5. QED
      BY <1>2, <1>3, <2>3, <2>4, CommitImplements
  <1>5. CASE tx[s].number # 0
    <2>1. /\ invoice' = Append(invoice, bill[s]) /\ nextNumber' = [nextNumber EXCEPT !["invoice"] = tx[s].number + 1]
          /\ payment' = payment /\ order' = [order EXCEPT ![o].status = "confirmed"]
      BY <1>5 DEF CommitConfirm, Numbering
    <2>2. \A p \in Orders : p # o => order'[p] = order[p]
      BY <1>1, <2>1, Typed
    <2>3. /\ invoice \in Seq(InvoiceRow) /\ Len(invoice) \in Nat /\ DOMAIN invoice = 1..Len(invoice)
          /\ invoice' \in Seq(InvoiceRow) /\ Len(invoice') = Len(invoice) + 1 /\ DOMAIN invoice' = 1..(Len(invoice) + 1)
          /\ \A i \in DOMAIN invoice : invoice'[i] = invoice[i]
      BY <1>1, <2>1, AppendProperties, LenProperties DEF TypeOK
    <2>4. invoice'[Len(invoice) + 1].order = o
      BY <1>1, <1>5, <2>1, <2>3, AppendProperties DEF NewInvoice
    <2>5. \A i \in DOMAIN invoice' \ DOMAIN invoice : invoice'[i].order = o
      BY <2>3, <2>4
    <2>6. \A t \in Sessions : t # s => Undisturbed(t)
      BY <1>1, <1>2, <2>1, <2>2, <2>3, <2>5, CommitUndisturbed
    <2>7. InvoicesCounted'
      <3>1. nextNumber["invoice"] = Len(invoice) + 1 /\ tx[s].number = nextNumber["invoice"]
        BY <1>1, <1>5 DEF ImplInv, InvoicesCounted, HasNumber, KindOf
      <3>2. nextNumber'["invoice"] = tx[s].number + 1
        BY <1>1, <2>1 DEF CashTypeOK, Numbered
      <3>3. QED
        BY <1>1, <1>5, <2>3, <3>1, <3>2 DEF InvoicesCounted
    <2>8. QED
      BY <1>2, <1>3, <2>6, <2>7, CommitImplements
  <1>6. QED
    BY <1>4, <1>5

LEMMA CancelImplements == ASSUME ImplInv, NEW s \in Sessions, CommitCancel(s) PROVE ImplInv' /\ Next
  <1> DEFINE o == tx[s].order
             k == tx[s].invoice
  <1>1. /\ TypeOK /\ CashTypeOK /\ tx[s].op = "cancel" /\ o \in Orders /\ Holds(s, OrderKey(o))
        /\ VoidsLive(s) /\ (k # 0 => k \in DOMAIN invoice)
    BY Doings DEF CommitCancel, Sound, HasOrder, OnOrder, InvoiceDoing
  <1>2. Commits(s)
    BY CommitCancelKeeps DEF ImplInv
  <1>3. Next
    BY <1>1, CancelActs DEF Next, OrderStep
  <1>4. /\ UNCHANGED <<payment, nextNumber>> /\ order' = [order EXCEPT ![o].status = "cancelled"]
        /\ invoice' = IF k = 0 THEN invoice ELSE [invoice EXCEPT ![k] = bill[s]]
    BY DEF CommitCancel
  <1>5. \A p \in Orders : p # o => order'[p] = order[p]
    BY <1>1, <1>4, Typed
  <1>6. /\ DOMAIN invoice' = DOMAIN invoice /\ Len(invoice') = Len(invoice)
        /\ \A i \in DOMAIN invoice :
             /\ invoice'[i].order = invoice[i].order
             /\ invoice[i].status = "void" => invoice'[i].status = "void"
             /\ invoice'[i] = invoice[i] \/ Holds(s, InvoiceKey(i))
    <2>1. CASE k = 0
      BY <1>4, <2>1
    <2>2. CASE k # 0
      <3>1. /\ k \in DOMAIN invoice /\ Holds(s, InvoiceKey(k)) /\ bill[s] = [invoice[k] EXCEPT !.status = "void"]
            /\ invoice \in Seq(InvoiceRow) /\ invoice[k] \in InvoiceRow
            /\ bill[s] \in InvoiceRow /\ k \in 1..Len(invoice)
        BY <1>1, <2>2, InvoiceRows, Typed DEF VoidsLive, TypeOK
      <3>2. bill[s].order = invoice[k].order /\ bill[s].status = "void"
        BY <3>1 DEF InvoiceRow
      <3>3. /\ invoice' = [invoice EXCEPT ![k] = bill[s]] /\ DOMAIN invoice' = DOMAIN invoice
            /\ Len(invoice') = Len(invoice) /\ \A i \in DOMAIN invoice : invoice'[i] = IF i = k THEN bill[s] ELSE invoice[i]
        BY <1>4, <2>2, <3>1, ExceptSeq
      <3>4. QED
        BY <3>1, <3>2, <3>3
    <2>3. QED
      BY <2>1, <2>2
  <1>7. \A t \in Sessions : t # s => Undisturbed(t)
    BY <1>1, <1>2, <1>4, <1>5, <1>6, CommitUndisturbed
  <1>8. InvoicesCounted'
    BY <1>4, <1>6 DEF ImplInv, InvoicesCounted
  <1>9. QED
    BY <1>2, <1>3, <1>7, <1>8, CommitImplements

LEMMA PayImplements == ASSUME ImplInv, NEW s \in Sessions, CommitPayment(s) PROVE ImplInv' /\ Next
  <1> DEFINE k == tx[s].invoice
             row == invoice[k]
             paid == row.paid + tx[s].amount
  <1>1. /\ TypeOK /\ CashTypeOK /\ tx[s].op = "pay" /\ k \in DOMAIN invoice /\ tx[s].amount \in Amounts
        /\ tx[s].key \in Keys \cup {NoKey} /\ Holds(s, InvoiceKey(k)) /\ Holds(s, SequenceKey("payment"))
        /\ row.status \in OpenStatuses
        /\ bill[s] = [row EXCEPT !.paid = paid, !.status = IF paid = row.total THEN "paid" ELSE "partially_paid"]
    BY Doings, Typed DEF CommitPayment, Sound, HasNumber, KindOf, PaymentDoing, Request
  <1>2. Commits(s)
    BY CommitPaymentKeeps DEF ImplInv
  <1>3. Next
    BY <1>1, PayActs DEF Next, InvoiceStep
  <1>4. /\ invoice' = [invoice EXCEPT ![k] = bill[s]] /\ order' = order
        /\ nextNumber' = [nextNumber EXCEPT !["payment"] = tx[s].number + 1]
    BY DEF CommitPayment, Numbering
  <1>5. /\ invoice \in Seq(InvoiceRow) /\ row \in InvoiceRow /\ bill[s] \in InvoiceRow /\ k \in 1..Len(invoice)
        /\ DOMAIN invoice = 1..Len(invoice)
    BY <1>1, InvoiceRows, Typed DEF TypeOK
  <1>6. bill[s].order = row.order /\ row.status # "void"
    BY <1>1, <1>5 DEF InvoiceRow, OpenStatuses
  <1>7. /\ DOMAIN invoice' = DOMAIN invoice /\ Len(invoice') = Len(invoice)
        /\ \A i \in DOMAIN invoice : invoice'[i] = IF i = k THEN bill[s] ELSE invoice[i]
    BY <1>4, <1>5, ExceptSeq
  <1>8. \A i \in DOMAIN invoice :
          /\ invoice'[i].order = invoice[i].order
          /\ invoice[i].status = "void" => invoice'[i].status = "void"
          /\ invoice'[i] = invoice[i] \/ Holds(s, InvoiceKey(i))
    BY <1>1, <1>6, <1>7
  <1>9. \A t \in Sessions : t # s => Undisturbed(t)
    BY <1>1, <1>2, <1>4, <1>7, <1>8, CommitUndisturbed
  <1>10. InvoicesCounted'
    <2>1. nextNumber'["invoice"] = nextNumber["invoice"]
      BY <1>1, <1>4 DEF CashTypeOK, Numbered
    <2>2. QED
      BY <1>7, <2>1 DEF ImplInv, InvoicesCounted
  <1>11. QED
    BY <1>2, <1>3, <1>9, <1>10, CommitImplements

----------------------------------------------------------------------------
(* A request of one step is the change that OrderBook makes of it, and     *)
(* touches no row that a request in progress relies on.                    *)

LEMMA QuietImplements ==
  ASSUME ImplInv, CashInv', [Next]_vars, InvoicesCounted', UNCHANGED Private, payment' = payment,
         \A o \in Orders :
           /\ order'[o] = order[o] \/ lock[OrderKey(o)] = Free \/ order[o].status = "none"
           /\ order[o].status # "none" => order'[o].status # "none",
         DOMAIN invoice \subseteq DOMAIN invoice',
         \A i \in DOMAIN invoice :
           /\ invoice'[i].order = invoice[i].order
           /\ invoice[i].status = "void" => invoice'[i].status = "void"
           /\ invoice'[i] = invoice[i] \/ lock[InvoiceKey(i)] = Free,
         \A i \in DOMAIN invoice' \ DOMAIN invoice : invoice'[i].order = NoOrder,
         \A kind \in Numbered : lock[SequenceKey(kind)] = Free \/ nextNumber'[kind] = nextNumber[kind],
         \A v \in Variants : lock[LevelKey(v)] = Free \/ onHand'[v] = onHand[v]
  PROVE  ImplInv' /\ [Next]_vars
  <1>1. Inv'
    BY InvInductive DEF ImplInv
  <1>2. ASSUME NEW t \in Sessions PROVE Doing(t)'
    <2>1. t # Free
      BY SessionAssumption
    <2>2. Spared(t)
      BY <2>1 DEF Spared, Private, Holds
    <2>3. Undisturbed(t)
      BY <2>1, <2>2, SetsAssumption DEF Undisturbed, Holds
    <2>4. QED
      BY <2>3, UndisturbedKeeps DEF CashInv
  <1>3. QED
    BY <1>1, <1>2 DEF ImplInv

(* The cases of QuietImplements: an order changes, or an invoice.          *)
LEMMA OrderRowImplements ==
  ASSUME ImplInv, CashInv', NEW o \in Orders, OrderStep(o), UNCHANGED Private,
         UNCHANGED <<onHand, moves, invoice, payment, nextNumber>>,
         lock[OrderKey(o)] = Free \/ order[o].status = "none",
         order'[o].status # "none", \A p \in Orders : p # o => order'[p] = order[p]
  PROVE  ImplInv' /\ [Next]_vars
  <1>1. Next
    BY DEF Next
  <1>2. InvoicesCounted'
    BY DEF ImplInv, InvoicesCounted
  <1>3. QED
    BY <1>1, <1>2, QuietImplements

LEMMA InvoiceRowImplements ==
  ASSUME ImplInv, CashInv', NEW i \in DOMAIN invoice, InvoiceStep(i), Untouched,
         UNCHANGED <<order, onHand, moves, payment>>, lock[InvoiceKey(i)] = Free, invoice[i].status # "void",
         NEW status \in InvoiceStatuses, invoice' = [invoice EXCEPT ![i].status = status]
  PROVE  ImplInv' /\ [Next]_vars
  <1>1. TypeOK /\ invoice \in Seq(InvoiceRow) /\ invoice[i] \in InvoiceRow /\ i \in 1..Len(invoice)
    BY InvoiceRows DEF ImplInv, Inv, TypeOK
  <1> DEFINE row == [invoice[i] EXCEPT !.status = status]
  <1>2. row \in InvoiceRow /\ row.order = invoice[i].order
    BY <1>1 DEF InvoiceRow
  <1>3. invoice' = [invoice EXCEPT ![i] = row]
    OBVIOUS
  <1> HIDE DEF row
  <1>4. /\ DOMAIN invoice' = DOMAIN invoice /\ Len(invoice') = Len(invoice)
        /\ \A j \in DOMAIN invoice : invoice'[j] = IF j = i THEN row ELSE invoice[j]
    BY <1>1, <1>2, <1>3, ExceptSeq
  <1>5. Next
    BY DEF Next
  <1>6. InvoicesCounted'
    BY <1>4 DEF ImplInv, InvoicesCounted, Untouched
  <1>7. UNCHANGED <<nextNumber, Private>>
    BY DEF Untouched
  <1>8. \A j \in DOMAIN invoice :
          /\ invoice'[j].order = invoice[j].order
          /\ invoice[j].status = "void" => invoice'[j].status = "void"
          /\ invoice'[j] = invoice[j] \/ lock[InvoiceKey(j)] = Free
    BY <1>2, <1>4
  <1>9. QED
    BY <1>4, <1>5, <1>6, <1>7, <1>8, QuietImplements

LEMMA InvoiceByHandImplements ==
  ASSUME ImplInv, NEW total \in Totals, InvoiceByHand(total) PROVE ImplInv' /\ [Next]_vars
  <1> DEFINE row == [status |-> "draft", total |-> total, paid |-> 0, order |-> NoOrder]
  <1>1. CashInv' /\ CashTypeOK /\ TypeOK /\ InvoicesCounted
    BY InvoiceByHandKeeps DEF ImplInv, CashInv, Inv
  <1>2. /\ CreateInvoice(total) /\ invoice' = Append(invoice, row) /\ lock[SequenceKey("invoice")] = Free
        /\ nextNumber' = [nextNumber EXCEPT !["invoice"] = nextNumber["invoice"] + 1]
        /\ nextNumber["invoice"] <= MaxInvoices
        /\ UNCHANGED <<order, onHand, moves, payment, Private>>
    BY DEF InvoiceByHand, CreateInvoice
  <1>3. row \in InvoiceRow /\ row.order = NoOrder
    BY AmountAssumption DEF InvoiceRow, InvoiceStatuses
  <1> HIDE DEF row
  <1>4. /\ Len(invoice) \in Nat /\ DOMAIN invoice = 1..Len(invoice)
        /\ Len(invoice') = Len(invoice) + 1 /\ DOMAIN invoice' = 1..(Len(invoice) + 1)
        /\ invoice'[Len(invoice) + 1] = row /\ \A i \in DOMAIN invoice : invoice'[i] = invoice[i]
    BY <1>1, <1>2, <1>3, AppendProperties, LenProperties DEF TypeOK
  <1>5. /\ nextNumber'["invoice"] = nextNumber["invoice"] + 1
        /\ \A kind \in Numbered : kind # "invoice" => nextNumber'[kind] = nextNumber[kind]
    BY <1>1, <1>2 DEF CashTypeOK, Numbered
  <1>6. InvoicesCounted'
    BY <1>1, <1>2, <1>4, <1>5 DEF InvoicesCounted
  <1>7. Next
    BY <1>2 DEF Next
  <1>8. \A i \in DOMAIN invoice' \ DOMAIN invoice : invoice'[i].order = NoOrder
    BY <1>3, <1>4
  <1>9. DOMAIN invoice \subseteq DOMAIN invoice'
    BY <1>4
  <1>10. QED
    BY <1>1, <1>2, <1>4, <1>5, <1>6, <1>7, <1>8, <1>9, QuietImplements

LEMMA OneRowImplements == ASSUME ImplInv, OneRow PROVE ImplInv' /\ [Next]_vars
  <1>1. CashInv' /\ CashTypeOK /\ TypeOK /\ InvoicesCounted /\ priceList \in Prices
        /\ order \in [Orders -> OrderRow] /\ onHand \in [Variants -> Nat]
    BY OneRowKeeps DEF ImplInv, CashInv, CashTypeOK, TypeOK
  <1>2. ASSUME NEW o \in Orders, NEW c \in Carts, NEW p \in Prices, NEW source \in {"manual", "quote"},
               CreateDraft(o, c, p, source), Untouched
        PROVE  ImplInv' /\ [Next]_vars
    <2>1. OrderStep(o)
      BY <1>2 DEF OrderStep
    <2>2. order'[o].status # "none" /\ \A q \in Orders : q # o => order'[q] = order[q]
      BY <1>1, <1>2 DEF CreateDraft
    <2>3. QED
      BY <1>1, <1>2, <2>1, <2>2, OrderRowImplements DEF CreateDraft, Untouched
  <1>3. ASSUME NEW o \in Orders, NEW c \in Carts, Edit(o, c) PROVE ImplInv' /\ [Next]_vars
    <2>1. OrderStep(o)
      BY <1>1, <1>3 DEF OrderStep, Edit
    <2>2. order'[o].status # "none" /\ \A q \in Orders : q # o => order'[q] = order[q]
      BY <1>1, <1>3 DEF Edit, UpdateLines, OrderRow
    <2>3. QED
      BY <1>1, <1>3, <2>1, <2>2, OrderRowImplements DEF Edit, UpdateLines, Untouched
  <1>4. ASSUME NEW o \in Orders, NEW action \in DOMAIN ProgressTarget, Advance(o, action) PROVE ImplInv' /\ [Next]_vars
    <2>1. OrderStep(o)
      BY <1>4 DEF OrderStep, Advance
    <2>2. order'[o].status # "none" /\ \A q \in Orders : q # o => order'[q] = order[q]
      BY <1>1, <1>4 DEF Advance, Progress, OrderRow, ProgressTarget
    <2>3. QED
      BY <1>1, <1>4, <2>1, <2>2, OrderRowImplements DEF Advance, Progress, Untouched
  <1>5. ASSUME NEW i \in DOMAIN invoice, IssueByHand(i) PROVE ImplInv' /\ [Next]_vars
    BY <1>1, <1>5, InvoiceRowImplements DEF IssueByHand, Issue, InvoiceStep, InvoiceStatuses
  <1>6. ASSUME NEW i \in DOMAIN invoice, VoidByHand(i) PROVE ImplInv' /\ [Next]_vars
    BY <1>1, <1>6, InvoiceRowImplements DEF VoidByHand, Void, Voidable, InvoiceStep, InvoiceStatuses
  <1>7. ASSUME NEW v \in Variants, NEW q \in Adjustments, AdjustByHand(v, q) PROVE ImplInv' /\ [Next]_vars
    <2>1. Next /\ InvoicesCounted' /\ UNCHANGED <<order, invoice, payment, nextNumber, Private>>
      BY <1>1, <1>7 DEF Next, AdjustByHand, Adjust, InvoicesCounted
    <2>2. \A u \in Variants : lock[LevelKey(u)] = Free \/ onHand'[u] = onHand[u]
      BY <1>1, <1>7 DEF AdjustByHand, Adjust
    <2>3. QED
      BY <1>1, <2>1, <2>2, QuietImplements
  <1>8. ASSUME NEW p \in Prices, PriceListChange(p) PROVE ImplInv' /\ [Next]_vars
    <2>1. UNCHANGED <<vars, nextNumber, Private>> /\ InvoicesCounted'
      BY <1>1, <1>8 DEF PriceListChange, vars, InvoicesCounted
    <2>2. UNCHANGED <<order, onHand, invoice, payment, nextNumber, Private>>
      BY <2>1 DEF vars
    <2>3. QED
      BY <1>1, <2>1, <2>2, QuietImplements
  <1>9. ASSUME NEW o \in Orders, NEW c \in Carts, Draft(o, c) PROVE ImplInv' /\ [Next]_vars
    BY <1>1, <1>2, <1>9 DEF Draft
  <1>10. ASSUME NEW o \in Orders, NEW c \in Carts, NEW p \in Prices, DraftFromQuote(o, c, p)
         PROVE  ImplInv' /\ [Next]_vars
    BY <1>2, <1>10 DEF DraftFromQuote
  <1>11. QED
    BY <1>3, <1>4, <1>5, <1>6, <1>7, <1>8, <1>9, <1>10, InvoiceByHandImplements DEF OneRow

----------------------------------------------------------------------------
(* The refinement.                                                         *)

LEMMA ImplInitially == CashInit => Init /\ ImplInv
  <1> SUFFICES ASSUME CashInit PROVE Init /\ ImplInv
    OBVIOUS
  <1>1. Init /\ CashInv /\ Inv
    BY CashInitially, InvInitially DEF CashInit
  <1>2. InvoicesCounted
    <2>1. nextNumber["invoice"] = 1 /\ Len(invoice) = 0
      BY EmptySeq DEF CashInit, Init, Numbered
    <2>2. QED
      BY <2>1, SessionAssumption DEF InvoicesCounted
  <1>3. ASSUME NEW s \in Sessions PROVE Doing(s)
    BY DEF CashInit, Doing, OrderDoing, InvoiceDoing, PaymentDoing, OnOrder, Idle, Touched, NoLevel
  <1>4. QED
    BY <1>1, <1>2, <1>3 DEF ImplInv

LEMMA StepImplements == ASSUME ImplInv, NEW s \in Sessions, Step(s) PROVE ImplInv' /\ [Next]_vars
  <1>1. CashInv
    BY DEF ImplInv
  <1>2. CASE LockOrder(s)
    BY <1>1, <1>2, LockOrderKeeps, LockOrderDoing, MovesOnImplements
  <1>3. CASE SellLine(s)
    BY <1>1, <1>3, SellLineKeeps, SellLineDoing, MovesOnImplements
  <1>4. CASE NumberInvoice(s)
    BY <1>1, <1>4, NumberInvoiceKeeps, NumberInvoiceDoing, MovesOnImplements
  <1>5. CASE FindInvoice(s)
    BY <1>1, <1>5, FindInvoiceKeeps, FindInvoiceDoing, MovesOnImplements
  <1>6. CASE VoidInvoice(s)
    BY <1>1, <1>6, VoidInvoiceKeeps, VoidInvoiceDoing, MovesOnImplements
  <1>7. CASE ReturnLine(s)
    BY <1>1, <1>7, ReturnLineKeeps, ReturnLineDoing, MovesOnImplements
  <1>8. CASE LockInvoice(s)
    BY <1>1, <1>8, LockInvoiceKeeps, LockInvoiceDoing, MovesOnImplements
  <1>9. CASE InsertPayment(s)
    BY <1>1, <1>9, InsertPaymentKeeps, InsertPaymentDoing, MovesOnImplements
  <1>10. CASE CommitConfirm(s) \/ CommitCancel(s) \/ CommitPayment(s)
    BY <1>10, ConfirmImplements, CancelImplements, PayImplements
  <1>11. QED
    BY <1>2, <1>3, <1>4, <1>5, <1>6, <1>7, <1>8, <1>9, <1>10 DEF Step

LEMMA CashImplements == ImplInv /\ [CashNext]_cashVars => ImplInv' /\ [Next]_vars
  <1> SUFFICES ASSUME ImplInv, [CashNext]_cashVars PROVE ImplInv' /\ [Next]_vars
    OBVIOUS
  <1>1. CashInv
    BY DEF ImplInv
  <1>2. ASSUME NEW s \in Sessions, Begin(s) PROVE ImplInv' /\ [Next]_vars
    BY <1>1, <1>2, BeginKeeps, BeginDoing, MovesOnImplements
  <1>3. ASSUME NEW s \in Sessions, Fail(s) \/ BreakDeadlock(s) PROVE ImplInv' /\ [Next]_vars
    BY <1>1, <1>3, RollbackKeeps, RollbackDoing, MovesOnImplements DEF Fail, BreakDeadlock
  <1>4. CASE UNCHANGED cashVars
    <2>1. CashInv' /\ InvoicesCounted' /\ [Next]_vars
      BY <1>1, <1>4, CashStepKeeps DEF ImplInv, InvoicesCounted, cashVars, vars
    <2>2. UNCHANGED <<order, onHand, invoice, payment, nextNumber, Private>>
      BY <1>4 DEF cashVars, Private
    <2>3. QED
      BY <2>1, <2>2, QuietImplements
  <1>5. QED
    BY <1>2, <1>3, <1>4, StepImplements, OneRowImplements DEF CashNext

LEMMA ImplAlways == CashSpec => []ImplInv
  BY ImplInitially, CashImplements, PTL DEF CashSpec

(* The requests of orders, stock and invoices, that lock their rows one    *)
(* after the other and may fail or deadlock at any step, have the effect   *)
(* of requests that run one at a time: what OrderBook promises of its      *)
(* committed rows holds of theirs.                                         *)
THEOREM Serializes == CashSpec => Serializable
  BY ImplInitially, CashImplements, ImplAlways, PTL DEF CashSpec, Serializable, Spec

----------------------------------------------------------------------------
(* What follows from the refinement.                                       *)

LEMMA PaidStands ==
  ASSUME Inv, [Next]_vars, NEW i \in DOMAIN invoice, invoice[i].paid > 0
  PROVE  /\ invoice'[i].paid >= invoice[i].paid
         /\ invoice'[i].status # "void"
         /\ \A o \in Orders : invoice[i].order = o => order'[o].status # "cancelled"
  <1>1. /\ TypeOK /\ invoice \in Seq(InvoiceRow) /\ invoice[i] \in InvoiceRow /\ i \in 1..Len(invoice)
        /\ invoice[i].paid \in Nat /\ Len(invoice) \in Nat /\ order \in [Orders -> OrderRow]
    BY InvoiceRows DEF Inv, TypeOK
  <1>2. invoice[i].status \notin {"draft", "issued", "void"} /\ ~Voidable(invoice[i])
    BY <1>1 DEF Inv, PaidMatchesStatus, Voidable
  <1>3. \A o \in Orders : invoice[i].order = o => Live(i, o) /\ order[o].status # "cancelled"
    BY <1>2 DEF Inv, InvoiceFollowsOrder, Live, StockDeducted
  <1>4. CASE invoice'[i] = invoice[i] /\ \A o \in Orders : order'[o].status = "cancelled" => order'[o] = order[o]
    BY <1>1, <1>2, <1>3, <1>4
  <1>5. ASSUME NEW o \in Orders, NEW c \in Carts, NEW p \in Prices, NEW source \in {"manual", "quote"},
               CreateDraft(o, c, p, source) \/ UpdateLines(o, c, p)
        PROVE  invoice'[i] = invoice[i] /\ \A q \in Orders : order'[q].status = "cancelled" => order'[q] = order[q]
    BY <1>1, <1>5 DEF CreateDraft, UpdateLines, OrderRow
  <1>6. ASSUME NEW o \in Orders, NEW billed \in BOOLEAN, Confirm(o, billed)
        PROVE  invoice'[i] = invoice[i] /\ \A q \in Orders : order'[q].status = "cancelled" => order'[q] = order[q]
    <2>1. NewInvoice(o) \in InvoiceRow
      BY <1>1, NewInvoiceTyped
    <2>2. invoice'[i] = invoice[i]
      BY <1>1, <1>6, <2>1, AppendProperties DEF Confirm
    <2>3. order' = [order EXCEPT ![o].status = "confirmed"]
      BY <1>6 DEF Confirm
    <2>4. QED
      BY <1>1, <2>2, <2>3 DEF OrderRow
  <1>7. ASSUME NEW o \in Orders, NEW action \in DOMAIN ProgressTarget, Progress(o, action)
        PROVE  invoice'[i] = invoice[i] /\ \A q \in Orders : order'[q].status = "cancelled" => order'[q] = order[q]
    BY <1>1, <1>7 DEF Progress, ProgressTarget, OrderRow
  <1>8. ASSUME NEW o \in Orders, Cancel(o)
        PROVE  invoice'[i] = invoice[i] /\ \A q \in Orders : invoice[i].order = q => order'[q] = order[q]
    <2>1. ~Live(i, o) /\ invoice[i].order # o
      BY <1>2, <1>3, <1>8 DEF Cancel
    <2>2. QED
      BY <1>1, <1>8, <2>1 DEF Cancel
  <1>9. ASSUME NEW total \in Totals, CreateInvoice(total)
        PROVE  invoice'[i] = invoice[i] /\ order' = order
    <2>1. [status |-> "draft", total |-> total, paid |-> 0, order |-> NoOrder] \in InvoiceRow
      BY AmountAssumption DEF InvoiceRow, InvoiceStatuses
    <2>2. QED
      BY <1>1, <1>9, <2>1, AppendProperties DEF CreateInvoice
  <1>10. ASSUME NEW j \in DOMAIN invoice, Issue(j) \/ Void(j) PROVE invoice'[i] = invoice[i] /\ order' = order
    <2>1. j # i
      BY <1>2, <1>10 DEF Issue, Void
    <2>2. QED
      BY <1>1, <1>10, <2>1 DEF Issue, Void
  <1>11. ASSUME NEW j \in DOMAIN invoice, NEW amount \in Amounts, NEW key \in Keys \cup {NoKey}, Pay(j, amount, key)
         PROVE  invoice'[i].paid >= invoice[i].paid /\ invoice'[i].status # "void" /\ order' = order
    <2>1. amount \in Nat
      BY AmountAssumption
    <2>2. CASE j = i
      <3>1. invoice' = [invoice EXCEPT ![i].paid = @ + amount,
                                       ![i].status = IF invoice[i].paid + amount = invoice[i].total
                                                       THEN "paid" ELSE "partially_paid"]
        BY <1>11, <2>2 DEF Pay
      <3>2. /\ invoice'[i].paid = invoice[i].paid + amount
            /\ invoice'[i].status \in {"paid", "partially_paid"}
        BY <1>1, <3>1 DEF InvoiceRow
      <3>3. QED
        BY <1>1, <1>11, <2>1, <3>2 DEF Pay
    <2>3. CASE j # i
      BY <1>1, <1>2, <1>11, <2>3 DEF Pay
    <2>4. QED
      BY <1>11, <2>2, <2>3 DEF Pay
  <1>12. CASE UNCHANGED vars
    BY <1>4, <1>12 DEF vars
  <1>13. ASSUME NEW o \in Orders, OrderStep(o)
         PROVE  /\ invoice'[i] = invoice[i]
                /\ \A q \in Orders : invoice[i].order = q /\ order'[q].status = "cancelled" => order'[q] = order[q]
    BY <1>5, <1>6, <1>7, <1>8, <1>13 DEF OrderStep
  <1>14. ASSUME NEW j \in DOMAIN invoice, InvoiceStep(j)
         PROVE  invoice'[i].paid >= invoice[i].paid /\ invoice'[i].status # "void" /\ order' = order
    BY <1>1, <1>2, <1>10, <1>11, <1>14 DEF InvoiceStep
  <1>15. ASSUME NEW v \in Variants, NEW q \in Adjustments, Adjust(v, q) PROVE invoice' = invoice /\ order' = order
    BY <1>15 DEF Adjust
  <1>16. QED
    BY <1>1, <1>2, <1>3, <1>9, <1>12, <1>13, <1>14, <1>15 DEF Next

(* A payment that was recorded stays, whatever overlaps with it: a cancel  *)
(* that found the invoice unpaid looks again when it holds the invoice's   *)
(* row (void_for_order, then act), so no step lowers what an invoice has   *)
(* received, voids it or cancels its order.                                *)
THEOREM PaymentsHold == CashSpec => PaymentsStand
  <1> DEFINE Stands ==
        \A i \in DOMAIN invoice : invoice[i].paid > 0 =>
          /\ invoice'[i].paid >= invoice[i].paid
          /\ invoice'[i].status # "void"
          /\ \A o \in Orders : invoice[i].order = o => order'[o].status # "cancelled"
  <1>1. ImplInv /\ [CashNext]_cashVars => [Stands]_cashVars
    BY CashImplements, PaidStands DEF ImplInv
  <1>2. QED
    BY <1>1, ImplAlways, PTL DEF CashSpec, PaymentsStand

(* Of the committed rows of the transactions: the ledger of stock follows  *)
(* the orders, a live invoice follows its order and is its only one, its   *)
(* status says what is paid, and a key records one payment.                *)
THEOREM CommittedRowsSafe ==
  CashSpec => [](PaidMatchesStatus /\ OnePaymentPerKey /\ InvoiceFollowsOrder /\ StockFollowsOrders)
  <1>1. Inv => PaidMatchesStatus /\ OnePaymentPerKey /\ InvoiceFollowsOrder /\ StockFollowsOrders
    BY DEF Inv
  <1>2. ImplInv => Inv
    BY DEF ImplInv
  <1>3. QED
    BY <1>1, <1>2, ImplAlways, PTL
----------------------------------------------------------------------------
(* Deadlocks.  Requests that wait for each other all wait for stock rows:  *)
(* the lines of an order are locked in the order of its cart               *)
(* (_confirm_effects, _cancel_effects), and no other rows are taken in     *)
(* different orders.                                                       *)

\* What a request holds while it has few locks, and that the row of a
\* sequence is the last it takes.
HoldsNothing(s) == \A r \in Lockable : ~Holds(s, r)
Holding(s) ==
  /\ tx[s].op = "idle" \/ tx[s].at = "order" => HoldsNothing(s)
  /\ tx[s].op = "pay" /\ tx[s].at = "invoice" => HoldsNothing(s)
  /\ tx[s].op = "cancel" /\ tx[s].at \in {"find", "invoice"} =>
       \A r \in Lockable : Holds(s, r) => r = OrderKey(tx[s].order)
  /\ \A kind \in Numbered : Holds(s, SequenceKey(kind)) => tx[s].at = "commit"
HoldingInv == \A s \in Sessions : Holding(s)

\* Each request of S waits for a row of another, and each holds up one.
Ring(S) == (\A s \in S : Waiting(s)) /\ S = {lock[Wanted(s)] : s \in S}
DeadlocksOverStock ==
  \A S \in SUBSET Sessions : Ring(S) => \A s \in S : tx[s].at \in {"sell", "return"}

LEMMA KeysApart ==
  ASSUME NEW kind, NEW x
  PROVE  SequenceKey(kind) # OrderKey(x) /\ SequenceKey(kind) # LevelKey(x) /\ SequenceKey(kind) # InvoiceKey(x)
  BY DEF SequenceKey, OrderKey, LevelKey, InvoiceKey

LEMMA OthersHold ==
  ASSUME CashTypeOK, NEW s \in Sessions, NEW t \in Sessions, t # s, Holding(t), tx'[t] = tx[t],
         \A r \in Lockable : lock'[r] \in {lock[r], s, Free}
  PROVE  Holding(t)'
  <1>1. \A r \in Lockable : Holds(t, r)' => Holds(t, r)
    BY SessionAssumption DEF Holds
  <1>2. \A kind \in Numbered : SequenceKey(kind) \in Lockable
    BY LockKeys DEF Numbered
  <1>3. QED
    BY <1>1, <1>2 DEF Holding, HoldsNothing

\* A step of s past its first locks.
LEMMA TakesOneMore ==
  ASSUME NEW s \in Sessions, Holding(s), tx[s].at # "commit",
         tx'[s].op # "idle", tx'[s].at \in {"sell", "return", "number", "commit"},
         \/ lock' = lock
         \/ Take(s) /\ (tx[s].at \in {"order", "sell", "return", "invoice"} \/ tx'[s].at = "commit"),
         CashTypeOK
  PROVE  Holding(s)'
  <1>1. CASE tx'[s].at = "commit"
    BY <1>1 DEF Holding
  <1>2. CASE tx'[s].at # "commit"
    <2>1. ASSUME NEW kind \in Numbered PROVE ~Holds(s, SequenceKey(kind))'
      <3>1. ~Holds(s, SequenceKey(kind)) /\ SequenceKey(kind) \in Lockable
        BY LockKeys DEF Holding, Numbered
      <3>2. CASE lock' = lock
        BY <3>1, <3>2 DEF Holds
      <3>3. CASE Take(s)
        <4>1. CASE lock' # lock
          <5>1. tx[s].at \in {"order", "sell", "return", "invoice"}
            BY <1>2, <4>1
          <5>2. Wanted(s) # SequenceKey(kind)
            BY <5>1, KeysApart DEF Wanted
          <5>3. QED
            BY <3>1, <3>3, <5>2, Typed DEF Take, Holds
        <4>2. QED
          BY <3>2, <4>1
      <3>4. QED
        BY <3>2, <3>3
    <2>2. QED
      BY <1>2, <2>1 DEF Holding
  <1>3. QED
    BY <1>1, <1>2

\* The request is over.
LEMMA EndHolds == ASSUME CashTypeOK, HoldingInv, NEW s \in Sessions, End(s) PROVE HoldingInv'
  <1>1. lock' = [r \in Lockable |-> IF Holds(s, r) THEN Free ELSE lock[r]] /\ tx' = [tx EXCEPT ![s] = Idle]
    BY DEF End, Released
  <1>2. \A r \in Lockable : ~Holds(s, r)'
    BY <1>1, SessionAssumption DEF Holds
  <1>3. tx'[s] = Idle /\ \A t \in Sessions : t # s => tx'[t] = tx[t]
    BY <1>1, Typed
  <1>4. \A kind \in Numbered : SequenceKey(kind) \in Lockable
    BY LockKeys DEF Numbered
  <1>5. Holding(s)'
    BY <1>2, <1>4 DEF Holding, HoldsNothing
  <1>6. ASSUME NEW t \in Sessions, t # s PROVE Holding(t)'
    BY <1>1, <1>3, <1>6, OthersHold DEF HoldingInv
  <1>7. QED
    BY <1>5, <1>6 DEF HoldingInv

LEMMA OwnHolds ==
  ASSUME CashTypeOK, HoldingInv, NEW s \in Sessions, Holding(s)', lock' = lock \/ Take(s),
         \A t \in Sessions : t # s => tx'[t] = tx[t]
  PROVE  HoldingInv'
  <1>1. \A r \in Lockable : lock'[r] \in {lock[r], s, Free}
    BY Typed DEF Take
  <1>2. ASSUME NEW t \in Sessions, t # s PROVE Holding(t)'
    BY <1>1, <1>2, OthersHold DEF HoldingInv
  <1>3. QED
    BY <1>2 DEF HoldingInv

LEMMA BeginHolds == ASSUME CashInv, HoldingInv, NEW s \in Sessions, Begin(s) PROVE HoldingInv'
  <1>1. CashTypeOK /\ Holding(s)
    BY DEF CashInv, HoldingInv
  <1>2. \E r : tx' = [tx EXCEPT ![s] = r]
    BY DEF Begin, BeginOrder, BeginPayment
  <1>3. tx[s].op = "idle" /\ lock' = lock
    BY DEF Begin, BeginOrder, BeginPayment
  <1>4. \A t \in Sessions : t # s => tx'[t] = tx[t]
    BY <1>1, <1>2, Typed
  <1>5. \A q \in Lockable : ~Holds(s, q)'
    BY <1>1, <1>3 DEF Holding, HoldsNothing, Holds
  <1>6. \A kind \in Numbered : SequenceKey(kind) \in Lockable
    BY LockKeys DEF Numbered
  <1>7. Holding(s)'
    BY <1>5, <1>6 DEF Holding, HoldsNothing
  <1>8. QED
    BY <1>1, <1>3, <1>4, <1>7, OwnHolds

\* Steps that go on in the cart.
LEMMA LineHolds ==
  ASSUME CashInv, HoldingInv, NEW s \in Sessions, tx[s].at \in {"sell", "return"},
         NEW next \in AfterLines(s), tx' = [tx EXCEPT ![s] = next], lock' = lock \/ Take(s)
  PROVE  HoldingInv'
  <1>1. CashTypeOK /\ Holding(s) /\ Sound(s)
    BY DEF CashInv, HoldingInv, Own
  <1>2. tx'[s] = next /\ \A t \in Sessions : t # s => tx'[t] = tx[t]
    BY <1>1, Typed
  <1>3. next.op = tx[s].op /\ next.at \in {"sell", "return", "number", "commit"}
    BY <1>1, AfterLinesTyped
  <1>4. tx[s].op \in {"confirm", "cancel"}
    BY <1>1 DEF Sound
  <1>5. Holding(s)'
    BY <1>1, <1>2, <1>3, <1>4, TakesOneMore
  <1>6. QED
    BY <1>1, <1>2, <1>5, OwnHolds

\* Steps that go on to another place.
LEMMA PlaceHolds ==
  ASSUME CashInv, HoldingInv, NEW s \in Sessions, tx[s].at # "commit",
         NEW at \in {"sell", "return", "number", "commit"}, GoTo(s, at), tx[s].op # "idle",
         \/ lock' = lock
         \/ Take(s) /\ (tx[s].at \in {"order", "sell", "return", "invoice"} \/ at = "commit")
  PROVE  HoldingInv'
  <1>1. CashTypeOK /\ Holding(s)
    BY DEF CashInv, HoldingInv
  <1>2. tx'[s].op = tx[s].op /\ tx'[s].at = at /\ \A t \in Sessions : t # s => tx'[t] = tx[t]
    BY <1>1, GoToTyped
  <1>3. Holding(s)'
    BY <1>1, <1>2, TakesOneMore
  <1>4. QED
    BY <1>1, <1>2, <1>3, OwnHolds

LEMMA NumberHolds ==
  ASSUME CashInv, HoldingInv, NEW s \in Sessions, tx[s].at = "number", NEW n,
         tx' = [tx EXCEPT ![s].number = n, ![s].at = "commit"], Take(s)
  PROVE  HoldingInv'
  <1>1. CashTypeOK /\ Holding(s) /\ Sound(s) /\ tx[s] \in Request
    BY Typed DEF CashInv, HoldingInv, Own
  <1>2. tx'[s].op = tx[s].op /\ tx'[s].at = "commit" /\ \A t \in Sessions : t # s => tx'[t] = tx[t]
    BY <1>1, Typed DEF Request
  <1>3. tx[s].op # "idle"
    BY <1>1 DEF Sound
  <1>4. Holding(s)'
    BY <1>1, <1>2, <1>3, TakesOneMore
  <1>5. QED
    BY <1>1, <1>2, <1>4, OwnHolds

LEMMA LockOrderHolds == ASSUME CashInv, HoldingInv, NEW s \in Sessions, LockOrder(s) PROVE HoldingInv'
  <1>1. CashTypeOK /\ Holding(s) /\ Sound(s) /\ tx[s].at = "order" /\ tx[s].op \in {"confirm", "cancel"}
    BY DEF CashInv, HoldingInv, Own, LockOrder, Sound, OnOrder
  <1>2. CASE Rollback(s)
    BY <1>1, <1>2, EndHolds DEF Rollback
  <1>3. CASE tx[s].op = "confirm" /\ Take(s) /\ GoTo(s, "sell")
    BY <1>1, <1>3, PlaceHolds
  <1>4. CASE tx[s].op = "cancel" /\ Take(s) /\ GoTo(s, "find")
    <2>1. /\ tx'[s].op = "cancel" /\ tx'[s].at = "find" /\ tx'[s].order = tx[s].order
          /\ \A t \in Sessions : t # s => tx'[t] = tx[t]
      BY <1>1, <1>4, GoToTyped
    <2>2. Wanted(s) = OrderKey(tx[s].order)
      BY <1>1 DEF Wanted
    <2>3. \A r \in Lockable : Holds(s, r)' => r = OrderKey(tx[s].order)
      BY <1>1, <1>4, <2>2, Typed DEF Take, Holding, HoldsNothing, Holds
    <2>4. \A kind \in Numbered : ~Holds(s, SequenceKey(kind))'
      <3>1. \A kind \in Numbered : SequenceKey(kind) \in Lockable /\ SequenceKey(kind) # OrderKey(tx[s].order)
        BY LockKeys, KeysApart DEF Numbered
      <3>2. QED
        BY <2>3, <3>1
    <2>5. Holding(s)'
      BY <2>1, <2>3, <2>4 DEF Holding
    <2>6. QED
      BY <1>1, <1>4, <2>1, <2>5, OwnHolds
  <1>5. QED
    BY <1>1, <1>2, <1>3, <1>4 DEF LockOrder

LEMMA FindInvoiceHolds == ASSUME CashInv, HoldingInv, NEW s \in Sessions, FindInvoice(s) PROVE HoldingInv'
  <1>1. CashTypeOK /\ Holding(s) /\ Sound(s) /\ tx[s].at = "find" /\ tx[s].op = "cancel" /\ lock' = lock
    BY DEF CashInv, HoldingInv, Own, FindInvoice, Sound
  <1>2. CASE GoTo(s, AfterInvoice(s))
    BY <1>1, <1>2, PlaceHolds DEF AfterInvoice
  <1>3. ASSUME NEW i, tx' = [tx EXCEPT ![s].invoice = i, ![s].at = "invoice"] PROVE HoldingInv'
    <2>1. /\ tx'[s].op = "cancel" /\ tx'[s].at = "invoice" /\ tx'[s].order = tx[s].order
          /\ \A t \in Sessions : t # s => tx'[t] = tx[t]
      BY <1>1, <1>3, Typed DEF Request
    <2>2. \A r \in Lockable : Holds(s, r)' => r = OrderKey(tx[s].order)
      BY <1>1 DEF Holding, Holds
    <2>3. \A kind \in Numbered : ~Holds(s, SequenceKey(kind))'
      BY <1>1 DEF Holding, Holds
    <2>4. Holding(s)'
      BY <2>1, <2>2, <2>3 DEF Holding
    <2>5. QED
      BY <1>1, <2>1, <2>4, OwnHolds
  <1>4. QED
    BY <1>2, <1>3 DEF FindInvoice

LEMMA StepHolds == ASSUME CashInv, HoldingInv, NEW s \in Sessions, Step(s) PROVE HoldingInv'
  <1>1. CashTypeOK /\ Sound(s)
    BY DEF CashInv, Own
  <1>2. CASE Rollback(s) \/ CommitConfirm(s) \/ CommitCancel(s) \/ CommitPayment(s)
    BY <1>1, <1>2, EndHolds DEF Rollback, CommitConfirm, CommitCancel, CommitPayment
  <1>3. CASE SellLine(s)
    BY <1>2, <1>3, LineHolds DEF SellLine
  <1>4. CASE ReturnLine(s)
    BY <1>4, LineHolds DEF ReturnLine
  <1>5. CASE NumberInvoice(s)
    BY <1>5, NumberHolds, PlaceHolds DEF NumberInvoice
  <1>6. CASE VoidInvoice(s)
    BY <1>2, <1>6, PlaceHolds DEF VoidInvoice, AfterInvoice
  <1>7. CASE LockInvoice(s)
    BY <1>2, <1>7, PlaceHolds DEF LockInvoice
  <1>8. CASE InsertPayment(s)
    BY <1>2, <1>8, NumberHolds DEF InsertPayment
  <1>9. QED
    BY <1>2, <1>3, <1>4, <1>5, <1>6, <1>7, <1>8, LockOrderHolds, FindInvoiceHolds DEF Step

LEMMA HoldingKept == CashInv /\ HoldingInv /\ [CashNext]_cashVars => HoldingInv'
  <1> SUFFICES ASSUME CashInv, HoldingInv, [CashNext]_cashVars PROVE HoldingInv'
    OBVIOUS
  <1>1. CASE UNCHANGED <<lock, tx>>
    BY <1>1 DEF HoldingInv, Holding, HoldsNothing, Holds
  <1>2. CASE OneRow
    <2>1. UNCHANGED <<lock, tx>>
      BY <1>2 DEF OneRow, Draft, DraftFromQuote, Edit, Advance, IssueByHand, VoidByHand, AdjustByHand, InvoiceByHand,
                  PriceListChange, Untouched, Private
    <2>2. QED
      BY <1>1, <2>1
  <1>3. ASSUME NEW s \in Sessions, Fail(s) \/ BreakDeadlock(s) PROVE HoldingInv'
    BY <1>3, EndHolds DEF Fail, BreakDeadlock, Rollback, CashInv
  <1>4. CASE UNCHANGED cashVars
    BY <1>1, <1>4 DEF cashVars
  <1>5. QED
    BY <1>2, <1>3, <1>4, BeginHolds, StepHolds DEF CashNext

\* Whoever waits for a sequence waits for a request that waits for nothing;
\* whoever waits for an order or an invoice holds up nobody who holds a row.
LEMMA RingsOverStock == ImplInv /\ HoldingInv => DeadlocksOverStock
  <1> SUFFICES ASSUME ImplInv, HoldingInv, NEW S \in SUBSET Sessions, Ring(S), NEW s \in S,
                      tx[s].at \notin {"sell", "return"}
               PROVE  FALSE
    BY DEF DeadlocksOverStock
  <1>1. CashTypeOK /\ \A t \in S : t \in Sessions /\ Holding(t) /\ Sound(t) /\ Locking(t)
    BY DEF ImplInv, CashInv, HoldingInv, Own, Ring, Waiting
  <1>2. \A t \in S : lock[Wanted(t)] \in S /\ \E u \in S : t = lock[Wanted(u)]
    BY DEF Ring
  <1>3. ASSUME NEW t \in S PROVE Wanted(t) \in Lockable
    <2>1. CASE tx[t].at = "order"
      BY <1>1, <2>1, LockKeys DEF Wanted, Sound, OnOrder
    <2>2. CASE tx[t].at \in {"sell", "return"}
      BY <1>1, <2>2, LineTyped, LockKeys DEF Wanted
    <2>3. CASE tx[t].at = "invoice"
      <3>1. tx[t].invoice \in DOMAIN invoice
        BY <1>1, <2>3 DEF Sound
      <3>2. QED
        BY <2>3, <3>1, InvoiceLockable DEF Wanted
    <2>4. CASE tx[t].at = "number"
      BY <2>4, LockKeys DEF Wanted
    <2>5. QED
      BY <1>1, <2>1, <2>2, <2>3, <2>4 DEF Locking
  <1>4. \A t \in S : tx[t].at # "order"
    BY <1>1, <1>2, <1>3 DEF Holding, HoldsNothing, Holds
  <1>5. tx[s].at # "number"
    <2>1. SUFFICES ASSUME tx[s].at = "number" PROVE FALSE
      OBVIOUS
    <2>2. PICK kind \in Numbered : Wanted(s) = SequenceKey(kind)
      BY <2>1 DEF Wanted, Numbered
    <2>3. PICK u \in S : u = lock[SequenceKey(kind)]
      BY <1>2, <2>2
    <2>4. tx[u].at = "commit"
      BY <1>1, <2>3 DEF Holding, Holds
    <2>5. QED
      BY <1>1, <2>4 DEF Locking
  <1>6. tx[s].at # "invoice"
    <2>1. SUFFICES ASSUME tx[s].at = "invoice" PROVE FALSE
      OBVIOUS
    <2>2. PICK u \in S : s = lock[Wanted(u)]
      BY <1>2
    <2>3. tx[s].op = "cancel" /\ Wanted(u) = OrderKey(tx[s].order)
      BY <1>1, <1>3, <2>1, <2>2 DEF Holding, HoldsNothing, Holds, Sound
    <2>4. tx[u].at = "order"
      BY <1>1, <2>3, KeysApart DEF Wanted, Locking, OrderKey, LevelKey, InvoiceKey
    <2>5. QED
      BY <1>4, <2>4
  <1>7. QED
    BY <1>1, <1>4, <1>5, <1>6 DEF Locking

LEMMA HoldingStarts == CashInit => HoldingInv
  BY SessionAssumption, LockKeys DEF CashInit, HoldingInv, Holding, HoldsNothing, Holds, Idle, Numbered

(* Confirming, cancelling and paying deadlock over stock rows only: no     *)
(* ring of waiting requests includes one that waits for an order, an       *)
(* invoice or a number, for any number of requests and rows.               *)
THEOREM OnlyStockDeadlocks == CashSpec => []DeadlocksOverStock
  <1>1. ImplInv => CashInv
    BY DEF ImplInv
  <1>2. QED
    BY <1>1, HoldingStarts, ImplAlways, HoldingKept, RingsOverStock, PTL DEF CashSpec

----------------------------------------------------------------------------
(* A deadlock over stock needs carts that list variants in different       *)
(* orders: a request holds only the stock rows of the lines it is past.    *)

\* One order of the variants in which the carts of all of S list theirs.
LinedUp(S, rank) ==
  /\ \A v, w \in Variants : rank[v] = rank[w] => v = w
  /\ \A s \in S : \A m, n \in DOMAIN Lines[Cart(s)] :
       m < n => rank[Lines[Cart(s)][m].variant] <= rank[Lines[Cart(s)][n].variant]
DeadlocksNeedCrossedCarts ==
  \A S \in SUBSET Sessions : Ring(S) /\ S # {} => ~\E rank \in [Variants -> Nat] : LinedUp(S, rank)

Past(s, v) == \E n \in DOMAIN Lines[Cart(s)] : n < tx[s].line /\ Lines[Cart(s)][n].variant = v
Behind(s) ==
  tx[s].at \in {"sell", "return"} => \A v \in Variants : Holds(s, LevelKey(v)) => Past(s, v)
RingInv == ImplInv /\ HoldingInv /\ \A s \in Sessions : Behind(s)

LEMMA OrderRowsStay ==
  ASSUME CashInv, CashNext, NEW t \in Sessions, OnOrder(t), tx[t].at # "order"
  PROVE  order'[tx[t].order].cart = order[tx[t].order].cart
  <1>1. /\ CashTypeOK /\ tx[t].order \in Orders /\ order[tx[t].order].status # "none"
        /\ lock[OrderKey(tx[t].order)] # Free
    BY SessionAssumption DEF CashInv, Own, Sound, HasOrder, Holds
  <1>2. order \in [Orders -> OrderRow]
    BY <1>1, Typed
  <1>3. CASE UNCHANGED order
    BY <1>3
  <1>4. ASSUME NEW o \in Orders, NEW status, order' = [order EXCEPT ![o].status = status]
        PROVE  order'[tx[t].order].cart = order[tx[t].order].cart
    BY <1>1, <1>2, <1>4 DEF OrderRow
  <1>5. ASSUME NEW s \in Sessions, Begin(s) \/ Step(s) \/ Fail(s) \/ BreakDeadlock(s)
        PROVE  order'[tx[t].order].cart = order[tx[t].order].cart
    <2>1. CASE CommitConfirm(s) \/ CommitCancel(s)
      <3>1. tx[s].order \in Orders
        BY <2>1 DEF CommitConfirm, CommitCancel, CashInv, Own, Sound, OnOrder
      <3>2. QED
        BY <1>4, <2>1, <3>1 DEF CommitConfirm, CommitCancel
    <2>2. CASE ~(CommitConfirm(s) \/ CommitCancel(s))
      <3>1. UNCHANGED order
        BY <1>5, <2>2 DEF Begin, BeginOrder, BeginPayment, Step, LockOrder, SellLine, NumberInvoice, FindInvoice,
             VoidInvoice, ReturnLine, LockInvoice, InsertPayment, CommitPayment, Fail, BreakDeadlock, Rollback, rows
      <3>2. QED
        BY <1>3, <3>1
    <2>3. QED
      BY <2>1, <2>2
  <1>6. ASSUME NEW o \in Orders, NEW c \in Carts, NEW p, CreateDraft(o, c, p, "manual") \/ CreateDraft(o, c, p, "quote")
        PROVE  order'[tx[t].order].cart = order[tx[t].order].cart
    BY <1>1, <1>2, <1>6 DEF CreateDraft
  <1>7. ASSUME NEW o \in Orders, NEW c \in Carts, Edit(o, c)
        PROVE  order'[tx[t].order].cart = order[tx[t].order].cart
    BY <1>1, <1>2, <1>7 DEF Edit, UpdateLines
  <1>8. ASSUME NEW o \in Orders, NEW action, Advance(o, action)
        PROVE  order'[tx[t].order].cart = order[tx[t].order].cart
    BY <1>4, <1>8 DEF Advance, Progress
  <1>9. CASE OneRow
    BY <1>3, <1>6, <1>7, <1>8, <1>9 DEF OneRow, Draft, DraftFromQuote, IssueByHand, VoidByHand, AdjustByHand,
         InvoiceByHand, PriceListChange, Issue, Void, Adjust, CreateInvoice
  <1>10. QED
    BY <1>5, <1>9 DEF CashNext

\* A step of another request: t is where it was, and holds nothing more.
LEMMA OthersBehind ==
  ASSUME CashInv, CashNext, NEW t \in Sessions, Behind(t), tx'[t] = tx[t],
         \A r \in Lockable : lock'[r] = t => lock[r] = t
  PROVE  Behind(t)'
  <1>1. CASE tx[t].at \in {"sell", "return"}
    <2>1. OnOrder(t)
      BY <1>1 DEF CashInv, Own, Sound
    <2>2. Cart(t)' = Cart(t)
      BY <1>1, <2>1, OrderRowsStay DEF Cart
    <2>3. ASSUME NEW v \in Variants, Holds(t, LevelKey(v))' PROVE Past(t, v)'
      <3>1. Holds(t, LevelKey(v))
        BY <2>3, LockKeys DEF Holds
      <3>2. Past(t, v)
        BY <1>1, <3>1 DEF Behind
      <3>3. QED
        BY <2>2, <3>2 DEF Past
    <2>4. QED
      BY <2>3 DEF Behind
  <1>2. CASE tx[t].at \notin {"sell", "return"}
    BY <1>2 DEF Behind
  <1>3. QED
    BY <1>1, <1>2

\* Before its first line a request holds no stock row.
LEMMA StartsBehind ==
  ASSUME CashTypeOK, NEW s \in Sessions, \A v \in Variants : ~Holds(s, LevelKey(v)),
         lock' = lock \/ (Take(s) /\ tx[s].at \in {"order", "invoice"})
  PROVE  Behind(s)'
  <1>1. ASSUME NEW v \in Variants PROVE ~Holds(s, LevelKey(v))'
    <2>1. LevelKey(v) \in Lockable
      BY LockKeys
    <2>2. CASE lock' = lock
      BY <2>2 DEF Holds
    <2>3. CASE Take(s) /\ tx[s].at \in {"order", "invoice"}
      <3>1. Wanted(s) # LevelKey(v)
        BY <2>3 DEF Wanted, OrderKey, InvoiceKey, LevelKey
      <3>2. QED
        BY <2>1, <2>3, <3>1, Typed DEF Take, Holds
    <2>4. QED
      BY <2>2, <2>3
  <1>2. QED
    BY <1>1 DEF Behind

LEMMA LineBehind ==
  ASSUME CashInv, NEW s \in Sessions, Behind(s), tx[s].at \in {"sell", "return"}, order' = order,
         NEW next \in AfterLines(s), tx' = [tx EXCEPT ![s] = next], lock' = lock \/ Take(s)
  PROVE  Behind(s)'
  <1>1. CashTypeOK /\ Sound(s)
    BY DEF CashInv, Own
  <1>2. /\ Cart(s) \in Carts /\ tx[s].line \in DOMAIN Lines[Cart(s)] /\ tx[s].line \in Nat
        /\ DOMAIN Lines[Cart(s)] \subseteq Nat
    BY <1>1, LineTyped, LinesTyped
  <1>3. tx'[s] = next
    BY <1>1, Typed
  <1>4. CASE next.at \notin {"sell", "return"}
    BY <1>3, <1>4 DEF Behind
  <1>5. CASE next.at \in {"sell", "return"}
    <2>1. next.line = tx[s].line + 1
      BY <1>1, <1>5, AfterLinesDone
    <2>2. Cart(s)' = Cart(s)
      BY <1>1, <1>3, AfterLinesTyped DEF Cart
    <2>3. Wanted(s) = LevelKey(Line(s).variant)
      BY DEF Wanted
    <2>4. ASSUME NEW v \in Variants, Holds(s, LevelKey(v))' PROVE Past(s, v)'
      <3>1. CASE Holds(s, LevelKey(v))
        <4>1. PICK n \in DOMAIN Lines[Cart(s)] : n < tx[s].line /\ Lines[Cart(s)][n].variant = v
          BY <3>1 DEF Behind, Past
        <4>2. n < tx[s].line + 1
          BY <1>2, <4>1
        <4>3. QED
          BY <1>3, <2>1, <2>2, <4>1, <4>2 DEF Past
      <3>2. CASE ~Holds(s, LevelKey(v))
        <4>1. LevelKey(v) = Wanted(s)
          BY <1>1, <2>4, <3>2, LockKeys, Typed DEF Take, Holds
        <4>2. Lines[Cart(s)][tx[s].line].variant = v
          BY <2>3, <4>1 DEF LevelKey, Line
        <4>3. tx[s].line < tx[s].line + 1
          BY <1>2
        <4>4. QED
          BY <1>2, <1>3, <2>1, <2>2, <4>2, <4>3 DEF Past
      <3>3. QED
        BY <3>1, <3>2
    <2>5. QED
      BY <2>4 DEF Behind
  <1>6. QED
    BY <1>4, <1>5

\* A request that leaves the lines, or has not come to them.
LEMMA ElsewhereBehind ==
  ASSUME NEW s \in Sessions, tx'[s].at \notin {"sell", "return"} PROVE Behind(s)'
  BY DEF Behind

LEMMA EndBehind == ASSUME CashTypeOK, NEW s \in Sessions, End(s) PROVE Behind(s)'
  <1>1. tx'[s] = Idle
    BY Typed DEF End
  <1>2. QED
    BY <1>1, ElsewhereBehind DEF Idle

LEMMA OwnBehind ==
  ASSUME CashInv, HoldingInv, NEW s \in Sessions, Behind(s), Begin(s) \/ Step(s)
  PROVE  Behind(s)'
  <1>1. CashTypeOK /\ Sound(s) /\ Holding(s) /\ tx[s] \in Request
    BY Typed DEF CashInv, Own, HoldingInv
  <1>2. CASE Rollback(s) \/ CommitConfirm(s) \/ CommitCancel(s) \/ CommitPayment(s)
    BY <1>1, <1>2, EndBehind DEF Rollback, CommitConfirm, CommitCancel, CommitPayment
  <1>3. ASSUME tx[s].at \in {"order", "find"} \/ (tx[s].at = "invoice" /\ tx[s].op = "cancel")
        PROVE  \A v \in Variants : ~Holds(s, LevelKey(v))
    BY <1>1, <1>3, LockKeys DEF Holding, HoldsNothing, Sound, LevelKey, OrderKey
  <1>4. CASE Begin(s)
    <2>1. ASSUME NEW op \in {"confirm", "cancel"}, NEW o \in Orders, BeginOrder(s, op, o) PROVE Behind(s)'
      <3> DEFINE r == [Idle EXCEPT !.op = op, !.at = "order", !.order = o, !.line = 1]
      <3>1. r.at = "order"
        BY DEF Idle
      <3>2. tx' = [tx EXCEPT ![s] = r]
        BY <2>1 DEF BeginOrder
      <3> HIDE DEF r
      <3>3. QED
        BY <1>1, <3>1, <3>2, Typed, ElsewhereBehind
    <2>2. ASSUME NEW i \in DOMAIN invoice, NEW amount \in Amounts, NEW key \in Keys \cup {NoKey},
                 BeginPayment(s, i, amount, key)
          PROVE  Behind(s)'
      <3> DEFINE r == [Idle EXCEPT !.op = "pay", !.at = "invoice", !.invoice = i, !.amount = amount, !.key = key]
      <3>1. r.at = "invoice"
        BY DEF Idle
      <3>2. tx' = [tx EXCEPT ![s] = r]
        BY <2>2 DEF BeginPayment
      <3> HIDE DEF r
      <3>3. QED
        BY <1>1, <3>1, <3>2, Typed, ElsewhereBehind
    <2>3. QED
      BY <1>4, <2>1, <2>2 DEF Begin
  <1>5. CASE LockOrder(s)
    BY <1>1, <1>2, <1>3, <1>5, StartsBehind DEF LockOrder
  <1>6. CASE SellLine(s)
    BY <1>2, <1>6, LineBehind DEF SellLine, rows
  <1>7. CASE ReturnLine(s)
    BY <1>7, LineBehind DEF ReturnLine, rows
  <1>8. CASE FindInvoice(s)
    <2>1. tx[s].at = "find" /\ lock' = lock
      BY <1>8 DEF FindInvoice
    <2>2. QED
      BY <1>1, <1>3, <2>1, StartsBehind
  <1>9. CASE VoidInvoice(s)
    BY <1>1, <1>2, <1>3, <1>9, StartsBehind DEF VoidInvoice
  <1>10. CASE NumberInvoice(s) \/ LockInvoice(s) \/ InsertPayment(s)
    <2>1. Rollback(s) \/ tx'[s].at \in {"commit", "number"}
      BY <1>1, <1>10, Typed DEF NumberInvoice, LockInvoice, InsertPayment, GoTo, Request
    <2>2. QED
      BY <1>2, <2>1, ElsewhereBehind
  <1>11. QED
    BY <1>2, <1>4, <1>5, <1>6, <1>7, <1>8, <1>9, <1>10 DEF Step

LEMMA StepLeaves ==
  ASSUME CashTypeOK, NEW s \in Sessions, Begin(s) \/ Step(s) \/ Fail(s) \/ BreakDeadlock(s), NEW t \in Sessions, t # s
  PROVE  tx'[t] = tx[t] /\ \A r \in Lockable : lock'[r] = t => lock[r] = t
  <1>1. lock' = lock \/ Take(s) \/ End(s)
    BY DEF Begin, BeginOrder, BeginPayment, Step, LockOrder, SellLine, NumberInvoice, FindInvoice, VoidInvoice, ReturnLine,
       LockInvoice, InsertPayment, CommitConfirm, CommitCancel, CommitPayment, Fail, BreakDeadlock, Rollback
  <1>2. \E r : tx' = [tx EXCEPT ![s] = r]
    BY DEF Begin, BeginOrder, BeginPayment, Step, LockOrder, SellLine, NumberInvoice, FindInvoice, VoidInvoice, ReturnLine,
       LockInvoice, InsertPayment, CommitConfirm, CommitCancel, CommitPayment, Fail, BreakDeadlock, Rollback, End, GoTo
  <1>3. QED
    BY <1>1, <1>2, Typed, SessionAssumption DEF Take, End, Released

LEMMA BehindKept ==
  ASSUME CashInv, HoldingInv, \A s \in Sessions : Behind(s), [CashNext]_cashVars
  PROVE  (\A s \in Sessions : Behind(s))'
  <1>1. CashTypeOK
    BY DEF CashInv
  <1>2. CASE UNCHANGED cashVars
    BY <1>2 DEF cashVars, Behind, Past, Cart, Holds
  <1>3. ASSUME CashNext, NEW s \in Sessions, Begin(s) \/ Step(s) \/ Fail(s) \/ BreakDeadlock(s), NEW t \in Sessions
        PROVE  Behind(t)'
    <2>1. CASE t # s
      BY <1>1, <1>3, <2>1, StepLeaves, OthersBehind
    <2>2. CASE t = s
      BY <1>1, <1>3, <2>2, OwnBehind, EndBehind DEF Fail, BreakDeadlock, Rollback
    <2>3. QED
      BY <2>1, <2>2
  <1>4. ASSUME CashNext, OneRow, NEW t \in Sessions PROVE Behind(t)'
    <2>1. UNCHANGED <<lock, tx>>
      BY <1>4 DEF OneRow, Draft, DraftFromQuote, Edit, Advance, IssueByHand, VoidByHand, AdjustByHand, InvoiceByHand,
                  PriceListChange, Untouched, Private
    <2>2. QED
      BY <1>4, <2>1, OthersBehind
  <1>5. QED
    BY <1>2, <1>3, <1>4 DEF CashNext

\* Every set of natural numbers that is not empty has a least.
LEMMA LeastOf == ASSUME NEW T \in SUBSET Nat, T # {} PROVE \E x \in T : \A y \in T : x <= y
  <1>1. PICK R : IsWellFoundedOn(R, Nat) /\ \A x, y \in Nat : x < y => <<x, y>> \in R
    <2>1. \A x, y \in Nat : x < y => <<x, y>> \in OpToRel(<, Nat)
      BY DEF OpToRel
    <2>2. WITNESS OpToRel(<, Nat)
    <2>3. QED
      BY <2>1, NatLessThanWellFounded
  <1>2. T \subseteq Nat
    OBVIOUS
  <1>3. PICK x \in T : \A y \in T : ~ (<<y, x>> \in R)
    <2>1. IsWellFoundedOn(R, Nat)
      BY <1>1
    <2>2. QED
      BY <1>2, <2>1, WFMin
  <1>4. ASSUME NEW y \in T PROVE x <= y
    <2>1. x \in Nat /\ y \in Nat /\ ~(<<y, x>> \in R)
      BY <1>2, <1>3
    <2>2. ~(y < x)
      BY <1>1, <2>1, Zenon
    <2>3. QED
      BY <2>1, <2>2
  <1>5. QED
    BY <1>4

\* In a ring over one common order, take the request that waits for the
\* least row: what it holds up waits for a row that is not above that one.
LEMMA RingsCross == RingInv => DeadlocksNeedCrossedCarts
  <1> SUFFICES ASSUME RingInv, NEW S \in SUBSET Sessions, Ring(S), S # {},
                      NEW rank \in [Variants -> Nat], LinedUp(S, rank)
               PROVE  FALSE
    BY DEF DeadlocksNeedCrossedCarts
  <1> DEFINE wants(s) == Line(s).variant
  <1>1. ASSUME NEW s \in S
        PROVE  /\ s \in Sessions /\ tx[s].at \in {"sell", "return"} /\ Behind(s) /\ ~Granted(s)
               /\ wants(s) \in Variants /\ Cart(s) \in Carts /\ tx[s].line \in DOMAIN Lines[Cart(s)]
               /\ Wanted(s) = LevelKey(wants(s))
    <2>1. s \in Sessions /\ tx[s].at \in {"sell", "return"} /\ Behind(s) /\ ~Granted(s)
      BY RingsOverStock DEF RingInv, DeadlocksOverStock, Ring, Waiting
    <2>2. CashTypeOK /\ Sound(s)
      BY <2>1 DEF RingInv, ImplInv, CashInv, Own
    <2>3. QED
      BY <2>1, <2>2, LineTyped DEF Wanted
  <1>2. PICK s \in S : \A u \in S : rank[wants(s)] <= rank[wants(u)]
    <2> DEFINE T == {rank[wants(u)] : u \in S}
    <2>1. T \in SUBSET Nat /\ T # {}
      BY <1>1
    <2>2. \E x \in T : \A y \in T : x <= y
      <3> HIDE DEF T
      <3>1. QED
        BY <2>1, LeastOf
    <2>3. QED
      BY <2>2
  <1>3. PICK u \in S : s = lock[Wanted(u)]
    BY DEF Ring
  <1> HIDE DEF wants
  <1>4. Holds(s, LevelKey(wants(u)))
    BY <1>1, <1>3 DEF Holds
  <1>5. PICK n \in DOMAIN Lines[Cart(s)] : n < tx[s].line /\ Lines[Cart(s)][n].variant = wants(u)
    BY <1>1, <1>4 DEF Behind, Past
  <1>6. Lines[Cart(s)][tx[s].line].variant = wants(s)
    BY DEF wants, Line
  <1>7. rank[wants(u)] <= rank[wants(s)]
    BY <1>1, <1>5, <1>6 DEF LinedUp
  <1>8. rank[wants(s)] \in Nat /\ rank[wants(u)] \in Nat
    BY <1>1
  <1>9. rank[wants(u)] = rank[wants(s)]
    BY <1>2, <1>7, <1>8
  <1>10. wants(u) = wants(s)
    BY <1>1, <1>9 DEF LinedUp
  <1>11. Granted(s)
    BY <1>1, <1>3, <1>10 DEF Granted
  <1>12. QED
    BY <1>1, <1>11

(* Requests whose carts list their variants in one common order never wait *)
(* for each other in a ring: it is the order in which transition locks     *)
(* stock, which it takes from the lines of each order, that makes          *)
(* deadlocks possible.                                                     *)
THEOREM OnlyCrossedCartsDeadlock == CashSpec => []DeadlocksNeedCrossedCarts
  <1>1. CashInit => HoldingInv /\ \A s \in Sessions : Behind(s)
    BY HoldingStarts DEF CashInit, Behind, Idle
  <1>2. ImplInv /\ HoldingInv /\ (\A s \in Sessions : Behind(s)) /\ [CashNext]_cashVars =>
          HoldingInv' /\ (\A s \in Sessions : Behind(s))'
    BY HoldingKept, BehindKept DEF ImplInv
  <1>3. ImplInv /\ HoldingInv /\ (\A s \in Sessions : Behind(s)) => DeadlocksNeedCrossedCarts
    BY RingsCross DEF RingInv
  <1>4. QED
    BY <1>1, <1>2, <1>3, ImplAlways, PTL DEF CashSpec
=============================================================================
