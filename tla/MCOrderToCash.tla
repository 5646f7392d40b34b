--------------------------- MODULE MCOrderToCash ---------------------------
(* Small instances of OrderToCash.                                         *)
EXTENDS OrderToCash, TLC, SequencesExt

CONSTANTS a, b, c,       \* variants; c is a service and has no stock
          ab, ba, service \* carts: two list a and b in opposite orders, one lists c

MCAllLines ==
  ab :> <<[variant |-> a, quantity |-> 1], [variant |-> b, quantity |-> 1]>>
           @@ ba :> <<[variant |-> b, quantity |-> 1], [variant |-> a, quantity |-> 1],
                      [variant |-> a, quantity |-> 1]>>
           @@ service :> <<[variant |-> c, quantity |-> 1]>>
MCLines == [k \in Carts |-> MCAllLines[k]]
MCDemand ==
  [k \in Carts |-> [v \in Variants |->
     FoldSeq(LAMBDA l, n : n + (IF l.variant = v /\ v \in Tracked THEN l.quantity ELSE 0),
             0, MCAllLines[k])]]
MCKind == [k \in Carts |-> IF k = service THEN "service" ELSE "product"]
MCCartTotal == [k \in Carts |-> [p \in Prices |-> 1 + p]]
Symmetric == Permutations(Orders) \cup Permutations(Sessions)
MCOpening == [v \in Variants |-> 2]
=============================================================================
