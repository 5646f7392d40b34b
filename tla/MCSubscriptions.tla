--------------------------- MODULE MCSubscriptions ---------------------------
(* Small instances of Subscriptions.                                        *)
EXTENDS Subscriptions, TLC

CONSTANTS basic, pro, p1, p2

Symmetric == Permutations(Payments) \cup Permutations(Plans)
=============================================================================
