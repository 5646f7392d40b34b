------------------------------ MODULE MCOutbox ------------------------------
(* Small instances of Outbox.                                              *)
EXTENDS Outbox, TLC

CONSTANTS e1, e2, s1, s2, w1, w2

MCWants == [s \in Subs |-> IF s = s1 THEN Events ELSE {e1}]
Symmetric == Permutations(Workers)
=============================================================================
