------------------------ MODULE MCCustomerPayments ------------------------
(* Small instances of CustomerPayments.                                    *)
EXTENDS CustomerPayments, TLC

CONSTANTS card1, card2, bank1, bank2, w1, w2

Symmetric == Permutations(Workers)
=============================================================================
