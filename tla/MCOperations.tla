---------------------------- MODULE MCOperations ----------------------------
(* Small instances of Operations.                                          *)
EXTENDS Operations, TLC

CONSTANTS asked, alert, w1, w2

Symmetric == Permutations(Workers)
=============================================================================
