----------------------------- MODULE MCPiTurns -----------------------------
(* Small instances of PiTurns.                                             *)
EXTENDS PiTurns, TLC

CONSTANTS m1, m2, w1, w2

Symmetric == Permutations(Workers)
=============================================================================
