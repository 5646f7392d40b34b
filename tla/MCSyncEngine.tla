---------------------------- MODULE MCSyncEngine ----------------------------
(* Small instances of SyncEngine.                                          *)
EXTENDS SyncEngine, TLC

CONSTANTS j1, j2, r1, r2

Symmetric == Permutations(Jobs) \cup Permutations(Runners)
=============================================================================
