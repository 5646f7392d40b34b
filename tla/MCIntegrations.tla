--------------------------- MODULE MCIntegrations ---------------------------
(* Small instances of Integrations.                                        *)
EXTENDS Integrations, TLC

CONSTANTS e1, s1, w1, j1, j2, r1

MCWants == [s \in Subs |-> Events]
=============================================================================
