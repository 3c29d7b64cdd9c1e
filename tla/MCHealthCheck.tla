---------------------------- MODULE MCHealthCheck ----------------------------
(* Instances of HealthCheck for TLC *)
EXTENDS HealthCheck, TLC

CONSTANTS a1, a2

\* a1 has two nodes, a2 the rest
MCAliasOf == [p \in Probes |-> IF p <= 2 THEN a1 ELSE a2]

=============================================================================
