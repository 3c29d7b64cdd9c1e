----------------------------- MODULE MCProducer -----------------------------
(* Instances of Producer for TLC *)
EXTENDS Producer, TLC

CONSTANTS n1, n2, byConfig, byName, noQueue, m1, m2, m3

MCRank == (n1 :> 1) @@ (n2 :> 2)
MCQueueKind == [p \in Producers |->
    CASE p = byConfig -> "config" [] p = byName -> "name" [] p = noQueue -> "none"]
MCCallerMode == [m \in Messages |->
    CASE m = m1 -> "unset" [] m = m2 -> "persistent" [] m = m3 -> "transient"]

=============================================================================
