---------------------------- MODULE HealthVerdict ----------------------------
(***************************************************************************)
(* What check_rabbitmq_connections promises the container probe, without   *)
(* threads or a queue: each alias is judged once, healthy only if a node   *)
(* of it answered, unhealthy only if all its nodes failed or the time was  *)
(* up, and the exit code is the conjunction.  HealthCheck implements this. *)
(***************************************************************************)

CONSTANTS
    Probes,    \* one per configured node
    Aliases,
    AliasOf    \* the alias each node belongs to

VARIABLES
    answer,    \* "none", "ok" or "failed" for each node
    timeUp,    \* the deadline passed
    verdict,   \* "none", "ok" or "failed" for each alias
    exit       \* "none", or how the command ended

verdictVars == <<answer, timeUp, verdict, exit>>

NodesOf(a) == {p \in Probes : AliasOf[p] = a}

Init ==
    /\ answer = [p \in Probes |-> "none"]
    /\ timeUp = FALSE
    /\ verdict = [a \in Aliases |-> "none"]
    /\ exit = "none"

Answer(p) ==
    /\ answer[p] = "none"
    /\ \E r \in {"ok", "failed"} : answer' = [answer EXCEPT ![p] = r]
    /\ UNCHANGED <<timeUp, verdict, exit>>

TimeIsUp ==
    /\ ~timeUp /\ timeUp' = TRUE
    /\ UNCHANGED <<answer, verdict, exit>>

Judge(a, v) ==
    /\ verdict[a] = "none"
    /\ verdict' = [verdict EXCEPT ![a] = v]
    /\ UNCHANGED <<answer, timeUp, exit>>

Accept(a) == (\E p \in NodesOf(a) : answer[p] = "ok") /\ Judge(a, "ok")

Reject(a) == (\A p \in NodesOf(a) : answer[p] = "failed") /\ Judge(a, "failed")

\* The deadline: what is not judged by now has failed
RejectLate(A) ==
    /\ timeUp
    /\ A \subseteq {a \in Aliases : verdict[a] = "none"}
    /\ verdict' = [a \in Aliases |-> IF a \in A THEN "failed" ELSE verdict[a]]
    /\ UNCHANGED <<answer, timeUp, exit>>

\* The command is asked about the aliases in A: all of them, or one
Finish(A) ==
    /\ exit = "none"
    /\ \A a \in A : verdict[a] # "none"
    /\ exit' = IF \A a \in A : verdict[a] = "ok" THEN "healthy" ELSE "unhealthy"
    /\ UNCHANGED <<answer, timeUp, verdict>>

\* Wrong settings or arguments: nothing was judged
Refuse ==
    /\ exit = "none"
    /\ \A a \in Aliases : verdict[a] = "none"
    /\ exit' = "refused"
    /\ UNCHANGED <<answer, timeUp, verdict>>

Next ==
    \/ \E p \in Probes : Answer(p)
    \/ TimeIsUp
    \/ \E a \in Aliases : Accept(a) \/ Reject(a)
    \/ \E A \in SUBSET Aliases : RejectLate(A) \/ (A # {} /\ Finish(A))
    \/ Refuse

Spec == Init /\ [][Next]_verdictVars

=============================================================================
