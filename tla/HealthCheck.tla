----------------------------- MODULE HealthCheck -----------------------------
(***************************************************************************)
(* The check_rabbitmq_connections command: a thread per node opens and     *)
(* closes a connection and puts the outcome in a queue, while the main     *)
(* thread takes outcomes and decides aliases until none is pending or the  *)
(* deadline passes.                                                        *)
(*                                                                         *)
(* A probe is a node of an alias, numbered in the order of the settings;   *)
(* time is the one bit expired.  Rendering and the time figures are left   *)
(* out.                                                                    *)
(***************************************************************************)
EXTENDS Integers, Sequences, FiniteSets

CONSTANTS
    Aliases,       \* RABBITMQ_CONNECTIONS
    UnknownAlias,  \* a --using that is not configured
    Probes,        \* the nodes of all aliases
    AliasOf        \* the alias of each

\* The settings are refused unless there is an alias (apps.py, ready) and every alias
\* has a node (_resolve_nodes)
ASSUME HealthAssumption ==
    /\ Aliases # {}
    /\ Probes \subseteq Nat
    /\ AliasOf \in [Probes -> Aliases]
    /\ \A a \in Aliases : \E p \in Probes : AliasOf[p] = a
    /\ UnknownAlias \notin Aliases

VARIABLES
    pc,        \* where the main thread is
    asked,     \* the aliases to check
    valid,     \* the app is initialized and --timeout, if given, is positive
    probe,     \* each probe: not started, connecting, or its outcome
    results,   \* the queue of outcomes, oldest first
    pending,   \* undecided aliases, each with the nodes still to be heard
    expired,   \* the deadline passed
    verdict,   \* each alias: not decided, ok, all nodes failed, or timed out
    emitted,   \* how many results were yielded for each alias
    noAnswer,  \* nodes listed as "no answer" in a timeout
    inTime,    \* history: nodes whose outcome was in the queue by the deadline
    exit       \* how the command ended

main == <<pc, asked, valid>>
report == <<verdict, emitted, noAnswer, exit>>
clock == <<expired, inTime>>
vars == <<main, probe, results, pending, report, clock>>

Settled == {"ok", "failed"}
Wanted == {p \in Probes : AliasOf[p] \in asked}
NodesOf(a) == {p \in Probes : AliasOf[p] = a}

\* The aliases in pending: once all probes are launched, those whose list has a node
Undecided == {a \in asked : pending[a] # {}}

TypeOK ==
    /\ pc \in {"start", "resolve", "launch", "loop", "get", "timeout", "summary", "over"}
    /\ asked \in SUBSET (Aliases \cup {UnknownAlias}) /\ valid \in BOOLEAN
    /\ probe \in [Probes -> {"idle", "running"} \cup Settled]
    /\ results \in Seq(Probes)
    /\ pending \in [Aliases -> SUBSET Probes]
    /\ expired \in BOOLEAN /\ inTime \in SUBSET Probes
    /\ verdict \in [Aliases -> {"none", "ok", "allFailed", "timeout"}]
    /\ emitted \in [Aliases -> Nat]
    /\ noAnswer \in SUBSET Probes
    /\ exit \in {"none", "refused", "healthy", "unhealthy"}

Goto(l) == pc' = l /\ UNCHANGED <<asked, valid>>

Refuse ==
    /\ exit' = "refused"
    /\ Goto("over")
    /\ UNCHANGED <<probe, results, pending, verdict, emitted, noAnswer, clock>>

-----------------------------------------------------------------------------
(* The main thread *)

\* handle(): the app and the arguments
Start ==
    /\ pc = "start"
    /\ \/ ~valid /\ Refuse
       \/ /\ valid /\ Goto("resolve")
          /\ UNCHANGED <<probe, results, pending, report, clock>>

\* Every alias is resolved before a thread starts
Resolve ==
    /\ pc = "resolve"
    /\ \/ UnknownAlias \in asked /\ Refuse
       \/ /\ UnknownAlias \notin asked /\ Goto("launch")
          /\ UNCHANGED <<probe, results, pending, report, clock>>

\* The next node in order is registered and gets its thread
Launch(p) ==
    /\ pc = "launch" /\ p \in Wanted /\ probe[p] = "idle"
    /\ \A q \in Wanted : q < p => probe[q] # "idle"
    /\ pending' = [pending EXCEPT ![AliasOf[p]] = @ \cup {p}]
    /\ probe' = [probe EXCEPT ![p] = "running"]
    /\ UNCHANGED <<main, results, report, clock>>

AllLaunched ==
    /\ pc = "launch" /\ \A p \in Wanted : probe[p] # "idle"
    /\ Goto("loop")
    /\ UNCHANGED <<probe, results, pending, report, clock>>

\* while pending, and the time that remains
CheckDeadline ==
    /\ pc = "loop"
    /\ Goto(IF Undecided = {} \/ expired THEN "timeout" ELSE "get")
    /\ UNCHANGED <<probe, results, pending, report, clock>>

\* One result is yielded for alias a
Decide(a, v) ==
    /\ verdict' = [verdict EXCEPT ![a] = v]
    /\ emitted' = [emitted EXCEPT ![a] = @ + 1]
    /\ pending' = [pending EXCEPT ![a] = {}]

\* Faulty: a node that failed decides its alias
LastToFail(p) == TRUE

\* No other node of the alias is to be heard
LastToBeHeard(p) == pending[AliasOf[p]] = {p}

TakeFailure(p) ==
    \/ LastToBeHeard(p) /\ Decide(AliasOf[p], "allFailed")
    \/ /\ ~LastToBeHeard(p)
       /\ pending' = [pending EXCEPT ![AliasOf[p]] = @ \ {p}]
       /\ UNCHANGED <<verdict, emitted>>

\* Faulty: outcomes of a decided alias are not skipped
TakesLateResults(a) == TRUE

StillPending(a) == pending[a] # {}

\* probe_results.get(): an outcome, skipped if another node decided the alias
GetResult ==
    /\ pc = "get" /\ results # <<>>
    /\ LET p == Head(results)  a == AliasOf[Head(results)] IN
       \/ /\ ~StillPending(a)
          /\ UNCHANGED <<pending, verdict, emitted>>
       \/ /\ StillPending(a) /\ probe[p] = "ok"
          /\ Decide(a, "ok")
       \/ StillPending(a) /\ probe[p] = "failed" /\ TakeFailure(p)
    /\ results' = Tail(results)
    /\ Goto("loop")
    /\ UNCHANGED <<probe, noAnswer, exit, clock>>

\* Faulty: get() without a timeout
NeverEmpty == FALSE

\* queue.Empty: the time that remained has passed and nothing is there
TimedOut == results = <<>> /\ expired

GetTimesOut ==
    /\ pc = "get" /\ TimedOut
    /\ Goto("timeout")
    /\ UNCHANGED <<probe, results, pending, report, clock>>

\* What is still pending failed, its nodes not heard listed as "no answer"
ReportTimeouts ==
    /\ pc = "timeout"
    /\ verdict' = [a \in Aliases |-> IF a \in Undecided THEN "timeout" ELSE verdict[a]]
    /\ emitted' = [a \in Aliases |-> IF a \in Undecided THEN emitted[a] + 1 ELSE emitted[a]]
    /\ noAnswer' = UNION {pending[a] : a \in Undecided}
    /\ Goto("summary")
    /\ UNCHANGED <<probe, results, pending, exit, clock>>

\* Faulty: only the aliases whose nodes all failed count
RefusedAliases == {a \in asked : verdict[a] = "allFailed"}

FailedAliases == {a \in asked : verdict[a] # "ok"}

\* The exit code, or the CommandError
Summarise ==
    /\ pc = "summary"
    /\ exit' = IF FailedAliases = {} THEN "healthy" ELSE "unhealthy"
    /\ Goto("over")
    /\ UNCHANGED <<probe, results, pending, verdict, emitted, noAnswer, clock>>

Main ==
    \/ Start \/ Resolve \/ (\E p \in Probes : Launch(p)) \/ AllLaunched
    \/ CheckDeadline \/ GetResult \/ GetTimesOut \/ ReportTimeouts \/ Summarise

-----------------------------------------------------------------------------
(* The probe threads and the clock *)

\* Faulty: the exception of a failed probe ends its thread
OnlySuccesses(p) == IF probe'[p] = "ok" THEN Append(results, p) ELSE results

\* Faulty: the alias is put in the queue for the node
PutsAlias(p) == Append(results, AliasOf[p])

\* Success or any exception, from connecting or from closing, is put in the queue
PutOutcome(p) == Append(results, p)

RunProbe(p) ==
    /\ probe[p] = "running"
    /\ \E outcome \in Settled : probe' = [probe EXCEPT ![p] = outcome]
    /\ results' = PutOutcome(p)
    /\ inTime' = IF expired THEN inTime ELSE inTime \cup {p}
    /\ UNCHANGED <<main, pending, report, expired>>

DeadlineExpires ==
    /\ ~expired /\ pc \notin {"start", "resolve"}
    /\ expired' = TRUE
    /\ UNCHANGED <<main, probe, results, pending, report, inTime>>

-----------------------------------------------------------------------------

Init ==
    /\ pc = "start"
    /\ asked \in {Aliases} \cup {{a} : a \in Aliases \cup {UnknownAlias}}
    /\ valid \in BOOLEAN
    /\ probe = [p \in Probes |-> "idle"]
    /\ results = <<>>
    /\ pending = [a \in Aliases |-> {}]
    /\ expired = FALSE /\ inTime = {}
    /\ verdict = [a \in Aliases |-> "none"] /\ emitted = [a \in Aliases |-> 0]
    /\ noAnswer = {}
    /\ exit = "none"

\* The process is gone, or its caller goes on
Over == pc = "over" /\ UNCHANGED vars

Next == Main \/ (\E p \in Probes : RunProbe(p)) \/ DeadlineExpires \/ Over

Spec == Init /\ [][Next]_vars

\* The main thread is scheduled
FairSpec == Spec /\ WF_vars(Main)

-----------------------------------------------------------------------------
(* Properties *)

\* Whatever order outcomes arrive in, an alias is OK only if a node of it answered,
\* failed only if every node failed, timed out only after the deadline.
VerdictsAreJustified ==
    \A a \in Aliases :
        /\ verdict[a] = "ok" => \E p \in NodesOf(a) : probe[p] = "ok"
        /\ verdict[a] = "allFailed" => \A p \in NodesOf(a) : probe[p] = "failed"
        /\ verdict[a] = "timeout" => expired

\* The report has one line for each alias asked for: never two, although outcomes of
\* a decided alias keep coming, and none is forgotten.
EachAliasReportedOnce ==
    \A a \in Aliases :
        /\ emitted[a] <= 1
        /\ pc \in {"summary", "over"} /\ exit # "refused" /\ a \in asked => emitted[a] = 1

\* The container probe is told "healthy" only if every alias asked for has a node
\* that answered.
HealthyMeansReachable ==
    exit = "healthy" => \A a \in asked : \E p \in Probes : AliasOf[p] = a /\ probe[p] = "ok"

\* Time passes: the command ends, although nodes may never answer.
EndsByDeadline == WF_vars(DeadlineExpires) => <>(pc = "over")

\* Every node answers or is refused: the command ends without the deadline, however
\* far that is.
EndsPromptly == (\A p \in Probes : WF_vars(RunProbe(p))) => <>(pc = "over")

\* The command implements the verdict it promises.
Verdict == INSTANCE HealthVerdict WITH
    answer <- [p \in Probes |-> IF probe[p] \in Settled THEN probe[p] ELSE "none"],
    timeUp <- expired,
    verdict <- [a \in Aliases |-> IF verdict[a] \in {"allFailed", "timeout"} THEN "failed"
                                                                         ELSE verdict[a]]
ImplementsVerdict == Verdict!Spec

\* "`<host>:<port> no answer` for each node that did not answer": a node listed so
\* had not answered when the deadline passed.
NoAnswerMeansHung == noAnswer \cap inTime = {}

=============================================================================
