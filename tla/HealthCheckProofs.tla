-------------------------- MODULE HealthCheckProofs --------------------------
(***************************************************************************)
(* Proofs about HealthCheck, for any aliases and any nodes of each.        *)
(***************************************************************************)
EXTENDS HealthCheck, SequenceTheorems, TLAPS

\* Nothing is decided before the probes are launched
Before == {"start", "resolve", "launch"}
Deciding == {"loop", "get", "timeout"}

\* What is undecided, pending and heard of an alias agree: an alias has one result from
\* its decision on; while it is undecided, a node no longer pending has failed; and until
\* the report is complete an alias asked for is either pending or decided.
AliasInv(a) ==
    /\ \A p \in pending[a] : AliasOf[p] = a
    /\ a \notin asked => pending[a] = {}
    /\ emitted[a] = IF verdict[a] = "none" THEN 0 ELSE 1
    /\ pc \in Before =>
        verdict[a] = "none" /\ \A p \in NodesOf(a) \ pending[a] : probe[p] = "idle"
    /\ verdict[a] = "none" => \A p \in NodesOf(a) \ pending[a] : probe[p] \in {"idle", "failed"}
    /\ pc \in Before \cup Deciding /\ pending[a] # {} => verdict[a] = "none"
    /\ pc \in Deciding /\ a \in asked /\ verdict[a] = "none" => pending[a] # {}
    /\ pc \in {"summary", "over"} /\ exit # "refused" /\ a \in asked => verdict[a] # "none"
    /\ exit = "refused" => verdict[a] = "none"

\* The command's own state: every probe asked for is under way when it waits, and the time
\* is up when it reports an alias as timed out.
CommandInv ==
    /\ asked # {}
    /\ pc \in {"launch", "summary"} \cup Deciding \/ exit \in {"healthy", "unhealthy"} =>
        asked \subseteq Aliases
    /\ pc \in Deciding => \A p \in Wanted : probe[p] # "idle"
    /\ pc = "timeout" /\ Undecided # {} => expired
    /\ exit = "none" <=> pc # "over"
    /\ exit = "healthy" => \A a \in asked : verdict[a] = "ok"

\* The inductive invariant
Inv == TypeOK /\ CommandInv /\ (\A a \in Aliases : AliasInv(a)) /\ VerdictsAreJustified

-----------------------------------------------------------------------------

\* Nothing is launched, pending or decided before the command runs.
LEMMA InitInv == Init => Inv
<1> SUFFICES ASSUME Init PROVE Inv
  OBVIOUS
<1>1. asked \subseteq Aliases \cup {UnknownAlias} /\ asked # {}
  <2>1. asked = Aliases \/ \E a \in Aliases \cup {UnknownAlias} : asked = {a}
    BY Zenon DEF Init
  <2> QED
    BY <2>1, HealthAssumption
<1>2. TypeOK
  <2>1. results \in Seq(Probes)
    BY EmptySeq DEF Init
  <2> QED
    BY <1>1, <2>1 DEF Init, TypeOK, Settled
<1>3. CommandInv
  BY <1>1 DEF Init, CommandInv, Deciding
<1>4. (\A a \in Aliases : AliasInv(a)) /\ VerdictsAreJustified
  BY DEF Init, AliasInv, VerdictsAreJustified, Before, Deciding, NodesOf
<1> QED
  BY <1>2, <1>3, <1>4 DEF Inv

\* The head of the queue is a probe of the settings, and the rest are probes too.
LEMMA QueueOfProbes ==
  ASSUME TypeOK, results # <<>>
  PROVE  Head(results) \in Probes /\ AliasOf[Head(results)] \in Aliases /\ Tail(results) \in Seq(Probes)
<1> QED
  BY HealthAssumption, HeadTailProperties DEF TypeOK

\* The steps of the main thread that judge no alias: the app, the aliases, and the control
\* of the loop
LEMMA ControlKeeps ==
  ASSUME Inv, Start \/ Resolve \/ AllLaunched \/ CheckDeadline \/ GetTimesOut
  PROVE  Inv'
<1>1. /\ UNCHANGED <<probe, results, pending, verdict, emitted, noAnswer, clock, asked, valid>>
      /\ TypeOK /\ CommandInv /\ VerdictsAreJustified
  BY DEF Inv, Start, Resolve, AllLaunched, CheckDeadline, GetTimesOut, Refuse, Goto, report, main
<1>2. TypeOK'
  BY <1>1 DEF TypeOK, Start, Resolve, AllLaunched, CheckDeadline, GetTimesOut, Refuse, Goto,
     report, clock
<1>3. VerdictsAreJustified'
  BY <1>1 DEF VerdictsAreJustified, NodesOf, clock
<1>4. CommandInv'
  BY <1>1 DEF TypeOK, CommandInv, Start, Resolve, AllLaunched, CheckDeadline, GetTimesOut,
     TimedOut, Refuse, Goto, report, clock, Deciding, Wanted, Undecided
<1>5. ASSUME NEW a \in Aliases PROVE AliasInv(a)'
  <2>1. AliasInv(a)
    BY DEF Inv
  <2>2. CASE AllLaunched
    <3>1. PICK p \in Probes : AliasOf[p] = a
      BY HealthAssumption
    <3>2. a \in asked => p \in pending[a]
      BY <2>1, <2>2, <3>1 DEF AllLaunched, AliasInv, Wanted, NodesOf, Before
    <3> QED
      BY <1>1, <2>1, <2>2, <3>2 DEF AllLaunched, AliasInv, Goto, report, NodesOf, Before, Deciding
  <2>3. CASE Start \/ Resolve
    BY <1>1, <2>1, <2>3 DEF AliasInv, Start, Resolve, Refuse, Goto, report, NodesOf, Before, Deciding
  <2>4. CASE CheckDeadline \/ GetTimesOut
    BY <1>1, <2>1, <2>4 DEF AliasInv, CheckDeadline, GetTimesOut, Goto, report, NodesOf, Before, Deciding
  <2> QED
    BY <2>2, <2>3, <2>4
<1> QED
  BY <1>2, <1>3, <1>4, <1>5 DEF Inv

\* A node is registered before its thread runs.
LEMMA LaunchKeeps ==
  ASSUME Inv, NEW p \in Probes, Launch(p)
  PROVE  Inv'
<1>1. /\ TypeOK /\ CommandInv /\ VerdictsAreJustified /\ AliasOf[p] \in Aliases
      /\ AliasOf[p] \in asked
  BY HealthAssumption DEF Inv, Launch, Wanted
<1>2. TypeOK'
  BY <1>1 DEF TypeOK, Launch, main, report, clock
<1>3. VerdictsAreJustified'
  BY <1>1 DEF TypeOK, VerdictsAreJustified, Launch, NodesOf, main, report, clock
<1>4. CommandInv'
  BY <1>1 DEF TypeOK, CommandInv, Launch, main, report, clock, Deciding, Wanted, Undecided
<1>5. ASSUME NEW a \in Aliases PROVE AliasInv(a)'
  <2>1. AliasInv(a)
    BY DEF Inv
  <2> QED
    BY <1>1, <2>1 DEF TypeOK, AliasInv, Launch, main, report, NodesOf, Before, Deciding
<1> QED
  BY <1>2, <1>3, <1>4, <1>5 DEF Inv

\* Once an outcome is taken from the queue, an alias still pending is decided by a
\* success, or by the failure of its last node.
LEMMA GetKeeps ==
  ASSUME Inv, GetResult
  PROVE  Inv'
<1> DEFINE p == Head(results)
           b == AliasOf[p]
<1>1. /\ TypeOK /\ CommandInv /\ VerdictsAreJustified
      /\ p \in Probes /\ b \in Aliases /\ Tail(results) \in Seq(Probes)
  BY QueueOfProbes DEF Inv, GetResult
<1>2. /\ pc = "get" /\ pc' = "loop" /\ results' = Tail(results)
      /\ UNCHANGED <<asked, valid, probe, noAnswer, exit, clock>>
  BY DEF GetResult, Goto
<1>3. AliasInv(b)
  BY <1>1 DEF Inv
<1> HIDE DEF p, b
\* What can become of the report
<1>4. \/ UNCHANGED <<pending, verdict, emitted>>
      \/ pending[b] # {} /\ probe[p] = "ok" /\ Decide(b, "ok")
      \/ pending[b] = {p} /\ probe[p] = "failed" /\ Decide(b, "allFailed")
      \/ /\ pending[b] # {} /\ pending[b] # {p} /\ probe[p] = "failed"
         /\ pending' = [pending EXCEPT ![b] = @ \ {p}] /\ UNCHANGED <<verdict, emitted>>
  BY DEF GetResult, StillPending, TakeFailure, LastToBeHeard, p, b
<1>5. AliasOf[p] = b
  BY DEF b
<1>6. CASE UNCHANGED <<pending, verdict, emitted>>
  <2>1. TypeOK'
    BY <1>1, <1>2, <1>6 DEF TypeOK, clock
  <2>2. VerdictsAreJustified'
    BY <1>1, <1>2, <1>6 DEF VerdictsAreJustified, NodesOf, clock
  <2>3. CommandInv'
    BY <1>1, <1>2, <1>6 DEF CommandInv, Deciding, Wanted, Undecided, clock
  <2>4. ASSUME NEW a \in Aliases PROVE AliasInv(a)'
    BY <1>2, <1>6, <2>4 DEF Inv, AliasInv, NodesOf, Before, Deciding
  <2> QED
    BY <2>1, <2>2, <2>3, <2>4 DEF Inv
<1>7. CASE \E v \in {"ok", "allFailed"} :
             /\ pending[b] # {} /\ Decide(b, v)
             /\ v = "ok" => probe[p] = "ok"
             /\ v = "allFailed" => pending[b] = {p} /\ probe[p] = "failed"
  <2>1. PICK v \in {"ok", "allFailed"} :
          /\ pending[b] # {} /\ Decide(b, v)
          /\ v = "ok" => probe[p] = "ok"
          /\ v = "allFailed" => pending[b] = {p} /\ probe[p] = "failed"
    BY <1>7
  <2>2. b \in asked /\ verdict[b] = "none" /\ emitted[b] = 0
    BY <1>2, <1>3, <2>1 DEF AliasInv, Deciding
  <2>3. TypeOK'
    BY <1>1, <1>2, <2>1 DEF TypeOK, Decide, clock
  <2>4. v = "allFailed" => \A q \in NodesOf(b) : probe[q] = "failed"
    <3>1. \A q \in NodesOf(b) : probe[q] # "idle"
      BY <1>1, <1>2, <2>2 DEF CommandInv, Deciding, Wanted, NodesOf
    <3> QED
      BY <1>3, <2>1, <2>2, <3>1 DEF AliasInv
  <2>5. v = "ok" => p \in NodesOf(b) /\ probe[p] = "ok"
    BY <1>1, <1>5, <2>1 DEF NodesOf
  <2>6. VerdictsAreJustified'
    BY <1>1, <1>2, <2>1, <2>4, <2>5 DEF TypeOK, VerdictsAreJustified, Decide, NodesOf, clock
  <2>7. CommandInv'
    BY <1>1, <1>2 DEF CommandInv, Deciding, Wanted, Undecided, clock
  <2>8. ASSUME NEW a \in Aliases PROVE AliasInv(a)'
    <3>1. AliasInv(a)
      BY DEF Inv
    <3>2. CASE a = b
      <4>1. verdict'[a] = v /\ emitted'[a] = 1 /\ pending'[a] = {}
        BY <1>1, <2>1, <2>2, <3>2 DEF TypeOK, Decide
      <4> QED
        BY <1>1, <1>2, <2>2, <3>1, <3>2, <4>1 DEF AliasInv, NodesOf, Before, Deciding, CommandInv
    <3>3. CASE a # b
      <4>1. verdict'[a] = verdict[a] /\ emitted'[a] = emitted[a] /\ pending'[a] = pending[a]
        BY <1>1, <2>1, <3>3 DEF TypeOK, Decide
      <4> QED
        BY <1>2, <3>1, <4>1 DEF AliasInv, NodesOf, Before, Deciding
    <3> QED
      BY <3>2, <3>3
  <2> QED
    BY <2>3, <2>6, <2>7, <2>8 DEF Inv
<1>8. CASE /\ pending[b] # {} /\ pending[b] # {p} /\ probe[p] = "failed"
           /\ pending' = [pending EXCEPT ![b] = @ \ {p}] /\ UNCHANGED <<verdict, emitted>>
  <2>1. TypeOK'
    BY <1>1, <1>2, <1>8 DEF TypeOK, clock
  <2>2. VerdictsAreJustified'
    BY <1>1, <1>2, <1>8 DEF VerdictsAreJustified, NodesOf, clock
  <2>3. CommandInv'
    BY <1>1, <1>2, <1>8 DEF CommandInv, Deciding, Wanted, Undecided, clock
  <2>4. ASSUME NEW a \in Aliases PROVE AliasInv(a)'
    <3>1. AliasInv(a)
      BY DEF Inv
    <3> QED
      BY <1>1, <1>2, <1>8, <3>1 DEF TypeOK, AliasInv, NodesOf, Before, Deciding
  <2> QED
    BY <2>1, <2>2, <2>3, <2>4 DEF Inv
<1> QED
  BY <1>4, <1>6, <1>7, <1>8

\* The report is completed when the loop is over: nothing is pending, or the time is up.
LEMMA TimeoutKeeps ==
  ASSUME Inv, ReportTimeouts
  PROVE  Inv'
<1>1. /\ TypeOK /\ CommandInv /\ VerdictsAreJustified
      /\ pc = "timeout" /\ pc' = "summary"
      /\ UNCHANGED <<asked, valid, probe, results, pending, exit, clock>>
  BY DEF Inv, ReportTimeouts, Goto
<1>2. ASSUME NEW a \in Aliases
      PROVE  /\ verdict'[a] = IF a \in Undecided THEN "timeout" ELSE verdict[a]
             /\ emitted'[a] = IF a \in Undecided THEN emitted[a] + 1 ELSE emitted[a]
  BY DEF ReportTimeouts
<1>3. TypeOK'
  <2>1. noAnswer' \in SUBSET Probes
    BY <1>1 DEF ReportTimeouts, TypeOK, Undecided, CommandInv, Deciding
  <2>2. emitted' \in [Aliases -> Nat]
    BY <1>1 DEF ReportTimeouts, TypeOK
  <2>3. verdict' \in [Aliases -> {"none", "ok", "allFailed", "timeout"}]
    BY <1>1 DEF ReportTimeouts, TypeOK
  <2> QED
    BY <1>1, <2>1, <2>2, <2>3 DEF TypeOK, clock
<1>4. VerdictsAreJustified'
  BY <1>1, <1>2 DEF VerdictsAreJustified, CommandInv, NodesOf, clock
<1>5. CommandInv'
  BY <1>1 DEF CommandInv, Deciding, Wanted, Undecided, clock
<1>6. ASSUME NEW a \in Aliases PROVE AliasInv(a)'
  <2>1. AliasInv(a)
    BY DEF Inv
  <2>2. CASE a \in Undecided
    <3>1. verdict[a] = "none" /\ emitted[a] = 0
      BY <1>1, <2>1, <2>2 DEF AliasInv, Undecided, Deciding
    <3>2. verdict'[a] = "timeout" /\ emitted'[a] = 1
      BY <1>2, <2>2, <3>1
    <3> QED
      BY <1>1, <2>1, <2>2, <3>2 DEF AliasInv, CommandInv, NodesOf, Before, Deciding, Undecided
  <2>3. CASE a \notin Undecided
    <3>1. verdict'[a] = verdict[a] /\ emitted'[a] = emitted[a]
      BY <1>2, <2>3
    <3> QED
      BY <1>1, <2>1, <2>3, <3>1 DEF AliasInv, NodesOf, Before, Deciding, Undecided
  <2> QED
    BY <2>2, <2>3
<1> QED
  BY <1>3, <1>4, <1>5, <1>6 DEF Inv

\* The exit code is the conjunction of the verdicts.
LEMMA SummariseKeeps ==
  ASSUME Inv, Summarise
  PROVE  Inv'
<1>1. /\ TypeOK /\ CommandInv /\ VerdictsAreJustified
      /\ pc = "summary" /\ pc' = "over"
      /\ exit' = (IF FailedAliases = {} THEN "healthy" ELSE "unhealthy")
      /\ UNCHANGED <<asked, valid, probe, results, pending, verdict, emitted, noAnswer, clock>>
  BY DEF Inv, Summarise, Goto
<1>2. TypeOK'
  BY <1>1 DEF TypeOK, clock
<1>3. VerdictsAreJustified'
  BY <1>1 DEF VerdictsAreJustified, NodesOf, clock
<1>4. CommandInv'
  BY <1>1 DEF CommandInv, Deciding, Wanted, Undecided, FailedAliases, clock
<1>5. ASSUME NEW a \in Aliases PROVE AliasInv(a)'
  BY <1>1, <1>5 DEF Inv, CommandInv, AliasInv, NodesOf, Before, Deciding
<1> QED
  BY <1>2, <1>3, <1>4, <1>5 DEF Inv

\* A probe puts its outcome in the queue: no verdict depended on a probe under way.
LEMMA ProbeKeeps ==
  ASSUME Inv, NEW p \in Probes, RunProbe(p)
  PROVE  Inv'
<1>1. /\ TypeOK /\ CommandInv /\ VerdictsAreJustified
      /\ UNCHANGED <<main, pending, report, expired>>
      /\ probe[p] = "running" /\ \E o \in Settled : probe' = [probe EXCEPT ![p] = o]
  BY DEF Inv, RunProbe
<1>2. TypeOK'
  <2>1. results' \in Seq(Probes)
    BY <1>1 DEF TypeOK, RunProbe, PutOutcome
  <2>2. inTime' \in SUBSET Probes
    BY <1>1 DEF TypeOK, RunProbe
  <2> QED
    BY <1>1, <2>1, <2>2 DEF TypeOK, main, report
<1>3. VerdictsAreJustified'
  BY <1>1 DEF TypeOK, VerdictsAreJustified, NodesOf, Settled, report
<1>4. CommandInv'
  BY <1>1 DEF TypeOK, CommandInv, Deciding, Wanted, Undecided, Settled, main, report
<1>5. ASSUME NEW a \in Aliases PROVE AliasInv(a)'
  BY <1>1, <1>5 DEF Inv, TypeOK, AliasInv, NodesOf, Before, Deciding, Settled, main, report
<1> QED
  BY <1>2, <1>3, <1>4, <1>5 DEF Inv

\* Time may pass at any point.
LEMMA ClockKeeps ==
  ASSUME Inv, DeadlineExpires \/ UNCHANGED vars
  PROVE  Inv'
<1>1. /\ UNCHANGED <<main, probe, results, pending, report, inTime>>
      /\ expired' \in BOOLEAN /\ (expired => expired')
  BY DEF Inv, TypeOK, DeadlineExpires, vars, clock
<1>2. TypeOK'
  BY <1>1 DEF Inv, TypeOK, main, report
<1>3. CommandInv' /\ VerdictsAreJustified'
  BY <1>1 DEF Inv, TypeOK, CommandInv, VerdictsAreJustified, NodesOf, Deciding, Wanted, Undecided,
     main, report
<1>4. ASSUME NEW a \in Aliases PROVE AliasInv(a)'
  BY <1>1, <1>4 DEF Inv, AliasInv, NodesOf, Before, Deciding, main, report
<1> QED
  BY <1>2, <1>3, <1>4 DEF Inv

\* Every step keeps the invariant.
LEMMA NextKeeps ==
  ASSUME Inv, [Next]_vars
  PROVE  Inv'
<1> QED
  BY ControlKeeps, LaunchKeeps, GetKeeps, TimeoutKeeps, SummariseKeeps, ProbeKeeps, ClockKeeps
     DEF Next, Main, Over

-----------------------------------------------------------------------------
(* Theorems *)

\* The invariant holds in every state, whatever order the outcomes arrive in.
THEOREM Invariant == Spec => []Inv
<1> QED
  BY InitInv, NextKeeps, PTL DEF Spec

\* Every variable keeps its type.
THEOREM TypeCorrect == Spec => []TypeOK
<1> QED
  BY Invariant, PTL DEF Inv

\* An alias is OK only if a node answered, failed only if all failed, and timed out only
\* after the deadline, for any number of nodes that answer in any order.
THEOREM VerdictsJustified == Spec => []VerdictsAreJustified
<1> QED
  BY Invariant, PTL DEF Inv

\* One line for each alias asked for: outcomes that come after the decision add none, and
\* no alias is forgotten.
THEOREM ReportedOnce == Spec => []EachAliasReportedOnce
<1>1. Inv => EachAliasReportedOnce
  <2> SUFFICES ASSUME Inv, NEW a \in Aliases
               PROVE  /\ emitted[a] <= 1
                      /\ pc \in {"summary", "over"} /\ exit # "refused" /\ a \in asked => emitted[a] = 1
    BY DEF EachAliasReportedOnce
  <2> QED
    BY DEF Inv, AliasInv
<1> QED
  BY Invariant, <1>1, PTL

\* The exit code is 0 only if every alias asked for has a node that answered.
THEOREM HealthyIsReachable == Spec => []HealthyMeansReachable
<1>1. Inv => HealthyMeansReachable
  BY DEF Inv, CommandInv, VerdictsAreJustified, NodesOf, HealthyMeansReachable
<1> QED
  BY Invariant, <1>1, PTL

-----------------------------------------------------------------------------
(* HealthCheck implements HealthVerdict *)

\* The answers and verdicts HealthVerdict sees, as the instance Verdict gives them
Answers == [p \in Probes |-> IF probe[p] \in Settled THEN probe[p] ELSE "none"]
Verdicts == [a \in Aliases |-> IF verdict[a] \in {"allFailed", "timeout"} THEN "failed"
                                                                        ELSE verdict[a]]

\* Steps that settle nothing are not seen.
LEMMA Unseen ==
  ASSUME UNCHANGED <<expired, exit, verdict>>, Answers' = Answers
  PROVE  UNCHANGED Verdict!verdictVars
<1>1. Verdicts' = Verdicts
  BY DEF Verdicts
<1> QED
  BY <1>1, Zenon DEF Verdict!verdictVars, Answers, Verdicts

\* Launching a probe is not seen; its outcome is an answer.
LEMMA ProbesRefine ==
  ASSUME Inv, NEW p \in Probes, Launch(p) \/ RunProbe(p)
  PROVE  [Verdict!Next]_(Verdict!verdictVars)
<1>1. TypeOK
  BY DEF Inv
<1>2. CASE Launch(p)
  <2>1. Answers' = Answers
    BY <1>1, <1>2 DEF TypeOK, Launch, Answers, Settled
  <2> QED
    BY <1>2, <2>1, Unseen DEF Launch, report, clock
<1>3. CASE RunProbe(p)
  <2>1. PICK r \in Settled : probe' = [probe EXCEPT ![p] = r]
    BY <1>3 DEF RunProbe
  <2>2. Answers[p] = "none" /\ Answers' = [Answers EXCEPT ![p] = r]
    BY <1>1, <1>3, <2>1 DEF TypeOK, RunProbe, Answers, Settled
  <2>3. UNCHANGED <<expired, exit, verdict>>
    BY <1>3 DEF RunProbe, report
  <2>4. Verdicts' = Verdicts
    BY <2>3 DEF Verdicts
  <2>5. r \in {"ok", "failed"}
    BY DEF Settled
  <2>6. Verdict!Answer(p)
    BY <2>2, <2>3, <2>4, <2>5, Zenon DEF Verdict!Answer, Answers, Verdicts
  <2> QED
    BY <2>6 DEF Verdict!Next
<1> QED
  BY <1>2, <1>3

\* Taking an outcome accepts or rejects an alias, once, or changes nothing that is seen.
LEMMA GetRefines ==
  ASSUME Inv, Inv', GetResult
  PROVE  [Verdict!Next]_(Verdict!verdictVars)
<1>0. TypeOK /\ AliasOf[Head(results)] \in Aliases /\ Head(results) \in Probes
  BY QueueOfProbes DEF Inv, GetResult
<1>1. PICK b \in Aliases : b = AliasOf[Head(results)]
  BY <1>0
<1>2. UNCHANGED <<expired, exit, probe>>
  BY DEF GetResult, clock
<1>3. Answers' = Answers
  BY <1>2 DEF Answers
<1>4. CASE UNCHANGED verdict
  BY <1>2, <1>3, <1>4, Unseen
<1>5. CASE StillPending(b) /\ \E v \in {"ok", "allFailed"} : Decide(b, v)
  <2>1. PICK v \in {"ok", "allFailed"} : Decide(b, v)
    BY <1>5
  <2>2. verdict[b] = "none" /\ verdict' = [verdict EXCEPT ![b] = v]
    BY <1>0, <1>1, <1>5, <2>1 DEF Inv, AliasInv, Deciding, GetResult, StillPending, Decide
  <2>3. Verdicts[b] = "none"
    BY <2>2 DEF Verdicts
  <2>4. CASE v = "ok"
    <3>1. \E p \in NodesOf(b) : probe[p] = "ok"
      BY <1>0, <1>2, <2>2, <2>4 DEF Inv, TypeOK, VerdictsAreJustified, NodesOf
    <3>2. PICK p \in Verdict!NodesOf(b) : Answers[p] = "ok"
      BY <3>1 DEF NodesOf, Verdict!NodesOf, Answers, Settled
    <3>3. Verdicts' = [Verdicts EXCEPT ![b] = "ok"]
      BY <1>0, <2>2, <2>4 DEF TypeOK, Verdicts
    <3>4. Verdict!Judge(b, "ok")
      BY <1>2, <1>3, <2>3, <3>3, Zenon DEF Verdict!Judge, Answers, Verdicts
    <3>5. Verdict!Accept(b)
      BY <3>2, <3>4, Zenon DEF Verdict!Accept, Answers
    <3> QED
      BY <3>5 DEF Verdict!Next
  <2>5. CASE v = "allFailed"
    <3>1. \A p \in NodesOf(b) : probe[p] = "failed"
      BY <1>0, <1>2, <2>2, <2>5 DEF Inv, TypeOK, VerdictsAreJustified, NodesOf
    <3>2. \A p \in Verdict!NodesOf(b) : Answers[p] = "failed"
      BY <3>1 DEF NodesOf, Verdict!NodesOf, Answers, Settled
    <3>3. Verdicts' = [Verdicts EXCEPT ![b] = "failed"]
      BY <1>0, <2>2, <2>5 DEF TypeOK, Verdicts
    <3>4. Verdict!Judge(b, "failed")
      BY <1>2, <1>3, <2>3, <3>3, Zenon DEF Verdict!Judge, Answers, Verdicts
    <3>5. Verdict!Reject(b)
      BY <3>2, <3>4, Zenon DEF Verdict!Reject, Answers
    <3> QED
      BY <3>5 DEF Verdict!Next
  <2> QED
    BY <2>4, <2>5
<1> QED
  BY <1>1, <1>4, <1>5 DEF GetResult, TakeFailure

\* What is pending at the end of the loop is rejected for being late.
LEMMA TimeoutRefines ==
  ASSUME Inv, ReportTimeouts
  PROVE  [Verdict!Next]_(Verdict!verdictVars)
<1>1. TypeOK /\ CommandInv /\ pc = "timeout" /\ UNCHANGED <<expired, exit, probe>>
  BY DEF Inv, ReportTimeouts, clock
<1>2. Answers' = Answers
  BY <1>1 DEF Answers
<1>3. CASE Undecided = {}
  <2>1. verdict' = verdict
    BY <1>1, <1>3 DEF TypeOK, ReportTimeouts
  <2> QED
    BY <1>1, <1>2, <2>1, Unseen
<1>4. CASE Undecided # {}
  <2>1. expired /\ Undecided \subseteq Aliases
    BY <1>1, <1>4 DEF CommandInv, Undecided, Deciding
  <2>2. \A a \in Undecided : Verdicts[a] = "none"
    BY <1>1, <2>1 DEF Inv, AliasInv, Deciding, Undecided, Verdicts
  <2>3. Verdicts' = [a \in Aliases |-> IF a \in Undecided THEN "failed" ELSE Verdicts[a]]
    BY DEF ReportTimeouts, Verdicts
  <2>4. Undecided \subseteq {a \in Aliases : Verdicts[a] = "none"}
    BY <2>1, <2>2
  <2>5. PICK A \in SUBSET Aliases : A = Undecided
    BY <2>1
  <2>6. Verdict!RejectLate(A)
    BY <1>1, <1>2, <2>1, <2>3, <2>4, <2>5, Zenon DEF Verdict!RejectLate, Answers, Verdicts
  <2> QED
    BY <2>6 DEF Verdict!Next
<1> QED
  BY <1>3, <1>4

\* The command ends with all it was asked about judged, or refused with nothing judged.
LEMMA EndRefines ==
  ASSUME Inv, Inv', Summarise \/ (Refuse /\ pc \in {"start", "resolve"})
  PROVE  [Verdict!Next]_(Verdict!verdictVars)
<1>1. TypeOK /\ CommandInv /\ exit = "none" /\ UNCHANGED <<expired, verdict, probe, asked>>
  BY DEF Inv, CommandInv, Summarise, Refuse, Goto, clock
<1>2. Answers' = Answers /\ Verdicts' = Verdicts
  BY <1>1 DEF Answers, Verdicts
<1>3. CASE Summarise
  <2>1. asked # {} /\ asked \in SUBSET Aliases
    BY <1>1, <1>3 DEF CommandInv, Summarise
  <2>2. \A a \in asked : Verdicts[a] # "none" /\ (Verdicts[a] = "ok" <=> verdict[a] = "ok")
    BY <1>1, <1>3, <2>1 DEF Inv, AliasInv, Summarise, Verdicts
  <2>3. exit' = IF \A a \in asked : Verdicts[a] = "ok" THEN "healthy" ELSE "unhealthy"
    BY <1>3, <2>2 DEF Summarise, FailedAliases
  <2>4. Verdict!Finish(asked)
    BY <1>1, <1>2, <2>2, <2>3, Zenon DEF Verdict!Finish, Answers, Verdicts
  <2> QED
    BY <2>1, <2>4 DEF Verdict!Next
<1>4. CASE Refuse /\ pc \in {"start", "resolve"}
  <2>1. \A a \in Aliases : Verdicts[a] = "none"
    BY <1>4 DEF Inv, AliasInv, Before, Verdicts
  <2>2. exit' = "refused"
    BY <1>4 DEF Refuse
  <2>3. Verdict!Refuse
    BY <1>1, <1>2, <2>1, <2>2, Zenon DEF Verdict!Refuse, Answers, Verdicts
  <2> QED
    BY <2>3 DEF Verdict!Next
<1> QED
  BY <1>3, <1>4

\* The command keeps what it promises: each alias is judged once, healthy only if a node
\* answered, unhealthy only if all failed or the time was up, and the exit code follows.
THEOREM VerdictImplemented == Spec => ImplementsVerdict
<1>1. Init => Verdict!Init
  BY DEF Init, Verdict!Init, Settled
<1>2. Inv /\ Inv' /\ [Next]_vars => [Verdict!Next]_(Verdict!verdictVars)
  <2> SUFFICES ASSUME Inv, Inv', [Next]_vars PROVE [Verdict!Next]_(Verdict!verdictVars)
    OBVIOUS
  <2>1. ASSUME UNCHANGED <<probe, report, clock>> PROVE [Verdict!Next]_(Verdict!verdictVars)
    <3>1. Answers' = Answers
      BY <2>1 DEF Answers
    <3> QED
      BY <2>1, <3>1, Unseen DEF report, clock
  <2>2. CASE Start \/ Resolve
    BY <2>1, <2>2, EndRefines DEF Start, Resolve
  <2>3. CASE AllLaunched \/ CheckDeadline \/ GetTimesOut
    BY <2>1, <2>3 DEF AllLaunched, CheckDeadline, GetTimesOut
  <2>4. CASE DeadlineExpires
    <3>1. Answers' = Answers /\ Verdicts' = Verdicts /\ UNCHANGED exit /\ ~expired /\ expired' = TRUE
      BY <2>4 DEF DeadlineExpires, Answers, Verdicts, report
    <3>2. Verdict!TimeIsUp
      BY <3>1, Zenon DEF Verdict!TimeIsUp, Answers, Verdicts
    <3> QED
      BY <3>2 DEF Verdict!Next
  <2>5. CASE UNCHANGED vars
    BY <2>1, <2>5 DEF vars
  <2> QED
    BY <2>2, <2>3, <2>4, <2>5, ProbesRefine, GetRefines, TimeoutRefines, EndRefines
       DEF Next, Main, Over
<1> QED
  BY <1>1, <1>2, Invariant, PTL DEF Spec, ImplementsVerdict, Verdict!Spec

=============================================================================
