---------------------------- MODULE PublishProofs ----------------------------
(***************************************************************************)
(* More about Producer, on the invariants of ProducerProofs: one           *)
(* disturbance is masked by the retry, and the whole of it implements      *)
(* PublishContract.                                                        *)
(***************************************************************************)
EXTENDS ProducerProofs

-----------------------------------------------------------------------------
(* The invariants *)

\* The thread's next I/O will find something lost.
Broken(t) == Stale(t) \/ (pc[t] = "confirm" /\ t \notin freshUp)

\* The attempt of t failed on a reconnectable error.
Failing(t) ==
    \/ pc[t] = "failed" /\ err[t] = "reconnectable"
    \/ pc[t] \in {"resetChannel", "resetConnection"}

\* A call with fewer hits than attempts has nothing broken and has not failed; a second
\* attempt had a first hit; and while it had no second one, a node is up and the
\* declaration, if it still has to be made, will be accepted.
Masked(t) ==
    pc[t] # "idle" =>
        /\ hits[t] < attempt[t] => ~Broken(t) /\ ~Failing(t)
        /\ attempt[t] = 2 => hits[t] >= 1
        /\ hits[t] < 2 => /\ up # {}
                          /\ SkipsDeclare(job[t].p) \/ DeclareAccepted(job[t].p)
                          /\ pc[t] = "declare" => DeclareAccepted(job[t].p)
MaskInv == \A t \in Threads : Masked(t)

\* Copies are of messages whose publish() was entered.
SentInv == \A copy \in stored \cup limbo : result[copy.msg] \notin {"new", "skipped", "typeerror"}

-----------------------------------------------------------------------------
(* One disturbance is masked *)

\* What a step of another thread leaves of this one
Undisturbed(u) ==
    /\ pc'[u] = pc[u] /\ job'[u] = job[u] /\ attempt'[u] = attempt[u] /\ err'[u] = err[u]
    /\ conn'[u] = conn[u] /\ chan'[u] = chan[u] /\ hits'[u] = hits[u]
    /\ u \in connUp' <=> u \in connUp
    /\ u \in chanUp' <=> u \in chanUp
    /\ u \in freshUp' <=> u \in freshUp

\* The nodes and the queue serve at least as well as before
Serving ==
    /\ up \subseteq up' /\ declared \subseteq declared'
    /\ queue' = queue \/ (queue = "absent" /\ queue' = "match")

\* So what was masked stays so.
LEMMA UndisturbedStaysMasked ==
  ASSUME NEW u \in Threads, Masked(u), Undisturbed(u), Serving
  PROVE  Masked(u)'
<1>1. \A p : SkipsDeclare(p) \/ DeclareAccepted(p) => SkipsDeclare(p)' \/ DeclareAccepted(p)'
  BY DEF Serving, SkipsDeclare, DeclareAccepted
<1>2. \A p : DeclareAccepted(p) => DeclareAccepted(p)'
  BY DEF Serving, DeclareAccepted
<1>3. (Broken(u)' => Broken(u)) /\ (Failing(u)' => Failing(u))
  BY DEF Undisturbed, Broken, Failing, Stale
<1>4. up # {} => up' # {}
  BY DEF Serving
<1> QED
  BY <1>1, <1>2, <1>3, <1>4 DEF Undisturbed, Masked

\* It is enough to look at the thread that makes the step.
LEMMA OthersStayMasked ==
  ASSUME MaskInv, Serving, NEW t \in Threads, \A u \in Threads \ {t} : Undisturbed(u), Masked(t)'
  PROVE  MaskInv'
<1> QED
  BY UndisturbedStaysMasked DEF MaskInv

\* A call stays masked: get_producer_connection().
LEMMA MaskGetConnection ==
  ASSUME Slots, Delivery, MaskInv, NEW t \in Threads, GetConnection(t)
  PROVE  MaskInv'
<1>1. Serving /\ \A u \in Threads \ {t} : Undisturbed(u)
  BY DEF Slots, TypeOK, Serving, Undisturbed, GetConnection, Throw, Goto, Reachable
<1>2. Masked(t)'
  <2>1. /\ Masked(t)
        /\ pc[t] # "idle" => attempt[t] \in 1..2
        /\ hits[t] \in Nat
    BY DEF Delivery, CallsInv, MaskInv, Slots, TypeOK
  <2> QED
    BY <2>1 DEF Slots, TypeOK, SlotsInv, CallsInv, Delivery, Masked, Broken, Failing, Stale,
                SkipsDeclare, DeclareAccepted, GetConnection, Throw, Goto, Reachable
<1> QED
  BY <1>1, <1>2, OthersStayMasked

\* A call stays masked: taking or opening a channel in get_producer_channel().
LEMMA MaskGetChannel ==
  ASSUME Slots, Delivery, MaskInv, NEW t \in Threads, GetChannel(t)
  PROVE  MaskInv'
<1>1. Serving /\ \A u \in Threads \ {t} : Undisturbed(u)
  BY DEF Slots, TypeOK, Serving, Undisturbed, GetChannel, ConnectionLost, Closed, Throw, Goto, HasOpenChannel, slots
<1>2. Masked(t)'
  <2>1. /\ Masked(t)
        /\ pc[t] # "idle" => attempt[t] \in 1..2
        /\ hits[t] \in Nat
    BY DEF Delivery, CallsInv, MaskInv, Slots, TypeOK
  <2> QED
    BY <2>1 DEF Slots, TypeOK, SlotsInv, CallsInv, Delivery, Masked, Broken, Failing, Stale,
                SkipsDeclare, DeclareAccepted, GetChannel, ConnectionLost, Closed, Throw, Goto, HasOpenChannel, slots
<1> QED
  BY <1>1, <1>2, OthersStayMasked

\* A call stays masked: confirm_delivery().
LEMMA MaskConfirmDelivery ==
  ASSUME Slots, Delivery, MaskInv, NEW t \in Threads, ConfirmDelivery(t)
  PROVE  MaskInv'
<1>1. Serving /\ \A u \in Threads \ {t} : Undisturbed(u)
  BY DEF Slots, TypeOK, Serving, Undisturbed, ConfirmDelivery, ConnectionLost, Closed, Throw, Goto, WithConfirms, slots, broker
<1>2. Masked(t)'
  <2>1. /\ Masked(t)
        /\ pc[t] # "idle" => attempt[t] \in 1..2
        /\ hits[t] \in Nat
    BY DEF Delivery, CallsInv, MaskInv, Slots, TypeOK
  <2> QED
    BY <2>1 DEF Slots, TypeOK, SlotsInv, CallsInv, Delivery, Masked, Broken, Failing, Stale,
                SkipsDeclare, DeclareAccepted, ConfirmDelivery, ConnectionLost, Closed, Throw, Goto, WithConfirms, slots, broker
<1> QED
  BY <1>1, <1>2, OthersStayMasked

\* A call stays masked: the test of _is_queue_declared.
LEMMA MaskEnsureQueueDeclared ==
  ASSUME Slots, Delivery, MaskInv, NEW t \in Threads, EnsureQueueDeclared(t)
  PROVE  MaskInv'
<1>1. Serving /\ \A u \in Threads \ {t} : Undisturbed(u)
  BY DEF Slots, TypeOK, Serving, Undisturbed, EnsureQueueDeclared, Goto, slots, broker
<1>2. Masked(t)'
  <2>1. /\ Masked(t)
        /\ pc[t] # "idle" => attempt[t] \in 1..2
        /\ hits[t] \in Nat
    BY DEF Delivery, CallsInv, MaskInv, Slots, TypeOK
  <2> QED
    BY <2>1 DEF Slots, TypeOK, SlotsInv, CallsInv, Delivery, Masked, Broken, Failing, Stale,
                SkipsDeclare, DeclareAccepted, EnsureQueueDeclared, Goto, slots, broker
<1> QED
  BY <1>1, <1>2, OthersStayMasked

\* A call stays masked: queue_declare.
LEMMA MaskDeclareQueue ==
  ASSUME Slots, Delivery, MaskInv, NEW t \in Threads, DeclareQueue(t)
  PROVE  MaskInv'
<1>1. Serving /\ \A u \in Threads \ {t} : Undisturbed(u)
  BY DEF Slots, TypeOK, Serving, Undisturbed, DeclareQueue, IOFails, ConnectionLost, ChannelServed, Closed, Throw, Goto, slots
<1>2. Masked(t)'
  <2>1. /\ Masked(t)
        /\ pc[t] # "idle" => attempt[t] \in 1..2
        /\ hits[t] \in Nat
    BY DEF Delivery, CallsInv, MaskInv, Slots, TypeOK
  <2> QED
    BY <2>1 DEF Slots, TypeOK, SlotsInv, CallsInv, Delivery, Masked, Broken, Failing, Stale,
                SkipsDeclare, DeclareAccepted, DeclareQueue, IOFails, ConnectionLost, ChannelServed, Closed, Throw, Goto, slots
<1> QED
  BY <1>1, <1>2, OthersStayMasked

\* A call stays masked: sending the message.
LEMMA MaskBasicPublish ==
  ASSUME Slots, Delivery, MaskInv, NEW t \in Threads, BasicPublish(t)
  PROVE  MaskInv'
<1>1. Serving /\ \A u \in Threads \ {t} : Undisturbed(u)
  BY DEF Slots, TypeOK, Serving, Undisturbed, BasicPublish, IOFails, ConnectionLost, ChannelServed, Closed, Throw, Leave, Goto, slots
<1>2. Masked(t)'
  <2>1. /\ Masked(t)
        /\ pc[t] # "idle" => attempt[t] \in 1..2
        /\ hits[t] \in Nat
    BY DEF Delivery, CallsInv, MaskInv, Slots, TypeOK
  <2> QED
    BY <2>1 DEF Slots, TypeOK, SlotsInv, CallsInv, Delivery, Masked, Broken, Failing, Stale,
                SkipsDeclare, DeclareAccepted, BasicPublish, IOFails, ConnectionLost, ChannelServed, Closed, Throw, Leave, Goto, slots
<1> QED
  BY <1>1, <1>2, OthersStayMasked

\* A call stays masked: the broker's answer, or its absence,.
LEMMA MaskAwaitConfirm ==
  ASSUME Slots, Delivery, MaskInv, NEW t \in Threads, AwaitConfirm(t)
  PROVE  MaskInv'
<1>1. Serving /\ \A u \in Threads \ {t} : Undisturbed(u)
  BY DEF Slots, TypeOK, Serving, Undisturbed, AwaitConfirm, IOFails, ConnectionLost, Closed, Throw, Leave, Goto, slots
<1>2. Masked(t)'
  <2>1. /\ Masked(t)
        /\ pc[t] # "idle" => attempt[t] \in 1..2
        /\ hits[t] \in Nat
    BY DEF Delivery, CallsInv, MaskInv, Slots, TypeOK
  <2> QED
    BY <2>1 DEF Slots, TypeOK, SlotsInv, CallsInv, Delivery, Masked, Broken, Failing, Stale,
                SkipsDeclare, DeclareAccepted, AwaitConfirm, IOFails, ConnectionLost, Closed, Throw, Leave, Goto, slots
<1> QED
  BY <1>1, <1>2, OthersStayMasked

\* A call stays masked: catching the error of the first attempt.
LEMMA MaskRetry ==
  ASSUME Slots, Delivery, MaskInv, NEW t \in Threads, Retry(t)
  PROVE  MaskInv'
<1>1. Serving /\ \A u \in Threads \ {t} : Undisturbed(u)
  BY DEF Slots, TypeOK, Serving, Undisturbed, Retry, MayRetry, Goto, slots, broker
<1>2. Masked(t)'
  <2>1. /\ Masked(t)
        /\ pc[t] # "idle" => attempt[t] \in 1..2
        /\ hits[t] \in Nat
    BY DEF Delivery, CallsInv, MaskInv, Slots, TypeOK
  <2> QED
    BY <2>1 DEF Slots, TypeOK, SlotsInv, CallsInv, Delivery, Masked, Broken, Failing, Stale,
                SkipsDeclare, DeclareAccepted, Retry, MayRetry, Goto, slots, broker
<1> QED
  BY <1>1, <1>2, OthersStayMasked

\* A call stays masked: raising to the caller.
LEMMA MaskRaise ==
  ASSUME Slots, Delivery, MaskInv, NEW t \in Threads, Raise(t)
  PROVE  MaskInv'
<1>1. Serving /\ \A u \in Threads \ {t} : Undisturbed(u)
  BY DEF Slots, TypeOK, Serving, Undisturbed, Raise, MayRetry, Leave, Goto, slots, broker
<1>2. Masked(t)'
  <2>1. /\ Masked(t)
        /\ pc[t] # "idle" => attempt[t] \in 1..2
        /\ hits[t] \in Nat
    BY DEF Delivery, CallsInv, MaskInv, Slots, TypeOK
  <2> QED
    BY <2>1 DEF Slots, TypeOK, SlotsInv, CallsInv, Delivery, Masked, Broken, Failing, Stale,
                SkipsDeclare, DeclareAccepted, Raise, MayRetry, Leave, Goto, slots, broker
<1> QED
  BY <1>1, <1>2, OthersStayMasked

\* A call stays masked: dropping the channel.
LEMMA MaskResetChannel ==
  ASSUME Slots, Delivery, MaskInv, NEW t \in Threads, ResetChannel(t)
  PROVE  MaskInv'
<1>1. Serving /\ \A u \in Threads \ {t} : Undisturbed(u)
  BY DEF Slots, TypeOK, Serving, Undisturbed, ResetChannel, Closed, Goto
<1>2. Masked(t)'
  <2>1. /\ Masked(t)
        /\ pc[t] # "idle" => attempt[t] \in 1..2
        /\ hits[t] \in Nat
    BY DEF Delivery, CallsInv, MaskInv, Slots, TypeOK
  <2> QED
    BY <2>1 DEF Slots, TypeOK, SlotsInv, CallsInv, Delivery, Masked, Broken, Failing, Stale,
                SkipsDeclare, DeclareAccepted, ResetChannel, Closed, Goto
<1> QED
  BY <1>1, <1>2, OthersStayMasked

\* A call stays masked: dropping the connection.
LEMMA MaskResetConnection ==
  ASSUME Slots, Delivery, MaskInv, NEW t \in Threads, ResetConnection(t)
  PROVE  MaskInv'
<1>1. Serving /\ \A u \in Threads \ {t} : Undisturbed(u)
  BY DEF Slots, TypeOK, Serving, Undisturbed, ResetConnection, CloseConnection, NextAttempt, Goto
<1>2. Masked(t)'
  <2>1. /\ Masked(t)
        /\ pc[t] # "idle" => attempt[t] \in 1..2
        /\ hits[t] \in Nat
    BY DEF Delivery, CallsInv, MaskInv, Slots, TypeOK
  <2> QED
    BY <2>1 DEF Slots, TypeOK, SlotsInv, CallsInv, Delivery, Masked, Broken, Failing, Stale,
                SkipsDeclare, DeclareAccepted, ResetConnection, CloseConnection, NextAttempt, Goto
<1> QED
  BY <1>1, <1>2, OthersStayMasked

\* A call starts masked: a stale slot counts as its first hit.
LEMMA MaskPublish ==
  ASSUME Slots, MaskInv, NEW t \in Threads, NEW p \in Producers, NEW m \in Messages,
         Publish(t, p, m)
  PROVE  MaskInv'
<1>1. Serving /\ \A u \in Threads \ {t} : Undisturbed(u)
  BY DEF Slots, TypeOK, Serving, Undisturbed, Publish, Goto, slots, broker
<1>2. Masked(t)'
  <2>1. /\ pc'[t] = "connect" /\ attempt'[t] = 1 /\ job'[t].p = p
        /\ hits'[t] = IF up = {} \/ ~(SkipsDeclare(p) \/ DeclareAccepted(p)) THEN 2
                      ELSE IF Stale(t) THEN 1 ELSE 0
        /\ UNCHANGED <<up, queue, declared, conn, chan, connUp, chanUp>>
    BY DEF Slots, TypeOK, Publish, Goto, slots, broker
  <2> QED
    BY <2>1 DEF Masked, Broken, Failing, Stale, SkipsDeclare, DeclareAccepted
<1> QED
  BY <1>1, <1>2, OthersStayMasked

\* The steps that touch no call.
LEMMA MaskElsewhere ==
  ASSUME MaskInv, Serving, \A u \in Threads : Undisturbed(u)
  PROVE  MaskInv'
<1> QED
  BY UndisturbedStaysMasked DEF MaskInv

\* A connection lost, or a channel, is a hit: the call it belongs to has one more.
LEMMA MaskLoseConnection ==
  ASSUME Slots, Delivery, MaskInv, NEW t \in Threads, LoseConnection(t) \/ BrokerClosesChannel(t)
  PROVE  MaskInv'
<1>1. Serving /\ \A u \in Threads \ {t} : Undisturbed(u)
  BY DEF Slots, TypeOK, Serving, Undisturbed, LoseConnection, BrokerClosesChannel, LoseConnections
<1>2. Masked(t)'
  <2>1. /\ UNCHANGED <<pc, job, attempt, err, conn, chan, declared, up, queue>>
        /\ hits'[t] = Hit(t)
    BY DEF Slots, TypeOK, LoseConnection, BrokerClosesChannel, LoseConnections
  <2>2. /\ Masked(t) /\ hits[t] \in Nat
        /\ pc[t] # "idle" => attempt[t] \in 1..2
    BY DEF Delivery, CallsInv, MaskInv, Slots, TypeOK
  <2>3. pc[t] # "idle" => hits'[t] >= attempt[t]
    BY <2>1, <2>2 DEF Hit, Active, Masked
  <2> QED
    BY <2>1, <2>2, <2>3 DEF Masked, Hit, Active, SkipsDeclare, DeclareAccepted
<1> QED
  BY <1>1, <1>2, OthersStayMasked

\* A node that stops hits the calls connected to it, and all calls twice when it was the last
\* or the queue goes with it.
LEMMA MaskNodeFails ==
  ASSUME Slots, Delivery, MaskInv, NEW n \in Nodes, NodeFails(n)
  PROVE  MaskInv'
<1> DEFINE lost == {t \in connUp : node[t] = n}
<1>1. /\ UNCHANGED <<pc, job, attempt, err, conn, chan, chanUp, freshUp, declared>>
      /\ connUp' = connUp \ lost
      /\ hits' = [t \in Threads |->
                    IF Active(t) /\ (up' = {} \/ queue' # queue) THEN 2
                    ELSE IF t \in lost THEN Hit(t) ELSE hits[t]]
  BY DEF NodeFails, LoseConnections
<1>2. ASSUME NEW t \in Threads PROVE Masked(t)'
  <2>1. /\ Masked(t) /\ hits[t] \in Nat
        /\ pc[t] # "idle" => attempt[t] \in 1..2
    BY DEF Delivery, CallsInv, MaskInv, Slots, TypeOK
  <2>2. hits'[t] = IF Active(t) /\ (up' = {} \/ queue' # queue) THEN 2
                   ELSE IF t \in lost THEN Hit(t) ELSE hits[t]
    BY <1>1
  <2>3. CASE up' = {} \/ queue' # queue
    BY <1>1, <2>1, <2>2, <2>3 DEF Masked, Active
  <2>4. CASE up' # {} /\ queue' = queue /\ t \in lost
    <3>1. pc[t] # "idle" => hits'[t] >= attempt[t]
      BY <2>1, <2>2, <2>4 DEF Hit, Active, Masked
    <3> QED
      BY <1>1, <2>1, <2>2, <2>4, <3>1 DEF Masked, Hit, Active, SkipsDeclare, DeclareAccepted
  <2>5. CASE up' # {} /\ queue' = queue /\ t \notin lost
    <3>1. t \in connUp' <=> t \in connUp
      BY <1>1, <2>5
    <3>2. up # {}
      BY <2>5 DEF NodeFails
    <3> HIDE DEF lost
    <3>3. hits'[t] = hits[t]
      BY <2>2, <2>5
    <3> QED
      BY <1>1, <2>1, <2>5, <3>1, <3>2, <3>3
      DEF Masked, Broken, Failing, Stale, SkipsDeclare, DeclareAccepted
  <2> QED
    BY <2>3, <2>4, <2>5
<1> QED
  BY <1>2 DEF MaskInv

\* A queue deleted or redeclared counts as two hits: no retry can help.
LEMMA MaskQueueChanges ==
  ASSUME Slots, Delivery, MaskInv, NEW q \in {"absent", "match", "conflict"}, QueueChanges(q)
  PROVE  MaskInv'
<1>1. /\ \A t \in Threads : pc[t] # "idle" => hits'[t] = 2
      /\ UNCHANGED <<pc, attempt>>
  BY DEF QueueChanges, Active, client
<1>2. \A t \in Threads : pc[t] # "idle" => attempt[t] \in 1..2
  BY DEF Delivery, CallsInv
<1> QED
  BY <1>1, <1>2 DEF MaskInv, Masked

\* One step, whichever it is.
LEMMA NextMask == ASSUME Slots, Delivery, MaskInv, [Next]_vars PROVE MaskInv'
<1>1. ASSUME NEW t \in Threads, Step(t) PROVE MaskInv'
  BY <1>1, MaskGetConnection, MaskGetChannel, MaskConfirmDelivery, MaskEnsureQueueDeclared,
     MaskDeclareQueue, MaskBasicPublish, MaskAwaitConfirm, MaskRetry, MaskRaise,
     MaskResetChannel, MaskResetConnection DEF Step
<1>2. ASSUME NEW t \in Threads, NEW m \in Messages, NEW outcome \in {"skipped", "typeerror"},
             DecoratedSkip(t, m, outcome)
      PROVE  MaskInv'
  BY <1>2, MaskElsewhere DEF DecoratedSkip, Serving, Undisturbed, slots, broker
<1>3. ASSUME NEW t \in Threads, Call(t) PROVE MaskInv'
  BY <1>2, <1>3, MaskPublish DEF Call
<1>4. ASSUME NEW t \in Threads, BrokerAnswers(t) PROVE MaskInv'
  BY <1>4, MaskElsewhere DEF BrokerAnswers, Serving, Undisturbed, client, slots
<1>5. ASSUME NEW copy \in limbo, BrokerTakesLate(copy) PROVE MaskInv'
  BY <1>5, MaskElsewhere DEF BrokerTakesLate, Serving, Undisturbed, client, slots
<1>6. ASSUME NEW n \in Nodes, NodeRecovers(n) PROVE MaskInv'
  BY <1>6, MaskElsewhere DEF NodeRecovers, Serving, Undisturbed, client, slots
<1>7. CASE Environment
  BY <1>4, <1>5, <1>6, <1>7, MaskLoseConnection, MaskNodeFails, MaskQueueChanges DEF Environment
<1>8. CASE UNCHANGED vars
  BY <1>8, MaskElsewhere DEF Serving, Undisturbed, vars, client, slots, broker
<1> QED
  BY <1>1, <1>3, <1>7, <1>8 DEF Next, AllReturned

\* The slots start empty, and no call is on its way.
LEMMA InitMask == Init => MaskInv
  BY DEF Init, MaskInv, Masked

\* The retry masks any one disturbance, for any cluster, threads and number of faults.
THEOREM OneFaultMasked == Spec => []OneFaultIsMasked
<1>1. ASSUME Slots, Delivery, MaskInv
      PROVE  OneFaultIsMasked
  <2> SUFFICES ASSUME NEW t \in Threads,
                      pc[t] = "failed" /\ err[t] = "reconnectable" /\ attempt[t] # 1
               PROVE  hits[t] >= 2
    BY DEF OneFaultIsMasked
  <2>1. attempt[t] = 2 /\ hits[t] \in Nat
    BY <1>1 DEF Delivery, CallsInv, Slots, TypeOK
  <2> QED
    BY <1>1, <2>1 DEF MaskInv, Masked, Failing
<1> QED
  BY <1>1, InitSlots, NextSlots, InitDelivery, NextDelivery, InitMask, NextMask, PTL DEF Spec

-----------------------------------------------------------------------------
(* The contract *)

\* Only a call that is made sends, and its message is never skipped afterwards.
LEMMA NextSent ==
  ASSUME Slots, Delivery, SentInv, [Next]_vars
  PROVE  SentInv'
<1> DEFINE Unmade == {"new", "skipped", "typeerror"}
<1>1. ASSUME NEW t \in Threads, pc[t] # "idle"
      PROVE  result[job[t].m] \notin Unmade /\ CopyOf(t).msg = job[t].m
  BY <1>1 DEF Delivery, CallsInv, CopyOf
<1>2. /\ \A copy \in stored \cup limbo : copy.msg \in Messages
      /\ \A t \in Threads : job[t].m \in Messages
  BY DEF Slots, TypeOK, Copy, Job
<1>k. ASSUME \A copy \in (stored \cup limbo)' : \/ copy \in stored \cup limbo
                                               \/ \E t \in Threads : pc[t] # "idle" /\ copy = CopyOf(t),
             \A m \in Messages : result[m] \notin Unmade => result'[m] \notin Unmade
      PROVE  SentInv'
  BY <1>1, <1>2, <1>k DEF SentInv
<1>3. ASSUME NEW t \in Threads, Step(t) PROVE SentInv'
  <2>1. stored' = stored /\ (limbo' = limbo \/ (pc[t] # "idle" /\ limbo' = limbo \cup {CopyOf(t)}))
    BY <1>3 DEF Step, GetConnection, GetChannel, ConfirmDelivery, EnsureQueueDeclared, DeclareQueue,
                BasicPublish, AwaitConfirm, Retry, Raise, ResetChannel, ResetConnection, broker
  <2>2. \A m \in Messages : result'[m] = result[m] \/ result'[m] \in {"ok", "raised"}
    BY <1>3 DEF Step, GetConnection, GetChannel, ConfirmDelivery, EnsureQueueDeclared, DeclareQueue,
                BasicPublish, AwaitConfirm, Retry, Raise, ResetChannel, ResetConnection, Leave,
                Slots, TypeOK
  <2> QED
    BY <2>1, <2>2, <1>k
<1>4. ASSUME NEW t \in Threads, Call(t) PROVE SentInv'
  <2>1. UNCHANGED <<stored, limbo>>
    BY <1>4 DEF Call, Publish, DecoratedSkip, broker
  <2>2. \A m \in Messages : result'[m] = result[m] \/ result[m] = "new"
    BY <1>4 DEF Call, Publish, DecoratedSkip, Slots, TypeOK
  <2> QED
    BY <2>1, <2>2, <1>k
<1>5. CASE Environment
  <2>1. result' = result
    BY <1>5 DEF Environment, BrokerAnswers, LoseConnection, BrokerClosesChannel, BrokerTakesLate,
                NodeFails, NodeRecovers, QueueChanges, client
  <2>2. ASSUME NEW t \in Threads, reply[t] = "flight"
        PROVE  pc[t] # "idle"
    BY <2>2 DEF Delivery, CallsInv
  <2>3. ASSUME NEW t \in Threads, BrokerAnswers(t)
        PROVE  limbo' = limbo /\ stored' \subseteq stored \cup {CopyOf(t)} /\ pc[t] # "idle"
    BY <2>2, <2>3 DEF BrokerAnswers
  <2>4. ASSUME NEW lost \in SUBSET Threads, LoseConnections(lost)
        PROVE  \A copy \in limbo' : copy \in limbo \/ \E t \in Threads : pc[t] # "idle" /\ copy = CopyOf(t)
    BY <2>2, <2>4 DEF LoseConnections
  <2>5. ASSUME NEW t \in Threads, BrokerAnswers(t) PROVE SentInv'
    BY <2>1, <2>3, <2>5, <1>k
  <2>6. ASSUME NEW t \in Threads, LoseConnection(t) PROVE SentInv'
    BY <2>1, <2>4, <2>6, <1>k DEF LoseConnection
  <2>7. ASSUME NEW t \in Threads, BrokerClosesChannel(t) PROVE SentInv'
    BY <2>1, <2>7, <1>k DEF BrokerClosesChannel
  <2>8. ASSUME NEW copy \in limbo, BrokerTakesLate(copy) PROVE SentInv'
    BY <2>1, <2>8, <1>k DEF BrokerTakesLate
  <2>9. ASSUME NEW n \in Nodes, NodeFails(n) PROVE SentInv'
    <3>1. LoseConnections({t \in connUp : node[t] = n}) /\ stored' \subseteq stored
      BY <2>9 DEF NodeFails
    <3>2. {t \in connUp : node[t] = n} \in SUBSET Threads
      BY DEF Slots, TypeOK
    <3> QED
      BY <2>1, <2>4, <3>1, <3>2, <1>k
  <2>10. ASSUME NEW n \in Nodes, NodeRecovers(n) PROVE SentInv'
    BY <2>1, <2>10, <1>k DEF NodeRecovers
  <2>11. ASSUME NEW q \in {"absent", "match", "conflict"}, QueueChanges(q) PROVE SentInv'
    BY <2>1, <2>11, <1>k DEF QueueChanges
  <2> QED
    BY <1>5, <2>5, <2>6, <2>7, <2>8, <2>9, <2>10, <2>11 DEF Environment
<1>6. CASE UNCHANGED vars
  BY <1>6 DEF SentInv, vars, client, broker
<1> QED
  BY <1>3, <1>4, <1>5, <1>6 DEF Next, AllReturned

\* The copies the contract keeps when a node is lost are those that survive.
LEMMA TransientCopies ==
  ASSUME Slots
  PROVE  {copy \in stored : Survives(copy)} =
            {copy \in stored : copy.msg \notin {m \in Messages : Volatile(m)}}
<1>1. \A copy \in stored : copy.msg \in Messages
  BY DEF Slots, TypeOK, Copy
<1> QED
  BY <1>1, CallAssumption DEF Volatile, Survives, Persistent, EffectiveMode

\* Every step of the code of a thread ends its call as the contract allows, or is none of
\* the caller's business.
LEMMA StepImplements ==
  ASSUME Slots, Delivery, NEW t \in Threads, Step(t)
  PROVE  [Contract!Next]_<<result, stored>>
<1> DEFINE m == job[t].m
<1>1. m \in Messages /\ (pc[t] # "idle" => result[m] = "pending")
  BY CopyType DEF Slots, Delivery, CallsInv
<1>2. CASE UNCHANGED <<result, stored>>
  BY <1>2
<1>3. ASSUME AwaitConfirm(t), Leave(t, "ok"), reply[t] = "ack"
      PROVE  Contract!Return(m)
  <2>1. ~Volatile(m) => \E copy \in stored : copy.msg = m
    BY <1>3 DEF Delivery, CallsInv
  <2>2. result[m] = "pending" /\ result' = [result EXCEPT ![m] = "ok"] /\ UNCHANGED stored
    BY <1>1, <1>3 DEF AwaitConfirm, Leave
  <2> QED
    BY <1>1, <2>1, <2>2 DEF Contract!Return
<1>4. CASE AwaitConfirm(t)
  <2>1. (reply[t] = "ack" /\ Leave(t, "ok")) \/ UNCHANGED <<result, stored>>
    BY <1>4, Zenon DEF AwaitConfirm
  <2> QED
    BY <1>1, <1>3, <1>4, <2>1 DEF Contract!Next
<1>5. CASE Raise(t)
  <2>1. result[m] = "pending" /\ result' = [result EXCEPT ![m] = "raised"] /\ UNCHANGED stored
    BY <1>1, <1>5 DEF Raise, Leave, broker
  <2> QED
    BY <1>1, <2>1 DEF Contract!Raise, Contract!Next
<1>6. CASE BasicPublish(t)
  <2>1. ChannelServed(t) => t \in confirms
    BY DEF ChannelServed, Slots, SlotsInv
  <2>2. UNCHANGED <<result, stored>>
    BY <1>6, <2>1 DEF BasicPublish
  <2> QED
    BY <2>2
<1>7. CASE \/ GetConnection(t) \/ GetChannel(t) \/ ConfirmDelivery(t) \/ EnsureQueueDeclared(t)
           \/ DeclareQueue(t) \/ Retry(t) \/ ResetChannel(t) \/ ResetConnection(t)
  BY <1>7, <1>2 DEF GetConnection, GetChannel, ConfirmDelivery, EnsureQueueDeclared, DeclareQueue,
                    Retry, ResetChannel, ResetConnection, broker
<1> QED
  BY <1>4, <1>5, <1>6, <1>7 DEF Step

\* A call begins, or is skipped.
LEMMA CallImplements ==
  ASSUME NEW t \in Threads, Call(t)
  PROVE  Contract!Next
<1>1. ASSUME NEW p \in Producers, NEW m \in Messages, Publish(t, p, m)
      PROVE  Contract!Begin(m)
  BY <1>1 DEF Publish, broker, Contract!Begin
<1>2. ASSUME NEW m \in Messages, NEW outcome \in {"skipped", "typeerror"},
             DecoratedSkip(t, m, outcome)
      PROVE  Contract!Skip(m)
  BY <1>2 DEF DecoratedSkip, broker, Contract!Skip, Contract!Skipped
<1> QED
  BY <1>1, <1>2 DEF Call, Contract!Next

\* The broker takes a copy of a call that was made, and a node that stops loses volatile
\* messages only.
LEMMA EnvironmentImplements ==
  ASSUME Slots, Delivery, SentInv, Environment
  PROVE  [Contract!Next]_<<result, stored>>
<1>1. ASSUME NEW copy \in Copy, copy.try \in 1..2,
             result[copy.msg] \notin {"new", "skipped", "typeerror"},
             UNCHANGED result, stored' = stored \cup {copy}
      PROVE  Contract!Next
  <2>1. copy = [msg |-> copy.msg, try |-> copy.try] /\ copy.msg \in Messages
    BY DEF Copy
  <2>2. Contract!Accept(copy.msg)
    BY <1>1, <2>1 DEF Contract!Accept, Contract!Skipped
  <2> QED
    BY <2>1, <2>2 DEF Contract!Next
<1>2. ASSUME NEW t \in Threads, BrokerAnswers(t)
      PROVE  [Contract!Next]_<<result, stored>>
  <2>1. pc[t] # "idle" /\ CopyOf(t) \in Copy
    BY <1>2, CopyType DEF BrokerAnswers, Delivery, CallsInv, Slots
  <2>2. CopyOf(t).try \in 1..2 /\ result[CopyOf(t).msg] = "pending"
    BY <2>1 DEF CopyOf, Delivery, CallsInv
  <2>3. UNCHANGED result /\ (stored' = stored \cup {CopyOf(t)} \/ UNCHANGED stored)
    BY <1>2 DEF BrokerAnswers, client
  <2> QED
    BY <1>1, <2>1, <2>2, <2>3
<1>3. ASSUME NEW copy \in limbo, BrokerTakesLate(copy)
      PROVE  [Contract!Next]_<<result, stored>>
  <2>1. /\ copy \in Copy /\ copy.try \in 1..2
        /\ result[copy.msg] \notin {"new", "skipped", "typeerror"}
    BY DEF Slots, TypeOK, Delivery, AtMostTwoCopies, SentInv
  <2>2. UNCHANGED result /\ (stored' = stored \cup {copy} \/ UNCHANGED stored)
    BY <1>3 DEF BrokerTakesLate, client
  <2> QED
    BY <1>1, <2>1, <2>2
<1>4. ASSUME NEW n \in Nodes, NodeFails(n)
      PROVE  [Contract!Next]_<<result, stored>>
  <2>1. UNCHANGED result /\ stored' \in {stored, {copy \in stored : Survives(copy)}}
    BY <1>4 DEF NodeFails
  <2>2. CASE stored' = {copy \in stored : Survives(copy)}
    BY <2>1, <2>2, TransientCopies, Zenon DEF Contract!NodeLoss, Contract!Next
  <2> QED
    BY <2>1, <2>2
<1>5. ASSUME NEW t \in Threads, LoseConnection(t) \/ BrokerClosesChannel(t)
      PROVE  UNCHANGED <<result, stored>>
  BY <1>5 DEF LoseConnection, BrokerClosesChannel
<1>6. ASSUME NEW n \in Nodes, NodeRecovers(n)
      PROVE  UNCHANGED <<result, stored>>
  BY <1>6 DEF NodeRecovers, client
<1>7. ASSUME NEW q \in {"absent", "match", "conflict"}, QueueChanges(q)
      PROVE  UNCHANGED <<result, stored>>
  BY <1>7 DEF QueueChanges, client
<1> QED
  BY <1>2, <1>3, <1>4, <1>5, <1>6, <1>7 DEF Environment

\* Producer with its connections, channels, retry and cluster implements what publish()
\* promises its caller, whatever the environment does.
THEOREM ContractImplemented == Spec => ImplementsContract
<1>1. Init => Contract!Init
  BY DEF Init, Contract!Init
<1>2. ASSUME Slots, Delivery, SentInv, [Next]_vars
      PROVE  [Contract!Next]_<<result, stored>>
  <2>1. ASSUME NEW t \in Threads, Call(t) PROVE Contract!Next
    BY <2>1, CallImplements
  <2>2. ASSUME NEW t \in Threads, Step(t) PROVE [Contract!Next]_<<result, stored>>
    BY <1>2, <2>2, StepImplements
  <2>3. CASE Environment
    BY <1>2, <2>3, EnvironmentImplements
  <2>4. CASE UNCHANGED vars
    BY <2>4 DEF vars, client, broker
  <2> QED
    BY <1>2, <2>1, <2>2, <2>3, <2>4 DEF Next, AllReturned
<1>3. Init => SentInv
  BY DEF Init, SentInv
<1> QED
  BY <1>1, <1>2, <1>3, InitSlots, NextSlots, InitDelivery, NextDelivery, NextSent, PTL
  DEF Spec, ImplementsContract, Contract!Spec, Contract!contractVars

=============================================================================
