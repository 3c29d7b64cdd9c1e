--------------------------- MODULE ProducerProofs ---------------------------
(***************************************************************************)
(* Proofs about Producer, for any threads, producers, messages, nodes and  *)
(* any bound on the faults.                                                *)
(*                                                                         *)
(* Two inductive invariants, one on the other.  SlotsInv, with TypeOK and  *)
(* NoLeak, is about what the connection manager caches; CallsInv, on top,  *)
(* is about what the calls have sent and were answered.                    *)
(***************************************************************************)
EXTENDS Producer, TLAPS

\* Proved inductive below
Slots == TypeOK /\ SlotsInv /\ NoLeak

-----------------------------------------------------------------------------
(* What the connection manager caches *)

\* The slots are empty before any call.
LEMMA InitSlots == Init => Slots
<1> SUFFICES ASSUME Init PROVE Slots
  OBVIOUS
<1>1. \E j \in Job : TRUE
  <2>1. PICK p \in Producers : TRUE
    BY CallAssumption
  <2>2. PICK m \in Messages : TRUE
    BY CallAssumption
  <2>3. [p |-> p, m |-> m] \in Job
    BY DEF Job
  <2> QED
    BY <2>3
<1>2. (CHOOSE j \in Job : TRUE) \in Job
  BY <1>1
<1>3. (CHOOSE n \in Nodes : TRUE) \in Nodes
  BY NodesAssumption
<1>4. PICK j \in Job : job = [t \in Threads |-> j]
  BY <1>2 DEF Init
<1>5. PICK n \in Nodes : node = [t \in Threads |-> n]
  BY <1>3 DEF Init
<1>6. TypeOK
  BY <1>4, <1>5 DEF Init, TypeOK, Locations, Views
<1>7. SlotsInv
  BY DEF Init, SlotsInv
<1>8. NoLeak
  <2>1. connUp = {} /\ chanUp = {} /\ freshUp = {}
    BY Zenon DEF Init
  <2>2. sessions = [t \in Threads |-> 0] /\ channels = [t \in Threads |-> 0]
    BY Zenon DEF Init
  <2>3. ASSUME NEW t \in Threads
        PROVE  sessions[t] = 0 /\ channels[t] = 0
    BY <2>2
  <2>4. ASSUME NEW t \in Threads
        PROVE  t \notin connUp /\ ~ChannelServed(t) /\ ~FreshServed(t)
    BY <2>1 DEF ChannelServed, FreshServed
  <2>5. 0 + 0 = 0
    OBVIOUS
  <2> QED
    BY <2>3, <2>4, <2>5 DEF NoLeak
<1> QED
  BY <1>6, <1>7, <1>8 DEF Slots

\* What a call sends is a copy of its message.
LEMMA CopyType ==
  ASSUME TypeOK, NEW t \in Threads
  PROVE  job[t].m \in Messages /\ CopyOf(t) \in Copy
<1> QED
  BY DEF TypeOK, CopyOf, Copy, Job

\* Entering publish() keeps the slots typed, ready and free of leaks.
LEMMA SlotsPublish ==
  ASSUME Slots, NEW t \in Threads, NEW p \in Producers, NEW m \in Messages, Publish(t, p, m)
  PROVE  Slots'
<1>1. TypeOK'
    BY DEF Slots, TypeOK, Publish, Goto, Locations, Job, slots, held, broker
<1>2. SlotsInv'
    BY DEF Slots, SlotsInv, Publish, Goto, slots
<1>3. NoLeak'
    BY DEF Slots, NoLeak, ChannelServed, FreshServed, Publish, slots, held, broker
<1> QED
    BY <1>1, <1>2, <1>3 DEF Slots

\* A decorated function that gave nothing to publish keeps the slots typed, ready and free of leaks.
LEMMA SlotsDecoratedSkip ==
  ASSUME Slots, NEW t \in Threads, NEW m \in Messages,
         NEW outcome \in {"skipped", "typeerror"}, DecoratedSkip(t, m, outcome)
  PROVE  Slots'
<1>1. TypeOK'
    BY DEF Slots, TypeOK, DecoratedSkip, slots, held, broker
<1>2. SlotsInv'
    BY DEF Slots, SlotsInv, DecoratedSkip, slots
<1>3. NoLeak'
    BY DEF Slots, NoLeak, ChannelServed, FreshServed, DecoratedSkip, slots, held, broker
<1> QED
    BY <1>1, <1>2, <1>3 DEF Slots

\* Get_producer_connection() keeps the slots typed, ready and free of leaks.
LEMMA SlotsGetConnection ==
  ASSUME Slots, NEW t \in Threads, GetConnection(t)
  PROVE  Slots'
<1>1. TypeOK'
    BY DEF Slots, TypeOK, GetConnection, Goto, Locations, Views, Throw, Reachable
<1>2. SlotsInv'
    BY DEF Slots, TypeOK, SlotsInv, GetConnection, Goto, Throw
<1>3. NoLeak'
    BY DEF Slots, TypeOK, SlotsInv, NoLeak, ChannelServed, FreshServed, GetConnection
<1> QED
    BY <1>1, <1>2, <1>3 DEF Slots

\* Taking or opening a channel in get_producer_channel() keeps the slots typed, ready and free of leaks.
LEMMA SlotsGetChannel ==
  ASSUME Slots, NEW t \in Threads, GetChannel(t)
  PROVE  Slots'
<1>1. TypeOK'
    BY DEF Slots, TypeOK, GetChannel, Goto, Locations, Views, Throw, ConnectionLost, Closed,
       slots
<1>2. SlotsInv'
    BY DEF Slots, TypeOK, SlotsInv, GetChannel, Goto, Throw, HasOpenChannel, ConnectionLost,
       Closed, slots
<1>3. NoLeak'
    BY DEF Slots, TypeOK, SlotsInv, NoLeak, ChannelServed, FreshServed, GetChannel,
       ConnectionLost, slots
<1> QED
    BY <1>1, <1>2, <1>3 DEF Slots

\* Confirm_delivery(), answered or failed, keeps the slots typed, ready and free of leaks.
LEMMA SlotsConfirmDelivery ==
  ASSUME Slots, NEW t \in Threads, ConfirmDelivery(t)
  PROVE  Slots'
<1>1. TypeOK'
    BY DEF Slots, TypeOK, ConfirmDelivery, Goto, Locations, Views, Throw, WithConfirms,
       ConnectionLost, Closed, slots, held, broker
<1>2. SlotsInv'
    BY DEF Slots, TypeOK, SlotsInv, ConfirmDelivery, Goto, Throw, WithConfirms,
       ConnectionLost, Closed, slots
<1>3. NoLeak'
    BY DEF Slots, SlotsInv, NoLeak, ChannelServed, FreshServed, ConfirmDelivery,
       ConnectionLost, slots, held, broker
<1> QED
    BY <1>1, <1>2, <1>3 DEF Slots

\* The test of _is_queue_declared keeps the slots typed, ready and free of leaks.
LEMMA SlotsEnsureQueueDeclared ==
  ASSUME Slots, NEW t \in Threads, EnsureQueueDeclared(t)
  PROVE  Slots'
<1>1. TypeOK'
    BY DEF Slots, TypeOK, EnsureQueueDeclared, Goto, Locations, slots, held, broker
<1>2. SlotsInv'
    BY DEF Slots, SlotsInv, EnsureQueueDeclared, Goto, slots
<1>3. NoLeak'
    BY DEF Slots, NoLeak, ChannelServed, FreshServed, EnsureQueueDeclared, slots, held,
       broker
<1> QED
    BY <1>1, <1>2, <1>3 DEF Slots

\* Queue_declare, accepted, refused or cut off, keeps the slots typed, ready and free of leaks.
LEMMA SlotsDeclareQueue ==
  ASSUME Slots, NEW t \in Threads, DeclareQueue(t)
  PROVE  Slots'
<1>1. TypeOK'
  <2>1. channels' \in [Threads -> Nat]
    <3>1. CASE ChannelServed(t)
      <4>1. channels[t] >= 1
        BY <3>1 DEF Slots, NoLeak
      <4> QED
        BY <4>1 DEF Slots, TypeOK, DeclareQueue
    <3>2. CASE ~ChannelServed(t)
      BY <3>2 DEF Slots, TypeOK, DeclareQueue
    <3> QED
      BY <3>1, <3>2
  <2>2. job[t].p \in Producers
    BY DEF Slots, TypeOK, Job
  <2>3. /\ pc' \in [Threads -> Locations]
        /\ err' \in [Threads -> {"none", "reconnectable", "other"}]
        /\ conn' \in [Threads -> Views] /\ chan' \in [Threads -> Views]
    BY DEF Slots, TypeOK, DeclareQueue, Goto, Throw, IOFails, ConnectionLost, Closed, Locations,
           Views, slots
  <2>4. /\ declared' \in SUBSET Producers
        /\ queue' \in {"absent", "match", "conflict"}
        /\ chanUp' \in SUBSET Threads /\ freshUp' \in SUBSET Threads
    BY <2>2 DEF Slots, TypeOK, DeclareQueue, IOFails, ConnectionLost, slots
  <2> QED
    BY <2>1, <2>3, <2>4 DEF Slots, TypeOK, DeclareQueue, IOFails, ConnectionLost, slots
<1>2. SlotsInv'
    BY DEF Slots, TypeOK, SlotsInv, DeclareQueue, Goto, Throw, IOFails, ConnectionLost,
       slots
<1>3. NoLeak'
  <2>1. CASE ChannelServed(t)
    <3>1. channels[t] = 1
      BY <2>1 DEF Slots, SlotsInv, NoLeak, DeclareQueue, FreshServed
    <3>2. CASE DeclareAccepted(job[t].p)
      BY <2>1, <3>2 DEF Slots, NoLeak, ChannelServed, FreshServed, DeclareQueue, IOFails,
                        ConnectionLost, slots
    <3>3. CASE ~DeclareAccepted(job[t].p)
      BY <2>1, <3>1, <3>3 DEF Slots, TypeOK, NoLeak, ChannelServed, FreshServed,
         DeclareQueue, IOFails, ConnectionLost
    <3> QED
      BY <3>2, <3>3
  <2>2. CASE ~ChannelServed(t)
    BY <2>2 DEF Slots, NoLeak, ChannelServed, FreshServed, DeclareQueue, IOFails,
       ConnectionLost
  <2> QED
    BY <2>1, <2>2
<1> QED
    BY <1>1, <1>2, <1>3 DEF Slots

\* Sending the message keeps the slots typed, ready and free of leaks.
LEMMA SlotsBasicPublish ==
  ASSUME Slots, NEW t \in Threads, BasicPublish(t)
  PROVE  Slots'
<1>1. TypeOK'
  <2>1. job[t].m \in Messages /\ CopyOf(t) \in Copy
    BY CopyType DEF Slots
  <2>2. /\ result' \in [Messages -> {"new", "pending", "ok", "raised", "skipped", "typeerror"}]
        /\ attempt' \in [Threads -> Nat] /\ hits' \in [Threads -> Nat]
    BY <2>1 DEF Slots, TypeOK, BasicPublish, Leave
  <2>3. limbo' \in SUBSET Copy
    BY <2>1 DEF Slots, TypeOK, BasicPublish
  <2>4. /\ pc' \in [Threads -> Locations]
        /\ err' \in [Threads -> {"none", "reconnectable", "other"}]
        /\ reply' \in [Threads -> {"none", "flight", "ack", "return", "nack"}]
    BY DEF Slots, TypeOK, BasicPublish, Goto, Throw, Leave, IOFails, ConnectionLost, Locations
  <2>5. /\ conn' \in [Threads -> Views] /\ chan' \in [Threads -> Views]
        /\ chanUp' \in SUBSET Threads /\ freshUp' \in SUBSET Threads
        /\ UNCHANGED <<confirms, node, connUp>>
    BY DEF Slots, TypeOK, BasicPublish, IOFails, ConnectionLost, Closed, Views, slots
  <2> QED
    BY <2>2, <2>3, <2>4, <2>5 DEF Slots, TypeOK, BasicPublish, held
<1>2. SlotsInv'
    BY DEF Slots, TypeOK, SlotsInv, BasicPublish, Goto, Throw, IOFails, ConnectionLost,
       slots
<1>3. NoLeak'
    BY DEF Slots, NoLeak, ChannelServed, FreshServed, BasicPublish, IOFails, ConnectionLost,
       slots, held
<1> QED
    BY <1>1, <1>2, <1>3 DEF Slots

\* The broker's answer, or its absence, keeps the slots typed, ready and free of leaks.
LEMMA SlotsAwaitConfirm ==
  ASSUME Slots, NEW t \in Threads, AwaitConfirm(t)
  PROVE  Slots'
<1>1. TypeOK'
  <2>1. job[t].m \in Messages /\ CopyOf(t) \in Copy
    BY CopyType DEF Slots
  <2>2. /\ result' \in [Messages -> {"new", "pending", "ok", "raised", "skipped", "typeerror"}]
        /\ attempt' \in [Threads -> Nat] /\ hits' \in [Threads -> Nat]
    BY <2>1 DEF Slots, TypeOK, AwaitConfirm, Leave
  <2>3. limbo' \in SUBSET Copy
    BY <2>1 DEF Slots, TypeOK, AwaitConfirm
  <2>4. /\ pc' \in [Threads -> Locations]
        /\ err' \in [Threads -> {"none", "reconnectable", "other"}]
        /\ reply' \in [Threads -> {"none", "flight", "ack", "return", "nack"}]
    BY DEF Slots, TypeOK, AwaitConfirm, Goto, Throw, Leave, IOFails, ConnectionLost, Locations
  <2>5. /\ conn' \in [Threads -> Views] /\ chan' \in [Threads -> Views]
        /\ chanUp' \in SUBSET Threads /\ freshUp' \in SUBSET Threads
        /\ UNCHANGED <<confirms, node, connUp>>
    BY DEF Slots, TypeOK, AwaitConfirm, IOFails, ConnectionLost, Closed, Views, slots
  <2> QED
    BY <2>2, <2>3, <2>4, <2>5 DEF Slots, TypeOK, AwaitConfirm, held
<1>2. SlotsInv'
    BY DEF Slots, TypeOK, SlotsInv, AwaitConfirm, Goto, Throw, Leave, IOFails,
       ConnectionLost, slots
<1>3. NoLeak'
    BY DEF Slots, NoLeak, ChannelServed, FreshServed, AwaitConfirm, IOFails, ConnectionLost,
       slots, held
<1> QED
    BY <1>1, <1>2, <1>3 DEF Slots

\* Catching the error of the first attempt keeps the slots typed, ready and free of leaks.
LEMMA SlotsRetry ==
  ASSUME Slots, NEW t \in Threads, Retry(t)
  PROVE  Slots'
<1>1. TypeOK'
    BY DEF Slots, TypeOK, Retry, Goto, Locations, slots, held, broker
<1>2. SlotsInv'
    BY DEF Slots, SlotsInv, Retry, Goto, slots
<1>3. NoLeak'
    BY DEF Slots, NoLeak, ChannelServed, FreshServed, Retry, slots, held, broker
<1> QED
    BY <1>1, <1>2, <1>3 DEF Slots

\* Raising to the caller keeps the slots typed, ready and free of leaks.
LEMMA SlotsRaise ==
  ASSUME Slots, NEW t \in Threads, Raise(t)
  PROVE  Slots'
<1>1. TypeOK'
    BY DEF Slots, TypeOK, Raise, Goto, Locations, Leave, slots, held, broker
<1>2. SlotsInv'
    BY DEF Slots, SlotsInv, Raise, Goto, Leave, slots
<1>3. NoLeak'
    BY DEF Slots, NoLeak, ChannelServed, FreshServed, Raise, slots, held, broker
<1> QED
    BY <1>1, <1>2, <1>3 DEF Slots

\* Dropping the channel keeps the slots typed, ready and free of leaks.
LEMMA SlotsResetChannel ==
  ASSUME Slots, NEW t \in Threads, ResetChannel(t)
  PROVE  Slots'
<1>1. TypeOK'
    BY DEF Slots, TypeOK, NoLeak, ResetChannel, Goto, Locations, Views, Closed
<1>2. SlotsInv'
    BY DEF Slots, TypeOK, SlotsInv, ResetChannel, Goto
<1>3. NoLeak'
    BY DEF Slots, TypeOK, SlotsInv, NoLeak, ChannelServed, FreshServed, ResetChannel
<1> QED
    BY <1>1, <1>2, <1>3 DEF Slots

\* Dropping the connection keeps the slots typed, ready and free of leaks.
LEMMA SlotsResetConnection ==
  ASSUME Slots, NEW t \in Threads, ResetConnection(t)
  PROVE  Slots'
<1>1. TypeOK'
    BY DEF Slots, TypeOK, NoLeak, FreshServed, ResetConnection, Goto, Locations, Views,
       CloseConnection, NextAttempt, held
<1>2. SlotsInv'
    BY DEF Slots, SlotsInv, ResetConnection, Goto, CloseConnection
<1>3. NoLeak'
    BY DEF Slots, TypeOK, SlotsInv, NoLeak, ChannelServed, FreshServed, ResetConnection,
       CloseConnection, held
<1> QED
    BY <1>1, <1>2, <1>3 DEF Slots

\* The broker taking or refusing a message keeps the slots typed, ready and free of leaks.
LEMMA SlotsBrokerAnswers ==
  ASSUME Slots, NEW t \in Threads, BrokerAnswers(t)
  PROVE  Slots'
<1>1. TypeOK'
    BY CopyType DEF Slots, TypeOK, BrokerAnswers, slots, held, client
<1>2. SlotsInv'
    BY DEF Slots, SlotsInv, BrokerAnswers, slots, client
<1>3. NoLeak'
    BY DEF Slots, NoLeak, ChannelServed, FreshServed, BrokerAnswers, slots, held, client
<1> QED
    BY <1>1, <1>2, <1>3 DEF Slots

\* A copy taken after its connection died keeps the slots typed, ready and free of leaks.
LEMMA SlotsBrokerTakesLate ==
  ASSUME Slots, NEW copy \in limbo, BrokerTakesLate(copy)
  PROVE  Slots'
<1>1. TypeOK'
    BY DEF Slots, TypeOK, BrokerTakesLate, slots, held, client
<1>2. SlotsInv'
    BY DEF Slots, SlotsInv, BrokerTakesLate, slots, client
<1>3. NoLeak'
    BY DEF Slots, NoLeak, ChannelServed, FreshServed, BrokerTakesLate, slots, held, client
<1> QED
    BY <1>1, <1>2, <1>3 DEF Slots

\* A connection lost keeps the slots typed, ready and free of leaks.
LEMMA SlotsLoseConnection ==
  ASSUME Slots, NEW t \in Threads, LoseConnection(t)
  PROVE  Slots'
<1>1. TypeOK'
    BY DEF Slots, TypeOK, NoLeak, LoseConnection, LoseConnections, Disturb, Hit, Copy,
       CopyOf, Job
<1>2. SlotsInv'
    BY DEF Slots, SlotsInv, LoseConnection, LoseConnections
<1>3. NoLeak'
    BY DEF Slots, NoLeak, ChannelServed, FreshServed, LoseConnection, LoseConnections
<1> QED
    BY <1>1, <1>2, <1>3 DEF Slots

\* A node that stops keeps the slots typed, ready and free of leaks.
LEMMA SlotsNodeFails ==
  ASSUME Slots, NEW n \in Nodes, NodeFails(n)
  PROVE  Slots'
<1>1. TypeOK'
    BY DEF Slots, TypeOK, NoLeak, NodeFails, LoseConnections, Disturb, Hit, Copy, CopyOf,
       Job
<1>2. SlotsInv'
    BY DEF Slots, SlotsInv, NodeFails, LoseConnections
<1>3. NoLeak'
  <2> DEFINE lost == {u \in connUp : node[u] = n}
  <2>1. /\ connUp' = connUp \ lost
        /\ sessions' = [u \in Threads |-> IF u \in lost THEN sessions[u] - 1 ELSE sessions[u]]
        /\ channels' = [u \in Threads |-> IF u \in lost THEN 0 ELSE channels[u]]
        /\ UNCHANGED <<chanUp, freshUp>>
    BY DEF NodeFails, LoseConnections
  <2>2. lost \subseteq connUp
    OBVIOUS
  <2> HIDE DEF lost
  <2> QED
    BY <2>1, <2>2 DEF Slots, NoLeak, ChannelServed, FreshServed
<1> QED
    BY <1>1, <1>2, <1>3 DEF Slots

\* A node that comes back keeps the slots typed, ready and free of leaks.
LEMMA SlotsNodeRecovers ==
  ASSUME Slots, NEW n \in Nodes, NodeRecovers(n)
  PROVE  Slots'
<1>1. TypeOK'
    BY DEF Slots, TypeOK, NodeRecovers, slots, held, client
<1>2. SlotsInv'
    BY DEF Slots, SlotsInv, NodeRecovers, slots, client
<1>3. NoLeak'
    BY DEF Slots, NoLeak, ChannelServed, FreshServed, NodeRecovers, slots, held, client
<1> QED
    BY <1>1, <1>2, <1>3 DEF Slots

\* A channel closed by the broker keeps the slots typed, ready and free of leaks.
LEMMA SlotsBrokerClosesChannel ==
  ASSUME Slots, NEW t \in Threads, BrokerClosesChannel(t)
  PROVE  Slots'
<1>1. TypeOK'
    BY DEF Slots, TypeOK, NoLeak, ChannelServed, FreshServed, BrokerClosesChannel, Disturb,
       Hit
<1>2. SlotsInv'
    BY DEF Slots, SlotsInv, BrokerClosesChannel
<1>3. NoLeak'
    BY DEF Slots, TypeOK, NoLeak, ChannelServed, FreshServed, BrokerClosesChannel
<1> QED
    BY <1>1, <1>2, <1>3 DEF Slots

\* A queue deleted or redeclared keeps the slots typed, ready and free of leaks.
LEMMA SlotsQueueChanges ==
  ASSUME Slots, NEW q \in {"absent", "match", "conflict"}, QueueChanges(q)
  PROVE  Slots'
<1>1. TypeOK'
    BY DEF Slots, TypeOK, QueueChanges, Disturb, slots, held, client
<1>2. SlotsInv'
    BY DEF Slots, SlotsInv, QueueChanges, slots, client
<1>3. NoLeak'
    BY DEF Slots, NoLeak, ChannelServed, FreshServed, QueueChanges, slots, held, client
<1> QED
    BY <1>1, <1>2, <1>3 DEF Slots

\* One step, whichever it is.
LEMMA NextSlots == ASSUME Slots, [Next]_vars PROVE Slots'
<1>1. ASSUME NEW t \in Threads, Step(t) PROVE Slots'
  BY <1>1, SlotsGetConnection, SlotsGetChannel, SlotsConfirmDelivery, SlotsEnsureQueueDeclared,
     SlotsDeclareQueue, SlotsBasicPublish, SlotsAwaitConfirm, SlotsRetry, SlotsRaise,
     SlotsResetChannel, SlotsResetConnection DEF Step
<1>2. ASSUME NEW t \in Threads, Call(t) PROVE Slots'
  BY <1>2, SlotsPublish, SlotsDecoratedSkip DEF Call
<1>3. CASE Environment
  BY <1>3, SlotsBrokerAnswers, SlotsBrokerTakesLate, SlotsLoseConnection, SlotsNodeFails,
     SlotsNodeRecovers, SlotsBrokerClosesChannel, SlotsQueueChanges DEF Environment
<1>4. CASE UNCHANGED vars
  BY <1>4 DEF Slots, TypeOK, SlotsInv, NoLeak, ChannelServed, FreshServed, vars, client, broker,
              slots, held
<1> QED
  BY <1>1, <1>2, <1>3, <1>4 DEF Next, AllReturned

\* Every variable keeps its type, and the counts of what the broker holds for a
\* thread never go below zero.
THEOREM TypeCorrect == Spec => []TypeOK
<1> QED
  BY InitSlots, NextSlots, PTL DEF Spec, Slots

\* The broker holds no connection and no channel that its thread has forgotten.
THEOREM NothingLeaks == Spec => []NoLeak
<1> QED
  BY InitSlots, NextSlots, PTL DEF Spec, Slots

\* queue_declare and basic_publish are only ever called on an open channel with
\* confirms on.
THEOREM ChannelsAreReady == Spec => []ChannelReadyForUse
<1>1. Slots => ChannelReadyForUse
  BY DEF Slots, SlotsInv, ChannelReadyForUse
<1> QED
  BY <1>1, InitSlots, NextSlots, PTL DEF Spec

-----------------------------------------------------------------------------
(* What the calls have sent and were answered *)

\* Inductive relative to Slots
Delivery == CallsInv /\ NoSilentLoss /\ AtMostTwoCopies

\* Nothing is sent before any call.
LEMMA InitDelivery == Init => Delivery
<1> SUFFICES ASSUME Init PROVE Delivery
  OBVIOUS
<1>1. /\ pc = [t \in Threads |-> "idle"] /\ reply = [t \in Threads |-> "none"]
      /\ result = [m \in Messages |-> "new"] /\ stored = {} /\ limbo = {}
  BY Zenon DEF Init
<1> QED
  BY <1>1 DEF Delivery, CallsInv, NoSilentLoss, AtMostTwoCopies

\* Entering publish() keeps what was sent and what was answered in step.
LEMMA DeliveryPublish ==
  ASSUME Slots, Delivery, NEW t \in Threads, NEW p \in Producers, NEW m \in Messages, Publish(t, p, m)
  PROVE  Delivery'
<1>1. \A u \in Threads : job[u].m \in Messages
    BY CopyType DEF Slots
<1>2. CallsInv'
    BY <1>1 DEF Delivery, CallsInv, Slots, TypeOK, Publish, Goto, broker
<1>3. NoSilentLoss'
    BY <1>1 DEF Delivery, NoSilentLoss, Publish, broker
<1>4. AtMostTwoCopies'
    BY <1>1 DEF Delivery, AtMostTwoCopies, Publish, broker
<1> QED
    BY <1>2, <1>3, <1>4 DEF Delivery

\* A decorated function that gave nothing to publish keeps what was sent and what was answered in step.
LEMMA DeliveryDecoratedSkip ==
  ASSUME Slots, Delivery, NEW t \in Threads, NEW m \in Messages,
         NEW outcome \in {"skipped", "typeerror"}, DecoratedSkip(t, m, outcome)
  PROVE  Delivery'
<1>1. \A u \in Threads : job[u].m \in Messages
    BY CopyType DEF Slots
<1>2. CallsInv'
    BY <1>1 DEF Delivery, CallsInv, DecoratedSkip, broker
<1>3. NoSilentLoss'
    BY <1>1 DEF Delivery, NoSilentLoss, DecoratedSkip, broker
<1>4. AtMostTwoCopies'
    BY <1>1 DEF Delivery, AtMostTwoCopies, DecoratedSkip, broker
<1> QED
    BY <1>2, <1>3, <1>4 DEF Delivery

\* Get_producer_connection() keeps what was sent and what was answered in step.
LEMMA DeliveryGetConnection ==
  ASSUME Slots, Delivery, NEW t \in Threads, GetConnection(t)
  PROVE  Delivery'
<1>1. \A u \in Threads : job[u].m \in Messages
    BY CopyType DEF Slots
<1>2. CallsInv'
    BY <1>1 DEF Delivery, CallsInv, Slots, TypeOK, GetConnection, Goto, Throw
<1>3. NoSilentLoss'
    BY <1>1 DEF Delivery, NoSilentLoss, GetConnection
<1>4. AtMostTwoCopies'
    BY <1>1 DEF Delivery, AtMostTwoCopies, GetConnection
<1> QED
    BY <1>2, <1>3, <1>4 DEF Delivery

\* Taking or opening a channel in get_producer_channel() keeps what was sent and what was answered in step.
LEMMA DeliveryGetChannel ==
  ASSUME Slots, Delivery, NEW t \in Threads, GetChannel(t)
  PROVE  Delivery'
<1>1. \A u \in Threads : job[u].m \in Messages
    BY CopyType DEF Slots
<1>2. CallsInv'
    BY <1>1 DEF Delivery, CallsInv, Slots, TypeOK, GetChannel, Goto, Throw, ConnectionLost
<1>3. NoSilentLoss'
    BY <1>1 DEF Delivery, NoSilentLoss, GetChannel
<1>4. AtMostTwoCopies'
    BY <1>1 DEF Delivery, AtMostTwoCopies, GetChannel
<1> QED
    BY <1>2, <1>3, <1>4 DEF Delivery

\* Confirm_delivery(), answered or failed, keeps what was sent and what was answered in step.
LEMMA DeliveryConfirmDelivery ==
  ASSUME Slots, Delivery, NEW t \in Threads, ConfirmDelivery(t)
  PROVE  Delivery'
<1>1. \A u \in Threads : job[u].m \in Messages
    BY CopyType DEF Slots
<1>2. CallsInv'
    BY <1>1 DEF Delivery, CallsInv, Slots, TypeOK, ConfirmDelivery, Goto, Throw,
       ConnectionLost, slots, broker
<1>3. NoSilentLoss'
    BY <1>1 DEF Delivery, NoSilentLoss, ConfirmDelivery, broker
<1>4. AtMostTwoCopies'
    BY <1>1 DEF Delivery, AtMostTwoCopies, ConfirmDelivery, broker
<1> QED
    BY <1>2, <1>3, <1>4 DEF Delivery

\* The test of _is_queue_declared keeps what was sent and what was answered in step.
LEMMA DeliveryEnsureQueueDeclared ==
  ASSUME Slots, Delivery, NEW t \in Threads, EnsureQueueDeclared(t)
  PROVE  Delivery'
<1>1. \A u \in Threads : job[u].m \in Messages
    BY CopyType DEF Slots
<1>2. CallsInv'
    BY <1>1 DEF Delivery, CallsInv, EnsureQueueDeclared, Goto, broker
<1>3. NoSilentLoss'
    BY <1>1 DEF Delivery, NoSilentLoss, EnsureQueueDeclared, broker
<1>4. AtMostTwoCopies'
    BY <1>1 DEF Delivery, AtMostTwoCopies, EnsureQueueDeclared, broker
<1> QED
    BY <1>2, <1>3, <1>4 DEF Delivery

\* Queue_declare, accepted, refused or cut off, keeps what was sent and what was answered in step.
LEMMA DeliveryDeclareQueue ==
  ASSUME Slots, Delivery, NEW t \in Threads, DeclareQueue(t)
  PROVE  Delivery'
<1>1. \A u \in Threads : job[u].m \in Messages
    BY CopyType DEF Slots
<1>2. CallsInv'
    BY <1>1 DEF Delivery, CallsInv, Slots, TypeOK, DeclareQueue, Goto, Throw, IOFails,
       ConnectionLost
<1>3. NoSilentLoss'
    BY <1>1 DEF Delivery, NoSilentLoss, DeclareQueue
<1>4. AtMostTwoCopies'
    BY <1>1 DEF Delivery, AtMostTwoCopies, DeclareQueue
<1> QED
    BY <1>2, <1>3, <1>4 DEF Delivery

\* Sending the message keeps what was sent and what was answered in step.
LEMMA DeliveryBasicPublish ==
  ASSUME Slots, Delivery, NEW t \in Threads, BasicPublish(t)
  PROVE  Delivery'
<1>1. \A u \in Threads : job[u].m \in Messages
    BY CopyType DEF Slots
<1>2. CallsInv'
  <2>1. /\ UNCHANGED <<job, stored>>
        /\ \A u \in Threads : reply'[u] \in {reply[u], "flight"}
    BY DEF Slots, TypeOK, BasicPublish
  <2>2. ASSUME NEW u \in Threads, reply'[u] = "ack", ~Volatile(job'[u].m)
        PROVE  \E copy \in stored' : copy.msg = job'[u].m
    BY <2>1, <2>2 DEF Delivery, CallsInv
  <2>3. \A u \in Threads :
          /\ pc'[u] # "idle" => result'[job'[u].m] = "pending" /\ attempt'[u] \in 1..2
          /\ pc'[u] \in {"resetChannel", "resetConnection"} => attempt'[u] = 1
          /\ reply'[u] # "none" => pc'[u] = "await"
    BY <1>1 DEF Delivery, CallsInv, Slots, TypeOK, BasicPublish, Goto, Throw, Leave,
       IOFails, ConnectionLost
  <2>4. \A u \in Threads : pc'[u] # "idle" => pc[u] # "idle"
    BY DEF Slots, TypeOK, BasicPublish, Goto, Throw, Leave, IOFails, ConnectionLost
  <2> QED
    BY <2>1, <2>2, <2>3, <2>4 DEF Delivery, CallsInv
<1>3. NoSilentLoss'
    BY <1>1 DEF Delivery, NoSilentLoss, Slots, BasicPublish, SlotsInv
<1>4. AtMostTwoCopies'
    BY <1>1 DEF Delivery, CallsInv, AtMostTwoCopies, BasicPublish, CopyOf
<1> QED
    BY <1>2, <1>3, <1>4 DEF Delivery

\* The broker's answer, or its absence, keeps what was sent and what was answered in step.
LEMMA DeliveryAwaitConfirm ==
  ASSUME Slots, Delivery, NEW t \in Threads, AwaitConfirm(t)
  PROVE  Delivery'
<1>1. \A u \in Threads : job[u].m \in Messages
    BY CopyType DEF Slots
<1>2. CallsInv'
    BY <1>1 DEF Delivery, CallsInv, Slots, TypeOK, AwaitConfirm, Goto, Throw, Leave,
       IOFails, ConnectionLost
<1>3. NoSilentLoss'
    BY <1>1 DEF Delivery, CallsInv, NoSilentLoss, Slots, TypeOK, AwaitConfirm, Leave, slots,
       held
<1>4. AtMostTwoCopies'
    BY <1>1 DEF Delivery, AtMostTwoCopies, AwaitConfirm
<1> QED
    BY <1>2, <1>3, <1>4 DEF Delivery

\* Catching the error of the first attempt keeps what was sent and what was answered in step.
LEMMA DeliveryRetry ==
  ASSUME Slots, Delivery, NEW t \in Threads, Retry(t)
  PROVE  Delivery'
<1>1. \A u \in Threads : job[u].m \in Messages
    BY CopyType DEF Slots
<1>2. CallsInv'
    BY <1>1 DEF Delivery, CallsInv, Retry, Goto, MayRetry, broker
<1>3. NoSilentLoss'
    BY <1>1 DEF Delivery, NoSilentLoss, Retry, broker
<1>4. AtMostTwoCopies'
    BY <1>1 DEF Delivery, AtMostTwoCopies, Retry, broker
<1> QED
    BY <1>2, <1>3, <1>4 DEF Delivery

\* Raising to the caller keeps what was sent and what was answered in step.
LEMMA DeliveryRaise ==
  ASSUME Slots, Delivery, NEW t \in Threads, Raise(t)
  PROVE  Delivery'
<1>1. \A u \in Threads : job[u].m \in Messages
    BY CopyType DEF Slots
<1>2. CallsInv'
    BY <1>1 DEF Delivery, CallsInv, Slots, TypeOK, Raise, Goto, Leave, broker
<1>3. NoSilentLoss'
    BY <1>1 DEF Delivery, NoSilentLoss, Raise, Leave, broker
<1>4. AtMostTwoCopies'
    BY <1>1 DEF Delivery, AtMostTwoCopies, Raise, broker
<1> QED
    BY <1>2, <1>3, <1>4 DEF Delivery

\* Dropping the channel keeps what was sent and what was answered in step.
LEMMA DeliveryResetChannel ==
  ASSUME Slots, Delivery, NEW t \in Threads, ResetChannel(t)
  PROVE  Delivery'
<1>1. \A u \in Threads : job[u].m \in Messages
    BY CopyType DEF Slots
<1>2. CallsInv'
    BY <1>1 DEF Delivery, CallsInv, ResetChannel, Goto
<1>3. NoSilentLoss'
    BY <1>1 DEF Delivery, NoSilentLoss, ResetChannel
<1>4. AtMostTwoCopies'
    BY <1>1 DEF Delivery, AtMostTwoCopies, ResetChannel
<1> QED
    BY <1>2, <1>3, <1>4 DEF Delivery

\* Dropping the connection keeps what was sent and what was answered in step.
LEMMA DeliveryResetConnection ==
  ASSUME Slots, Delivery, NEW t \in Threads, ResetConnection(t)
  PROVE  Delivery'
<1>1. \A u \in Threads : job[u].m \in Messages
    BY CopyType DEF Slots
<1>2. CallsInv'
    BY <1>1 DEF Delivery, CallsInv, Slots, TypeOK, ResetConnection, Goto, NextAttempt
<1>3. NoSilentLoss'
    BY <1>1 DEF Delivery, NoSilentLoss, ResetConnection
<1>4. AtMostTwoCopies'
    BY <1>1 DEF Delivery, AtMostTwoCopies, ResetConnection
<1> QED
    BY <1>2, <1>3, <1>4 DEF Delivery

\* The broker taking or refusing a message keeps what was sent and what was answered in step.
LEMMA DeliveryBrokerAnswers ==
  ASSUME Slots, Delivery, NEW t \in Threads, BrokerAnswers(t)
  PROVE  Delivery'
<1>1. \A u \in Threads : job[u].m \in Messages
    BY CopyType DEF Slots
<1>2. CallsInv'
  <2> USE DEF Delivery, CallsInv, BrokerAnswers, client
  <2>1. UNCHANGED <<pc, job, attempt, result>>
    OBVIOUS
  <2>2. \A u \in Threads : reply'[u] # "none" => pc[u] = "await"
    BY DEF Slots, TypeOK
  <2>3. stored \subseteq stored'
    OBVIOUS
  <2>4. ASSUME NEW u \in Threads, reply'[u] = "ack", ~Volatile(job[u].m)
        PROVE  \E copy \in stored' : copy.msg = job[u].m
    <3>1. CASE u = t
      <4>1. CopyOf(t) \in stored'
        BY <2>4, <3>1 DEF Slots, TypeOK
      <4> QED
        BY <4>1, <3>1 DEF CopyOf
    <3>2. CASE u # t
      <4>1. reply[u] = "ack"
        BY <2>4, <3>2 DEF Slots, TypeOK
      <4> QED
        BY <4>1, <2>4, <2>3
    <3> QED
      BY <3>1, <3>2
  <2> QED
    BY <2>1, <2>2, <2>4
<1>3. NoSilentLoss'
    BY <1>1 DEF Delivery, NoSilentLoss, BrokerAnswers, client
<1>4. AtMostTwoCopies'
    BY <1>1 DEF Delivery, CallsInv, AtMostTwoCopies, BrokerAnswers, CopyOf
<1> QED
    BY <1>2, <1>3, <1>4 DEF Delivery

\* A copy taken after its connection died keeps what was sent and what was answered in step.
LEMMA DeliveryBrokerTakesLate ==
  ASSUME Slots, Delivery, NEW copy \in limbo, BrokerTakesLate(copy)
  PROVE  Delivery'
<1>1. \A u \in Threads : job[u].m \in Messages
    BY CopyType DEF Slots
<1>2. CallsInv'
    BY <1>1 DEF Delivery, CallsInv, BrokerTakesLate, client
<1>3. NoSilentLoss'
    BY <1>1 DEF Delivery, NoSilentLoss, BrokerTakesLate, client
<1>4. AtMostTwoCopies'
    BY <1>1 DEF Delivery, AtMostTwoCopies, BrokerTakesLate
<1> QED
    BY <1>2, <1>3, <1>4 DEF Delivery

\* A connection lost keeps what was sent and what was answered in step.
LEMMA DeliveryLoseConnection ==
  ASSUME Slots, Delivery, NEW t \in Threads, LoseConnection(t)
  PROVE  Delivery'
<1>1. \A u \in Threads : job[u].m \in Messages
    BY CopyType DEF Slots
<1>2. CallsInv'
    BY <1>1 DEF Delivery, CallsInv, LoseConnection, LoseConnections
<1>3. NoSilentLoss'
    BY <1>1 DEF Delivery, NoSilentLoss, LoseConnection
<1>4. AtMostTwoCopies'
    BY <1>1 DEF Delivery, CallsInv, AtMostTwoCopies, LoseConnection, LoseConnections, CopyOf
<1> QED
    BY <1>2, <1>3, <1>4 DEF Delivery

\* What the application did not leave volatile survives the failure of a node.
LEMMA SurvivesNodeFailure ==
  ASSUME Slots, NEW n \in Nodes, NodeFails(n)
  PROVE  \A copy \in stored : ~Volatile(copy.msg) => copy \in stored'
<1>1. ASSUME NEW copy \in stored, ~Volatile(copy.msg)
      PROVE  Survives(copy)
  <2>1. copy.msg \in Messages
    BY DEF Slots, TypeOK, Copy
  <2> QED
    BY <1>1, <2>1, CallAssumption DEF Volatile, Survives, Persistent, EffectiveMode
<1> QED
  BY <1>1 DEF NodeFails

\* A node that stops keeps what was sent and what was answered in step.
LEMMA DeliveryNodeFails ==
  ASSUME Slots, Delivery, NEW n \in Nodes, NodeFails(n)
  PROVE  Delivery'
<1>1. \A u \in Threads : job[u].m \in Messages
    BY CopyType DEF Slots
<1>2. CallsInv'
  <2>1. \A copy \in stored : ~Volatile(copy.msg) => copy \in stored'
    BY SurvivesNodeFailure
  <2>2. UNCHANGED <<pc, job, attempt, result>>
    BY DEF NodeFails
  <2>3. \A u \in Threads : reply'[u] \in {reply[u], "none"}
    BY DEF NodeFails, LoseConnections
  <2>4. ASSUME NEW u \in Threads, reply'[u] = "ack", ~Volatile(job[u].m)
        PROVE  \E copy \in stored' : copy.msg = job[u].m
    <3>1. reply[u] = "ack"
      BY <2>3, <2>4
    <3>2. PICK copy \in stored : copy.msg = job[u].m
      BY <3>1, <2>4 DEF Delivery, CallsInv
    <3> QED
      BY <3>2, <2>1, <2>4
  <2> QED
    BY <2>2, <2>3, <2>4 DEF Delivery, CallsInv
<1>3. NoSilentLoss'
  <2>1. \A copy \in stored : ~Volatile(copy.msg) => copy \in stored'
    BY SurvivesNodeFailure
  <2> QED
    BY <2>1 DEF Delivery, NoSilentLoss, NodeFails
<1>4. AtMostTwoCopies'
    BY <1>1 DEF Delivery, CallsInv, AtMostTwoCopies, Slots, TypeOK, NodeFails,
       LoseConnections, CopyOf
<1> QED
    BY <1>2, <1>3, <1>4 DEF Delivery

\* A node that comes back keeps what was sent and what was answered in step.
LEMMA DeliveryNodeRecovers ==
  ASSUME Slots, Delivery, NEW n \in Nodes, NodeRecovers(n)
  PROVE  Delivery'
<1>1. \A u \in Threads : job[u].m \in Messages
    BY CopyType DEF Slots
<1>2. CallsInv'
    BY <1>1 DEF Delivery, CallsInv, NodeRecovers, client
<1>3. NoSilentLoss'
    BY <1>1 DEF Delivery, NoSilentLoss, NodeRecovers, client
<1>4. AtMostTwoCopies'
    BY <1>1 DEF Delivery, AtMostTwoCopies, NodeRecovers
<1> QED
    BY <1>2, <1>3, <1>4 DEF Delivery

\* A channel closed by the broker keeps what was sent and what was answered in step.
LEMMA DeliveryBrokerClosesChannel ==
  ASSUME Slots, Delivery, NEW t \in Threads, BrokerClosesChannel(t)
  PROVE  Delivery'
<1>1. \A u \in Threads : job[u].m \in Messages
    BY CopyType DEF Slots
<1>2. CallsInv'
    BY <1>1 DEF Delivery, CallsInv, BrokerClosesChannel
<1>3. NoSilentLoss'
    BY <1>1 DEF Delivery, NoSilentLoss, BrokerClosesChannel
<1>4. AtMostTwoCopies'
    BY <1>1 DEF Delivery, AtMostTwoCopies, BrokerClosesChannel
<1> QED
    BY <1>2, <1>3, <1>4 DEF Delivery

\* A queue deleted or redeclared keeps what was sent and what was answered in step.
LEMMA DeliveryQueueChanges ==
  ASSUME Slots, Delivery, NEW q \in {"absent", "match", "conflict"}, QueueChanges(q)
  PROVE  Delivery'
<1>1. \A u \in Threads : job[u].m \in Messages
    BY CopyType DEF Slots
<1>2. CallsInv'
    BY <1>1 DEF Delivery, CallsInv, QueueChanges, client
<1>3. NoSilentLoss'
    BY <1>1 DEF Delivery, NoSilentLoss, QueueChanges, client
<1>4. AtMostTwoCopies'
    BY <1>1 DEF Delivery, AtMostTwoCopies, QueueChanges
<1> QED
    BY <1>2, <1>3, <1>4 DEF Delivery

\* One step, whichever it is.
LEMMA NextDelivery == ASSUME Slots, Delivery, [Next]_vars PROVE Delivery'
<1>1. ASSUME NEW t \in Threads, Step(t) PROVE Delivery'
  BY <1>1, DeliveryGetConnection, DeliveryGetChannel, DeliveryConfirmDelivery,
     DeliveryEnsureQueueDeclared, DeliveryDeclareQueue, DeliveryBasicPublish,
     DeliveryAwaitConfirm, DeliveryRetry, DeliveryRaise, DeliveryResetChannel,
     DeliveryResetConnection DEF Step
<1>2. ASSUME NEW t \in Threads, Call(t) PROVE Delivery'
  BY <1>2, DeliveryPublish, DeliveryDecoratedSkip DEF Call
<1>3. CASE Environment
  BY <1>3, DeliveryBrokerAnswers, DeliveryBrokerTakesLate, DeliveryLoseConnection,
     DeliveryNodeFails, DeliveryNodeRecovers, DeliveryBrokerClosesChannel,
     DeliveryQueueChanges DEF Environment
<1>4. CASE UNCHANGED vars
  BY <1>4 DEF Delivery, CallsInv, NoSilentLoss, AtMostTwoCopies, vars, client, broker
<1> QED
  BY <1>1, <1>2, <1>3, <1>4 DEF Next, AllReturned

\* A publish() that returned normally left its message with the broker.
THEOREM PublishedIsStored == Spec => []NoSilentLoss
<1> QED
  BY InitSlots, NextSlots, InitDelivery, NextDelivery, PTL DEF Spec, Delivery

\* No publish() puts more than two copies of its message on the broker.
THEOREM TwoCopiesAtMost == Spec => []AtMostTwoCopies
<1> QED
  BY InitSlots, NextSlots, InitDelivery, NextDelivery, PTL DEF Spec, Delivery

=============================================================================
