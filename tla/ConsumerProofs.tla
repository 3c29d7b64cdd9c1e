--------------------------- MODULE ConsumerProofs ---------------------------
(***************************************************************************)
(* Proofs about Consumer, for any consumers, messages, prefetch count,     *)
(* delays, handlers and any bound on the faults.                           *)
(*                                                                         *)
(* The inductive invariant relates what a thread believes of its channel   *)
(* (views, inbox, current) to what the broker serves and holds for it.     *)
(***************************************************************************)
EXTENDS Consumer, FiniteSetTheorems, TLAPS

\* Where a thread has no session, or one that is not yet subscribed
Outside == {"loop", "connect", "channel", "backoff", "done", "dead"}
Early == {"declare", "qos", "subscribe"}

\* What the broker serves, the thread sees open; only a served channel is limited, only
\* a limited one is subscribed or holds deliveries, and none outlives its session.
Linked(c) ==
    /\ c \in connUp => conn[c] = "open"
    /\ Served(c) => chan[c] = "open" /\ pc[c] \notin Outside
    /\ c \in limited => Served(c)
    /\ c \in subscribed => c \in limited /\ pc[c] \notin Early
    /\ pc[c] = "subscribe" /\ Served(c) => c \in limited
    /\ unacked[c] # {} => c \in limited /\ pc[c] \notin Early

\* While the channel is served, what is at hand is what the broker holds for it; what
\* the handler runs on is not at hand any more.
AtHand(c) ==
    /\ chan[c] # "open" \/ pc[c] \in Outside \cup Early => inbox[c] = {}
    /\ Served(c) => inbox[c] \subseteq unacked[c]
    /\ pc[c] \in {"handler", "nack"} =>
        /\ current[c] \in Messages /\ runs[current[c]] > 0
        /\ Served(c) => current[c] \notin inbox[c]
    /\ pc[c] = "handler" /\ Served(c) => current[c] \in unacked[c]
    /\ pc[c] = "nack" /\ Served(c) => current[c] \in unacked[c] \cup acked
    /\ pc[c] = "nack" => current[c] \in raised

\* Each message is in one place
Placed(m) ==
    /\ m \in ready \cup acked \cup dead \/ \E c \in Consumers : m \in unacked[c]
    /\ m \in ready => m \notin acked \cup dead
    /\ \A c \in Consumers : m \in unacked[c] =>
        m \notin ready \cup acked \cup dead /\ \A d \in Consumers : m \in unacked[d] => c = d
    /\ m \in acked \cup dead => runs[m] > 0

\* The consumers that have m at hand, be it from a channel that is gone
Having(m) == {c \in Consumers : m \in inbox[c]}

\* Each run of a handler, and each delivery still to be dispatched, is paid for by a
\* return to the queue: a message in the queue has one run to its credit.
Paid(m) ==
    /\ IsFiniteSet(Having(m))
    /\ runs[m] + Cardinality(Having(m)) <= requeues[m] + (IF m \in ready THEN 0 ELSE 1)

\* The deliveries a channel holds are within its limit
Limited(c) == IsFiniteSet(unacked[c]) /\ Cardinality(unacked[c]) <= Prefetch

\* A session without an exception ends only after stop.
EndsOnStop(c) == pc[c] = "cleanup" /\ exc[c] = "none" => stop

\* The inductive invariant: types, the threads, and the messages
ThreadsInv == \A c \in Consumers : Linked(c) /\ AtHand(c) /\ EndsOnStop(c)

MessagesInv ==
    /\ \A c \in Consumers : Limited(c)
    /\ \A m \in Messages : Placed(m) /\ Paid(m)
    /\ dead \subseteq raised

Inv == TypeOK /\ ThreadsInv /\ MessagesInv

-----------------------------------------------------------------------------
(* Types *)

\* The broker takes deliveries back, and the channels with them.
LEMMA TypeRequeue ==
  ASSUME TypeOK, NEW C \in SUBSET Consumers, Requeue(C)
  PROVE  /\ ready' \in SUBSET Messages
         /\ acked' \in SUBSET Messages /\ dead' \in SUBSET Messages
         /\ unacked' \in [Consumers -> SUBSET Messages]
         /\ requeues' \in [Messages -> Nat]
<1> QED
  BY DEF TypeOK, Requeue

\* A loss that I/O finds changes the thread's own view only.
LEMMA TypeNotices ==
  ASSUME TypeOK, NEW c \in Consumers, NoticesLoss(c)
  PROVE  /\ conn' \in [Consumers -> Views] /\ chan' \in [Consumers -> Views]
         /\ inbox' \in [Consumers -> SUBSET Messages]
<1> QED
  BY DEF TypeOK, NoticesLoss, NoticesLostConnection, NoticesClosedChannel, DiscardDeliveries, Views

\* A step of a thread keeps the types: its handler runs on a message.
LEMMA TypeThread ==
  ASSUME TypeOK, NEW c \in Consumers, AtHand(c), Step(c)
  PROVE  TypeOK'
<1> USE DEF Goto, Locations, Exceptions, Views
<1>1. ASSUME SessionIOFails(c)
      PROVE  /\ pc' \in [Consumers -> Locations] /\ exc' \in [Consumers -> Exceptions]
             /\ conn' \in [Consumers -> Views] /\ chan' \in [Consumers -> Views]
             /\ inbox' \in [Consumers -> SUBSET Messages]
             /\ UNCHANGED <<serving, messages>>
  BY <1>1, TypeNotices DEF TypeOK, SessionIOFails, ThrowInSession
<1>2. ASSUME CloseChannels({c})
      PROVE  /\ chanUp' \in SUBSET Consumers
             /\ limited' \in SUBSET Consumers /\ subscribed' \in SUBSET Consumers
             /\ ready' \in SUBSET Messages
             /\ acked' \in SUBSET Messages /\ dead' \in SUBSET Messages
             /\ unacked' \in [Consumers -> SUBSET Messages]
             /\ requeues' \in [Messages -> Nat]
  BY <1>2, TypeRequeue DEF TypeOK, CloseChannels
<1>3. CASE CheckStop(c)
  BY <1>3 DEF TypeOK, CheckStop, views, serving, messages
<1>4. CASE Backoff(c)
  <2>1. NextBackoff(backoff[c]) \in Nat
    BY ConsumerAssumption DEF TypeOK, NextBackoff, Smaller
  <2> QED
    BY <1>4, <2>1 DEF TypeOK, Backoff, views, serving, messages
<1>5. CASE GetConnection(c)
  BY <1>5 DEF TypeOK, GetConnection, ThrowOutside, messages
<1>6. CASE OpenChannel(c)
  BY <1>6 DEF TypeOK, OpenChannel, ThrowOutside, messages
<1>7. CASE DeclareQueue(c)
  <2>1. CASE Served(c) /\ queue = "ok"
    BY <1>7, <1>1, <2>1 DEF TypeOK, DeclareQueue, views, serving, messages
  <2>2. CASE Served(c) /\ queue = "conflict" /\ CloseChannels({c})
    BY <1>7, <1>1, <1>2, <2>2 DEF TypeOK, DeclareQueue, ThrowInSession, views, serving, messages
  <2>3. CASE SessionIOFails(c)
    BY <1>7, <1>1, <2>3 DEF TypeOK, DeclareQueue, serving, messages
  <2> QED
    BY <1>7, <2>1, <2>2, <2>3 DEF DeclareQueue
<1>8. CASE SetQos(c)
  BY <1>8, <1>1 DEF TypeOK, SetQos, LimitChannel, views, serving, messages
<1>9. CASE Subscribe(c)
  BY <1>9, <1>1 DEF TypeOK, Subscribe, views, serving, messages
<1>10. CASE PollStop(c)
  BY <1>10 DEF TypeOK, PollStop, AfterPoll, views, serving, messages
<1>11. CASE ProcessDataEvents(c)
  <2>1. CASE UNCHANGED <<exc, views>>
    BY <1>11, <2>1 DEF TypeOK, ProcessDataEvents, ThrowInSession, views, serving, messages
  <2>2. CASE NoticesClosedChannel(c) /\ UNCHANGED exc
    BY <1>11, <2>2, TypeNotices
    DEF TypeOK, ProcessDataEvents, ThrowInSession, NoticesLoss, serving, messages
  <2>3. CASE NoticesLostConnection(c) /\ ThrowInSession(c, "reconnectable")
    BY <1>11, <2>3, TypeNotices
    DEF TypeOK, ProcessDataEvents, ThrowInSession, NoticesLoss, serving, messages
  <2> QED
    BY <1>11, <2>1, <2>2, <2>3 DEF ProcessDataEvents
<1>12. CASE Cleanup(c)
  <2>1. ASSUME NEW e \in Exceptions, Leave(c, e)
        PROVE  pc' \in [Consumers -> Locations] /\ exc' \in [Consumers -> Exceptions]
    BY <2>1 DEF TypeOK, Leave
  <2>2. pc' \in [Consumers -> Locations] /\ exc' \in [Consumers -> Exceptions]
    BY <1>12, <2>1 DEF Cleanup, TypeOK
  <2>3. CASE UNCHANGED <<views, serving, messages>>
    BY <1>12, <2>2, <2>3 DEF TypeOK, Cleanup, views, serving, messages
  <2>4. CASE /\ ReleaseChannel(c) /\ chan' = [chan EXCEPT ![c] = "closed"]
             /\ DiscardDeliveries(c) /\ UNCHANGED conn
    BY <1>12, <1>2, <2>2, <2>4 DEF TypeOK, Cleanup, ReleaseChannel, DiscardDeliveries
  <2>5. CASE NoticesLoss(c) /\ UNCHANGED <<serving, messages>>
    BY <1>12, <2>2, <2>5, TypeNotices DEF TypeOK, Cleanup, serving, messages
  <2> QED
    BY <1>12, <2>3, <2>4, <2>5 DEF Cleanup
<1>13. CASE Dispatch(c)
  BY <1>13 DEF TypeOK, Dispatch, ThrowInSession, serving, messages
<1>14. CASE Handler(c)
  <2>1. current[c] \in Messages
    BY <1>14 DEF Handler, AtHand
  <2>2. ASSUME NEW raises \in BOOLEAN, AfterHandler(c, raises)
        PROVE  /\ pc' \in [Consumers -> Locations]
               /\ current' \in [Consumers -> Messages \cup {NoMessage}]
               /\ raised' \in SUBSET Messages
    BY <2>1, <2>2 DEF TypeOK, AfterHandler
  <2>3. ASSUME NEW raises \in BOOLEAN, HandlerAcks(c, raises)
        PROVE  TypeOK'
    <3>1. /\ pc' \in [Consumers -> Locations]
          /\ current' \in [Consumers -> Messages \cup {NoMessage}]
          /\ raised' \in SUBSET Messages
      BY <2>2, <2>3 DEF HandlerAcks
    <3>2. /\ conn' \in [Consumers -> Views] /\ chan' \in [Consumers -> Views]
          /\ inbox' \in [Consumers -> SUBSET Messages]
      BY <2>3, TypeNotices DEF TypeOK, HandlerAcks, views
    <3>3. /\ ready' \in SUBSET Messages /\ acked' \in SUBSET Messages
          /\ dead' \in SUBSET Messages /\ unacked' \in [Consumers -> SUBSET Messages]
          /\ requeues' \in [Messages -> Nat]
      <4>1. \/ UNCHANGED messages
            \/ /\ acked' = acked \cup {current[c]}
               /\ unacked' = [unacked EXCEPT ![c] = @ \ {current[c]}]
               /\ UNCHANGED <<ready, dead, requeues>>
        BY <2>3 DEF HandlerAcks
      <4> QED
        BY <2>1, <4>1 DEF TypeOK, messages
    <3> QED
      BY <1>14, <3>1, <3>2, <3>3 DEF TypeOK, Handler, serving
  <2>4. ASSUME NEW raises \in BOOLEAN, AfterHandler(c, raises), UNCHANGED <<messages, views>>
        PROVE  TypeOK'
    BY <1>14, <2>2, <2>4 DEF TypeOK, Handler, serving, messages, views
  <2> QED
    BY <1>14, <2>3, <2>4 DEF Handler
<1>15. CASE Nack(c)
  <2>1. current[c] \in Messages
    BY <1>15 DEF Nack, AtHand
  <2>2. CASE /\ ThrowInSession(c, "wrongstate") \/ (Goto(c, "dispatch") /\ UNCHANGED exc)
             /\ UNCHANGED <<views, serving, messages>>
    BY <1>15, <2>2 DEF TypeOK, Nack, ThrowInSession, views, serving, messages
  <2>3. CASE /\ NackToDeadLetter(current[c])
             /\ unacked' = [unacked EXCEPT ![c] = @ \ {current[c]}] /\ Goto(c, "dispatch")
             /\ UNCHANGED <<exc, views, serving, acked, requeues>>
    BY <1>15, <2>1, <2>3 DEF TypeOK, Nack, NackToDeadLetter, views, serving
  <2>4. CASE CloseChannels({c}) /\ Goto(c, "dispatch") /\ UNCHANGED <<exc, views, connUp>>
    BY <1>15, <1>2, <2>4 DEF TypeOK, Nack, views
  <2>5. CASE SessionIOFails(c)
    BY <1>15, <1>1, <2>5 DEF TypeOK, Nack, serving, messages
  <2> QED
    BY <1>15, <2>2, <2>3, <2>4, <2>5 DEF Nack
<1> QED
  BY <1>3, <1>4, <1>5, <1>6, <1>7, <1>8, <1>9, <1>10, <1>11, <1>12, <1>13, <1>14, <1>15 DEF Step

\* A step of the broker, the network or the process keeps the types.
LEMMA TypeEnvironment ==
  ASSUME TypeOK, Environment
  PROVE  TypeOK'
<1>1. ASSUME NEW c \in Consumers, NEW m \in Messages, Deliver(c, m) PROVE TypeOK'
  BY <1>1 DEF TypeOK, Deliver, HeldUntilSettled, thread, serving
<1>2. ASSUME NEW C \in SUBSET Consumers, LoseConnections(C), Disturb, brokerUp' \in BOOLEAN
      PROVE  TypeOK'
  BY <1>2, TypeRequeue DEF TypeOK, LoseConnections, Disturb, thread, views
<1>3. ASSUME NEW c \in Consumers, LoseConnection(c) PROVE TypeOK'
  BY <1>2, <1>3 DEF LoseConnection, TypeOK
<1>4. ASSUME NEW c \in Consumers, BrokerClosesChannel(c) PROVE TypeOK'
  BY <1>4, TypeRequeue DEF TypeOK, BrokerClosesChannel, CloseChannels, Disturb, thread, views
<1>5. ASSUME NEW c \in Consumers, BrokerCancels(c) PROVE TypeOK'
  BY <1>5 DEF TypeOK, BrokerCancels, Disturb, thread, views, messages
<1>6. CASE BrokerStops
  BY <1>2, <1>6 DEF BrokerStops
<1>7. CASE BrokerStarts \/ QueueFixed \/ SetStop
  BY <1>7 DEF TypeOK, BrokerStarts, QueueFixed, SetStop, thread, views, serving, messages
<1> QED
  BY <1>1, <1>3, <1>4, <1>5, <1>6, <1>7 DEF Environment

-----------------------------------------------------------------------------
(* Messages *)

\* Consumers that drop deliveries at hand owe no more runs than before.
LEMMA FewerAtHand ==
  ASSUME TypeOK, NEW m \in Messages, Paid(m), \A c \in Consumers : inbox'[c] \subseteq inbox[c]
  PROVE  /\ IsFiniteSet(Having(m)') /\ Cardinality(Having(m)') \in Nat
         /\ Cardinality(Having(m)) \in Nat
         /\ Cardinality(Having(m)') <= Cardinality(Having(m))
<1>1. IsFiniteSet(Having(m))
  BY DEF Paid
<1>2. Having(m)' \subseteq Having(m)
  BY DEF Having
<1> QED
  BY <1>1, <1>2, FS_Subset, FS_CardinalityType

\* Steps that move no message
LEMMA MessagesKept ==
  ASSUME TypeOK, MessagesInv, UNCHANGED <<messages, runs>>, raised \subseteq raised',
         \A c \in Consumers : inbox'[c] \subseteq inbox[c]
  PROVE  MessagesInv'
<1>1. ASSUME NEW m \in Messages PROVE Placed(m)' /\ Paid(m)'
  <2>1. Paid(m)'
    BY FewerAtHand DEF TypeOK, MessagesInv, Paid, messages
  <2> QED
    BY <2>1 DEF MessagesInv, Placed, messages
<1> QED
  BY <1>1 DEF MessagesInv, Limited, messages

\* A message that goes back with its channel may be handled once more.
LEMMA MessagesRequeued ==
  ASSUME TypeOK, MessagesInv, NEW C \in SUBSET Consumers, Requeue(C),
         UNCHANGED runs, raised \subseteq raised',
         \A c \in Consumers : inbox'[c] \subseteq inbox[c]
  PROVE  MessagesInv'
<1>1. ASSUME NEW c \in Consumers PROVE unacked'[c] = IF c \in C THEN {} ELSE unacked[c]
  BY DEF Requeue
<1>2. ASSUME NEW c \in Consumers PROVE Limited(c)'
  BY <1>1, FS_EmptySet, ConsumerAssumption DEF MessagesInv, Limited
<1>3. ASSUME NEW m \in Messages PROVE Placed(m)'
  BY <1>1 DEF Requeue, MessagesInv, Placed
<1>4. ASSUME NEW m \in Messages PROVE Paid(m)'
  <2>1. Paid(m) /\ Placed(m)
    BY DEF MessagesInv
  <2>2. CASE m \in UNION {unacked[c] : c \in C}
    <3>1. m \notin ready
      BY <2>1, <2>2 DEF Placed
    <3>2. m \in ready' /\ requeues'[m] = requeues[m] + 1
      BY <2>2 DEF Requeue
    <3> QED
      BY <2>1, <3>1, <3>2, FewerAtHand DEF TypeOK, Paid
  <2>3. CASE m \notin UNION {unacked[c] : c \in C}
    <3>1. (m \in ready' <=> m \in ready) /\ requeues'[m] = requeues[m]
      BY <2>3 DEF Requeue
    <3> QED
      BY <2>1, <3>1, FewerAtHand DEF TypeOK, Paid
  <2> QED
    BY <2>2, <2>3
<1> QED
  BY <1>2, <1>3, <1>4 DEF MessagesInv, Requeue

\* A message settled on the channel that holds it, after a handler ran on it, is gone
\* for good.
LEMMA MessageSettled ==
  ASSUME TypeOK, MessagesInv, NEW c \in Consumers, NEW m \in unacked[c], runs[m] > 0,
         unacked' = [unacked EXCEPT ![c] = @ \ {m}],
         acked' \cup dead' = acked \cup dead \cup {m}, dead' \subseteq raised',
         UNCHANGED <<ready, requeues, runs>>,
         \A d \in Consumers : inbox'[d] \subseteq inbox[d]
  PROVE  MessagesInv'
<1>1. ASSUME NEW d \in Consumers PROVE Limited(d)'
  <2>1. IsFiniteSet(unacked[d]) /\ Cardinality(unacked[d]) <= Prefetch
    BY DEF MessagesInv, Limited
  <2>2. unacked'[d] \subseteq unacked[d]
    BY DEF TypeOK
  <2> QED
    BY <2>1, <2>2, FS_Subset, FS_CardinalityType, ConsumerAssumption DEF Limited
<1>2. ASSUME NEW n \in Messages PROVE Placed(n)'
  <2>1. Placed(n)
    BY DEF MessagesInv
  <2>2. n \in acked' \cup dead' <=> n \in acked \cup dead \/ n = m
    OBVIOUS
  <2>3. \A d \in Consumers : n \in unacked'[d] <=> n \in unacked[d] /\ ~(d = c /\ n = m)
    BY DEF TypeOK
  <2> QED
    BY <2>1, <2>2, <2>3 DEF Placed
<1>3. ASSUME NEW n \in Messages PROVE Paid(n)'
  BY FewerAtHand DEF TypeOK, MessagesInv, Paid
<1> QED
  BY <1>1, <1>2, <1>3 DEF MessagesInv

\* A dispatched delivery turns into a run of its handler.
LEMMA MessageDispatched ==
  ASSUME TypeOK, MessagesInv, NEW c \in Consumers, NEW m \in inbox[c],
         inbox' = [inbox EXCEPT ![c] = @ \ {m}],
         runs' = [runs EXCEPT ![m] = @ + 1],
         UNCHANGED <<messages, raised>>
  PROVE  MessagesInv'
<1>1. m \in Messages
  BY DEF TypeOK
<1>2. ASSUME NEW n \in Messages PROVE Placed(n)' /\ Paid(n)'
  <2>1. Placed(n) /\ Paid(n) /\ runs[n] \in Nat /\ requeues[n] \in Nat
    BY DEF TypeOK, MessagesInv
  <2>2. Placed(n)'
    BY <2>1 DEF TypeOK, Placed, messages
  <2>3. CASE n = m
    <3>1. Having(m)' = Having(m) \ {c} /\ c \in Having(m)
      BY DEF TypeOK, Having
    <3>2. /\ IsFiniteSet(Having(m)')
          /\ Cardinality(Having(m)') = Cardinality(Having(m)) - 1
      BY <2>1, <2>3, <3>1, FS_RemoveElement DEF Paid
    <3>3. runs'[m] = runs[m] + 1
      BY <1>1 DEF TypeOK
    <3>4. Cardinality(Having(m)) \in Nat
      BY <2>1, <2>3, FS_CardinalityType DEF Paid
    <3> QED
      BY <2>1, <2>2, <2>3, <3>2, <3>3, <3>4 DEF Paid, messages
  <2>4. CASE n # m
    <3>1. runs'[n] = runs[n]
      BY <2>4 DEF TypeOK
    <3> QED
      BY <2>1, <2>2, <3>1, FewerAtHand DEF TypeOK, Paid, messages
  <2> QED
    BY <2>3, <2>4
<1> QED
  BY <1>2 DEF MessagesInv, Limited, messages

\* A message delivered leaves the queue, and is held for one channel with room.
LEMMA MessageDelivered ==
  ASSUME TypeOK, ThreadsInv, MessagesInv, NEW c \in Consumers, NEW m \in Messages, Deliver(c, m)
  PROVE  MessagesInv'
<1>1. /\ m \in ready /\ c \in limited /\ Cardinality(unacked[c]) < Prefetch
      /\ inbox[c] \subseteq unacked[c]
  BY DEF Deliver, ThreadsInv, Linked, AtHand
<1>2. ready' = ready \ {m}
  BY DEF Deliver
<1>3. \A d \in Consumers : unacked'[d] = IF d = c THEN unacked[c] \cup {m} ELSE unacked[d]
  BY DEF Deliver, HeldUntilSettled, TypeOK
<1>4. \A d \in Consumers : inbox'[d] = IF d = c THEN inbox[c] \cup {m} ELSE inbox[d]
  BY DEF Deliver, TypeOK
<1>5. UNCHANGED <<acked, dead, runs, raised, requeues>>
  BY DEF Deliver, HeldUntilSettled
<1>6. ASSUME NEW d \in Consumers PROVE Limited(d)'
  <2>1. Limited(d)
    BY DEF MessagesInv
  <2>2. CASE d = c
    <3>1. IsFiniteSet(unacked[c]) /\ Cardinality(unacked[c]) \in Nat
      BY <2>1, <2>2, FS_CardinalityType DEF Limited
    <3>2. m \notin unacked[c]
      BY <1>1 DEF MessagesInv, Placed
    <3>3. /\ IsFiniteSet(unacked[c] \cup {m})
          /\ Cardinality(unacked[c] \cup {m}) = Cardinality(unacked[c]) + 1
      BY <3>1, <3>2, FS_AddElement
    <3> QED
      BY <1>1, <1>3, <2>2, <3>1, <3>3, ConsumerAssumption DEF Limited
  <2>3. CASE d # c
    BY <1>3, <2>1, <2>3 DEF Limited
  <2> QED
    BY <2>2, <2>3
<1>7. ASSUME NEW n \in Messages PROVE Placed(n)'
  <2>1. Placed(n)
    BY DEF MessagesInv
  <2> QED
    BY <1>1, <1>2, <1>3, <1>5, <2>1 DEF Placed
<1>8. ASSUME NEW n \in Messages PROVE Paid(n)'
  <2>1. Paid(n) /\ Cardinality(Having(n)) \in Nat
    BY FS_CardinalityType DEF MessagesInv, Paid
  <2>2. CASE n = m
    <3>1. Having(m)' = Having(m) \cup {c} /\ c \notin Having(m)
      BY <1>1, <1>4 DEF Having, MessagesInv, Placed
    <3>2. /\ IsFiniteSet(Having(m)')
          /\ Cardinality(Having(m)') = Cardinality(Having(m)) + 1
      BY <2>1, <2>2, <3>1, FS_AddElement DEF Paid
    <3> QED
      BY <1>1, <1>2, <1>5, <2>1, <2>2, <3>2 DEF TypeOK, Paid
  <2>3. CASE n # m
    <3>1. Having(n)' = Having(n)
      BY <1>4, <2>3 DEF Having
    <3> QED
      BY <1>2, <1>5, <2>1, <2>3, <3>1 DEF TypeOK, Paid
  <2> QED
    BY <2>2, <2>3
<1> QED
  BY <1>5, <1>6, <1>7, <1>8 DEF MessagesInv

-----------------------------------------------------------------------------
(* Threads *)

\* A step that leaves a thread, its views and its channel alone, and takes back neither
\* a run, nor a settlement, nor the stop, keeps what is known of the thread.
LEMMA OthersKept ==
  ASSUME TypeOK, TypeOK', NEW d \in Consumers, Linked(d), AtHand(d), EndsOnStop(d),
         pc'[d] = pc[d], exc'[d] = exc[d], current'[d] = current[d], backoff'[d] = backoff[d],
         conn'[d] = conn[d], chan'[d] = chan[d], inbox'[d] = inbox[d], unacked'[d] = unacked[d],
         d \in connUp' <=> d \in connUp, d \in chanUp' <=> d \in chanUp,
         d \in limited' <=> d \in limited, d \in subscribed' <=> d \in subscribed,
         stop => stop', acked \subseteq acked', raised \subseteq raised',
         \A m \in Messages : runs[m] <= runs'[m]
  PROVE  Linked(d)' /\ AtHand(d)' /\ EndsOnStop(d)'
<1>1. Linked(d)'
  BY DEF Linked, Served
<1>2. AtHand(d)'
  <2>1. current[d] \in Messages /\ runs[current[d]] > 0 =>
          current'[d] \in Messages /\ runs'[current'[d]] > 0
    BY DEF TypeOK
  <2> QED
    BY <2>1 DEF AtHand, Served
<1>3. EndsOnStop(d)'
  BY DEF EndsOnStop, TypeOK
<1> QED
  BY <1>1, <1>2, <1>3

\* The loop, the delay, and the connection: no message moves.
LEMMA ConnectKeeps ==
  ASSUME Inv, NEW c \in Consumers,
         CheckStop(c) \/ Backoff(c) \/ GetConnection(c) \/ OpenChannel(c) \/ PollStop(c)
  PROVE  Inv'
<1>1. TypeOK'
  BY TypeThread DEF Inv, ThreadsInv, Step
<1>2. MessagesInv'
  BY MessagesKept DEF Inv, CheckStop, Backoff, GetConnection, OpenChannel, PollStop, views
<1>3. ASSUME NEW d \in Consumers, d # c PROVE Linked(d)' /\ AtHand(d)' /\ EndsOnStop(d)'
  BY <1>1, <1>3, OthersKept DEF Inv, TypeOK, ThreadsInv, CheckStop, Backoff, GetConnection,
     OpenChannel, PollStop, Goto, ThrowOutside, views, serving, messages
<1>4. Linked(c)' /\ AtHand(c)' /\ EndsOnStop(c)'
  <2> USE DEF Linked, AtHand, EndsOnStop, Served, Outside, Early, Goto, ThrowOutside
  <2>1. TypeOK /\ Linked(c) /\ AtHand(c) /\ EndsOnStop(c)
    BY DEF Inv, ThreadsInv
  <2>2. CASE CheckStop(c)
    BY <2>1, <2>2 DEF TypeOK, CheckStop, views, serving, messages
  <2>3. CASE Backoff(c)
    <3>1. NextBackoff(backoff[c]) <= MaxBackoff
      BY <2>1, ConsumerAssumption DEF TypeOK, NextBackoff, Smaller
    <3> QED
      BY <2>1, <2>3, <3>1 DEF TypeOK, Backoff, views, serving, messages
  <2>4. CASE GetConnection(c)
    BY <2>1, <2>4 DEF TypeOK, GetConnection, messages
  <2>5. CASE OpenChannel(c)
    BY <2>1, <2>5 DEF TypeOK, OpenChannel, messages
  <2>6. CASE PollStop(c)
    BY <2>1, <2>6 DEF TypeOK, PollStop, AfterPoll, views, serving, messages
  <2> QED
    BY <2>2, <2>3, <2>4, <2>5, <2>6
<1> QED
  BY <1>1, <1>2, <1>3, <1>4 DEF Inv, ThreadsInv

\* A loss that I/O finds ends the session, and what was at hand is forgotten: the broker
\* has it back.
LEMMA IOFailureKeeps ==
  ASSUME TypeOK, TypeOK', ThreadsInv, MessagesInv, NEW c \in Consumers, SessionIOFails(c),
         UNCHANGED <<backoff, stop, runs, raised>>,
         \A d \in Consumers : d # c => current'[d] = current[d]
  PROVE  ThreadsInv' /\ MessagesInv'
<1>1. MessagesInv'
  BY MessagesKept DEF TypeOK, SessionIOFails, NoticesLoss, NoticesLostConnection, NoticesClosedChannel, DiscardDeliveries
<1>2. ASSUME NEW d \in Consumers, d # c PROVE Linked(d)' /\ AtHand(d)' /\ EndsOnStop(d)'
  BY <1>2, OthersKept DEF TypeOK, ThreadsInv, SessionIOFails, NoticesLoss, NoticesLostConnection, NoticesClosedChannel, DiscardDeliveries,
     ThrowInSession, Goto, serving, messages
<1>3. Linked(c)' /\ AtHand(c)' /\ EndsOnStop(c)'
  BY DEF TypeOK, ThreadsInv, SessionIOFails, NoticesLoss, NoticesLostConnection, NoticesClosedChannel, DiscardDeliveries, ThrowInSession,
     Goto, serving, messages, Linked, AtHand, EndsOnStop, Served, Outside, Early
<1> QED
  BY <1>1, <1>2, <1>3 DEF ThreadsInv

\* A channel that closes takes its deliveries back to the queue; the thread may or may
\* not know.
LEMMA ChannelClosed ==
  ASSUME TypeOK, TypeOK', ThreadsInv, NEW c \in Consumers, CloseChannels({c}),
         UNCHANGED connUp, conn'[c] = conn[c]
  PROVE  ~Served(c)' /\ unacked'[c] = {} /\ Linked(c)'
<1> QED
  BY DEF TypeOK, ThreadsInv, CloseChannels, Requeue, Served, Linked

\* ... and the channels of the others stay as they are.
LEMMA OtherChannels ==
  ASSUME TypeOK, NEW c \in Consumers, CloseChannels({c}), NEW d \in Consumers, d # c
  PROVE  /\ UNCHANGED acked /\ unacked'[d] = unacked[d]
         /\ d \in chanUp' <=> d \in chanUp
         /\ d \in limited' <=> d \in limited
         /\ d \in subscribed' <=> d \in subscribed
<1> QED
  BY DEF TypeOK, CloseChannels, Requeue

\* Setting up the session: declaring, limiting, subscribing
LEMMA SetupKeeps ==
  ASSUME Inv, NEW c \in Consumers, DeclareQueue(c) \/ SetQos(c) \/ Subscribe(c)
  PROVE  Inv'
<1>1. TypeOK /\ TypeOK' /\ ThreadsInv /\ MessagesInv
  BY TypeThread DEF Inv, ThreadsInv, Step
<1>2. Linked(c) /\ AtHand(c) /\ EndsOnStop(c)
  BY <1>1 DEF ThreadsInv
<1>3. UNCHANGED <<current, backoff, stop, runs, raised>>
  BY DEF DeclareQueue, SetQos, Subscribe
<1>4. CASE SessionIOFails(c)
  BY <1>1, <1>3, <1>4, IOFailureKeeps DEF Inv
<1>5. CASE DeclareQueue(c) /\ Served(c) /\ Goto(c, "qos") /\ UNCHANGED <<exc, views, serving, messages>>
  <2>1. MessagesInv'
    BY <1>1, <1>3, <1>5, MessagesKept DEF views
  <2>2. ASSUME NEW d \in Consumers, d # c PROVE Linked(d)' /\ AtHand(d)' /\ EndsOnStop(d)'
    BY <1>1, <1>3, <1>5, <2>2, OthersKept DEF TypeOK, ThreadsInv, Goto, views, serving, messages
  <2>3. Linked(c)' /\ AtHand(c)' /\ EndsOnStop(c)'
    BY <1>1, <1>2, <1>3, <1>5 DEF TypeOK, DeclareQueue, Goto, views, serving, messages, Linked,
       AtHand, EndsOnStop, Served, Outside, Early
  <2> QED
    BY <1>1, <2>1, <2>2, <2>3 DEF Inv, ThreadsInv
<1>6. CASE /\ pc[c] = "declare" /\ chan' = [chan EXCEPT ![c] = "closed"]
           /\ CloseChannels({c}) /\ ThrowInSession(c, "reconnectable")
           /\ UNCHANGED <<conn, inbox, connUp>>
  <2>1. MessagesInv'
    BY <1>1, <1>3, <1>6, MessagesRequeued DEF CloseChannels
  <2>2. ASSUME NEW d \in Consumers, d # c PROVE Linked(d)' /\ AtHand(d)' /\ EndsOnStop(d)'
    BY <1>1, <1>3, <1>6, <2>2, OtherChannels, OthersKept DEF TypeOK, ThreadsInv, Goto, ThrowInSession
  <2>3. ~Served(c)' /\ unacked'[c] = {} /\ Linked(c)'
    BY <1>1, <1>6, ChannelClosed
  <2>4. AtHand(c)' /\ EndsOnStop(c)'
    BY <1>1, <1>2, <1>3, <1>6, <2>3 DEF TypeOK, ThrowInSession, Goto, AtHand, EndsOnStop, Outside, Early
  <2> QED
    BY <1>1, <2>1, <2>2, <2>3, <2>4 DEF Inv, ThreadsInv
<1>7. CASE SetQos(c) /\ Served(c) /\ LimitChannel(c) /\ Goto(c, "subscribe")
           /\ UNCHANGED <<exc, views, connUp, chanUp, subscribed, messages>>
  <2>1. MessagesInv'
    BY <1>1, <1>3, <1>7, MessagesKept DEF views
  <2>2. ASSUME NEW d \in Consumers, d # c PROVE Linked(d)' /\ AtHand(d)' /\ EndsOnStop(d)'
    BY <1>1, <1>3, <1>7, <2>2, OthersKept DEF TypeOK, ThreadsInv, Goto, LimitChannel, views, messages
  <2>3. Linked(c)' /\ AtHand(c)' /\ EndsOnStop(c)'
    BY <1>1, <1>2, <1>3, <1>7 DEF TypeOK, SetQos, LimitChannel, Goto, views, messages, Linked,
       AtHand, EndsOnStop, Served, Outside, Early
  <2> QED
    BY <1>1, <2>1, <2>2, <2>3 DEF Inv, ThreadsInv
<1>8. CASE Subscribe(c) /\ Served(c) /\ subscribed' = subscribed \cup {c} /\ Goto(c, "poll")
           /\ UNCHANGED <<exc, views, connUp, chanUp, limited, messages>>
  <2>1. MessagesInv'
    BY <1>1, <1>3, <1>8, MessagesKept DEF views
  <2>2. ASSUME NEW d \in Consumers, d # c PROVE Linked(d)' /\ AtHand(d)' /\ EndsOnStop(d)'
    BY <1>1, <1>3, <1>8, <2>2, OthersKept DEF TypeOK, ThreadsInv, Goto, views, messages
  <2>3. Linked(c)' /\ AtHand(c)' /\ EndsOnStop(c)'
    BY <1>1, <1>2, <1>3, <1>8 DEF TypeOK, Subscribe, Goto, views, messages, Linked,
       AtHand, EndsOnStop, Served, Outside, Early
  <2> QED
    BY <1>1, <2>1, <2>2, <2>3 DEF Inv, ThreadsInv
<1> QED
  BY <1>4, <1>5, <1>6, <1>7, <1>8 DEF DeclareQueue, SetQos, Subscribe

\* Waiting for deliveries and dispatching one
LEMMA DispatchKeeps ==
  ASSUME Inv, NEW c \in Consumers, ProcessDataEvents(c) \/ Dispatch(c)
  PROVE  Inv'
<1>1. TypeOK /\ TypeOK' /\ ThreadsInv /\ MessagesInv
  BY TypeThread DEF Inv, ThreadsInv, Step
<1>2. Linked(c) /\ AtHand(c) /\ EndsOnStop(c)
  BY <1>1 DEF ThreadsInv
<1>3. CASE ProcessDataEvents(c) /\ SessionIOFails(c)
  BY <1>1, <1>3, IOFailureKeeps DEF Inv, ProcessDataEvents
<1>4. CASE /\ ProcessDataEvents(c)
           /\ Goto(c, IF inbox[c] = {} THEN "poll" ELSE "dispatch")
           /\ UNCHANGED <<exc, views>>
  <2>1. MessagesInv'
    BY <1>1, <1>4, MessagesKept DEF ProcessDataEvents, views
  <2>2. ASSUME NEW d \in Consumers, d # c PROVE Linked(d)' /\ AtHand(d)' /\ EndsOnStop(d)'
    BY <1>1, <1>4, <2>2, OthersKept DEF TypeOK, ThreadsInv, ProcessDataEvents, Goto, views,
       serving, messages
  <2>3. Linked(c)' /\ AtHand(c)' /\ EndsOnStop(c)'
    BY <1>1, <1>2, <1>4 DEF TypeOK, ProcessDataEvents, Goto, views, serving, messages, Linked,
       AtHand, EndsOnStop, Served, Outside, Early
  <2> QED
    BY <1>1, <2>1, <2>2, <2>3 DEF Inv, ThreadsInv
<1>5. CASE Dispatch(c)
  <2>1. MessagesInv'
    <3>1. CASE UNCHANGED runs
      BY <1>1, <1>5, <3>1, MessagesKept DEF TypeOK, Dispatch
    <3>2. ASSUME NEW m \in inbox[c], inbox' = [inbox EXCEPT ![c] = @ \ {m}],
                 runs' = [runs EXCEPT ![m] = @ + 1]
          PROVE  MessagesInv'
      BY <1>1, <1>5, <3>2, MessageDispatched DEF Dispatch
    <3> QED
      BY <1>5, <3>1, <3>2 DEF Dispatch
  <2>2. ASSUME NEW m \in Messages PROVE runs[m] <= runs'[m]
    BY <1>1, <1>5 DEF TypeOK, Dispatch
  <2>3. ASSUME NEW d \in Consumers, d # c PROVE Linked(d)' /\ AtHand(d)' /\ EndsOnStop(d)'
    BY <1>1, <1>5, <2>2, <2>3, OthersKept DEF TypeOK, ThreadsInv, Dispatch, Goto, ThrowInSession,
       serving, messages
  <2>4. Linked(c)' /\ EndsOnStop(c)'
    BY <1>1, <1>2, <1>5 DEF TypeOK, Dispatch, Goto, ThrowInSession, serving, messages, Linked,
       EndsOnStop, Served, Outside, Early
  <2>5. AtHand(c)'
    <3>1. CASE inbox[c] = {}
      BY <1>1, <1>2, <1>5, <3>1 DEF TypeOK, Dispatch, Goto, AtHand, Served, Outside, Early,
         serving, messages
    <3>2. ASSUME NEW m \in inbox[c], inbox' = [inbox EXCEPT ![c] = @ \ {m}],
                 current' = [current EXCEPT ![c] = m], UNCHANGED <<chan, serving, messages>>,
                 pc[c] = "dispatch",
                 \/ Goto(c, "handler") /\ runs' = [runs EXCEPT ![m] = @ + 1]
                 \/ Goto(c, "cleanup")
          PROVE  AtHand(c)'
      BY <1>1, <1>2, <3>2 DEF TypeOK, Goto, AtHand, Served, Outside, Early, serving, messages
    <3> QED
      BY <1>5, <3>1, <3>2 DEF Dispatch, ThrowInSession
  <2> QED
    BY <1>1, <2>1, <2>3, <2>4, <2>5 DEF Inv, ThreadsInv
<1>6. CASE ProcessDataEvents(c) /\ NoticesClosedChannel(c) /\ Goto(c, "poll") /\ UNCHANGED exc
  <2>1. MessagesInv'
    BY <1>1, <1>6, MessagesKept DEF TypeOK, ProcessDataEvents, NoticesClosedChannel, DiscardDeliveries
  <2>2. ASSUME NEW d \in Consumers, d # c PROVE Linked(d)' /\ AtHand(d)' /\ EndsOnStop(d)'
    BY <1>1, <1>6, <2>2, OthersKept DEF TypeOK, ThreadsInv, ProcessDataEvents, Goto,
       NoticesClosedChannel, DiscardDeliveries, serving, messages
  <2>3. Linked(c)' /\ AtHand(c)' /\ EndsOnStop(c)'
    BY <1>1, <1>2, <1>6 DEF TypeOK, ProcessDataEvents, Goto, NoticesClosedChannel,
       DiscardDeliveries, serving, messages, Linked, AtHand, EndsOnStop, Served, Outside, Early
  <2> QED
    BY <1>1, <2>1, <2>2, <2>3 DEF Inv, ThreadsInv
<1> QED
  BY <1>3, <1>4, <1>5, <1>6 DEF ProcessDataEvents, SessionIOFails, NoticesLoss

\* The end of a session: a channel that looks open is closed, and the broker takes back
\* what was not settled; one that does not look open holds nothing.
LEMMA CleanupKeeps ==
  ASSUME Inv, NEW c \in Consumers, Cleanup(c)
  PROVE  Inv'
<1>1. TypeOK /\ TypeOK' /\ ThreadsInv /\ MessagesInv
  BY TypeThread DEF Inv, ThreadsInv, Step
<1>2. Linked(c) /\ AtHand(c) /\ EndsOnStop(c)
  BY <1>1 DEF ThreadsInv
<1>3. /\ \A d \in Consumers : d # c => pc'[d] = pc[d] /\ exc'[d] = exc[d]
      /\ pc'[c] \in {"done", "backoff", "dead"}
  <2>1. ASSUME NEW e \in Exceptions, Leave(c, e)
        PROVE  /\ \A d \in Consumers : d # c => pc'[d] = pc[d] /\ exc'[d] = exc[d]
               /\ pc'[c] \in {"done", "backoff", "dead"}
    BY <1>1, <2>1 DEF TypeOK, Leave, Goto
  <2>2. exc[c] \in Exceptions /\ "reconnectable" \in Exceptions
    BY <1>1 DEF TypeOK, Exceptions
  <2> QED
    BY <2>1, <2>2 DEF Cleanup
<1>4. /\ UNCHANGED <<backoff, stop, runs, raised>> /\ pc[c] = "cleanup"
      /\ \A d \in Consumers : d # c => current'[d] = current[d]
  BY <1>1 DEF TypeOK, Cleanup
<1>5. CASE chan[c] # "open" /\ UNCHANGED <<views, serving, messages>>
  <2>1. MessagesInv'
    BY <1>1, <1>4, <1>5, MessagesKept DEF views
  <2>2. ASSUME NEW d \in Consumers, d # c PROVE Linked(d)' /\ AtHand(d)' /\ EndsOnStop(d)'
    BY <1>1, <1>3, <1>4, <1>5, <2>2, OthersKept DEF TypeOK, ThreadsInv, views, serving, messages
  <2>3. Linked(c)' /\ AtHand(c)' /\ EndsOnStop(c)'
    BY <1>1, <1>2, <1>3, <1>4, <1>5 DEF TypeOK, views, serving, messages, Linked, AtHand, EndsOnStop,
       Served, Outside, Early
  <2> QED
    BY <1>1, <2>1, <2>2, <2>3 DEF Inv, ThreadsInv
<1>6. CASE /\ ReleaseChannel(c) /\ chan' = [chan EXCEPT ![c] = "closed"]
           /\ DiscardDeliveries(c) /\ UNCHANGED conn
  <2>1. MessagesInv'
    <3>1. \A d \in Consumers : inbox'[d] \subseteq inbox[d]
      BY <1>1, <1>6 DEF TypeOK, DiscardDeliveries
    <3>2. {c} \in SUBSET Consumers /\ Requeue({c})
      BY <1>6 DEF ReleaseChannel, CloseChannels
    <3> QED
      BY <1>1, <1>4, <3>1, <3>2, MessagesRequeued
  <2>2. ASSUME NEW d \in Consumers, d # c PROVE Linked(d)' /\ AtHand(d)' /\ EndsOnStop(d)'
    <3>1. CloseChannels({c}) /\ UNCHANGED connUp
      BY <1>6 DEF ReleaseChannel
    <3> QED
      BY <1>1, <1>3, <1>4, <1>6, <2>2, <3>1, OtherChannels, OthersKept DEF TypeOK, ThreadsInv,
         DiscardDeliveries
  <2>3. ~Served(c)' /\ unacked'[c] = {} /\ Linked(c)'
    BY <1>1, <1>6, ChannelClosed DEF ReleaseChannel
  <2>4. AtHand(c)' /\ EndsOnStop(c)'
    BY <1>1, <1>2, <1>3, <1>4, <1>6, <2>3 DEF TypeOK, DiscardDeliveries, AtHand, EndsOnStop, Outside, Early
  <2> QED
    BY <1>1, <2>1, <2>2, <2>3, <2>4 DEF Inv, ThreadsInv
<1>7. CASE NoticesLoss(c) /\ UNCHANGED <<serving, messages>>
  <2>1. MessagesInv'
    BY <1>1, <1>4, <1>7, MessagesKept DEF TypeOK, NoticesLoss, NoticesLostConnection, NoticesClosedChannel, DiscardDeliveries
  <2>2. ASSUME NEW d \in Consumers, d # c PROVE Linked(d)' /\ AtHand(d)' /\ EndsOnStop(d)'
    BY <1>1, <1>3, <1>4, <1>7, <2>2, OthersKept DEF TypeOK, ThreadsInv, NoticesLoss, NoticesLostConnection, NoticesClosedChannel,
       DiscardDeliveries, serving, messages
  <2>3. Linked(c)' /\ AtHand(c)' /\ EndsOnStop(c)'
    BY <1>1, <1>2, <1>3, <1>4, <1>7 DEF TypeOK, NoticesLoss, NoticesLostConnection, NoticesClosedChannel, DiscardDeliveries, serving, messages,
       Linked, AtHand, EndsOnStop, Served, Outside, Early
  <2> QED
    BY <1>1, <2>1, <2>2, <2>3 DEF Inv, ThreadsInv
<1> QED
  BY <1>5, <1>6, <1>7 DEF Cleanup

\* A handler has settled its message, or not, and returned or raised.
LEMMA HandlerKeeps ==
  ASSUME Inv, NEW c \in Consumers, Handler(c)
  PROVE  Inv'
<1>1. TypeOK /\ TypeOK' /\ ThreadsInv /\ MessagesInv
  BY TypeThread DEF Inv, ThreadsInv, Step
<1>2. Linked(c) /\ AtHand(c) /\ EndsOnStop(c) /\ pc[c] = "handler"
  BY <1>1 DEF ThreadsInv, Handler
<1>3. /\ current[c] \in Messages /\ runs[current[c]] > 0
      /\ Served(c) => current[c] \in unacked[c] \ inbox[c]
  BY <1>2 DEF AtHand
<1>4. UNCHANGED <<exc, backoff, stop, serving, runs>>
  BY DEF Handler
\* Where the thread goes, and what is recorded of a handler that raised
<1>5. /\ \A d \in Consumers : d # c => pc'[d] = pc[d] /\ current'[d] = current[d]
      /\ raised \subseteq raised'
      /\ \/ pc'[c] = "dispatch"
         \/ pc'[c] = "nack" /\ current'[c] = current[c] /\ current[c] \in raised'
  <2>1. ASSUME NEW raises \in BOOLEAN, AfterHandler(c, raises)
        PROVE  /\ \A d \in Consumers : d # c => pc'[d] = pc[d] /\ current'[d] = current[d]
               /\ raised \subseteq raised'
               /\ \/ pc'[c] = "dispatch"
                  \/ pc'[c] = "nack" /\ current'[c] = current[c] /\ current[c] \in raised'
    BY <1>1, <2>1 DEF TypeOK, AfterHandler, Goto
  <2>2. \E raises \in BOOLEAN : AfterHandler(c, raises)
    BY DEF Handler, HandlerAcks
  <2> QED
    BY <2>1, <2>2
\* What becomes of the message
<1>6. \/ UNCHANGED <<messages, views>>
      \/ UNCHANGED messages /\ NoticesLoss(c)
      \/ /\ Served(c) /\ acked' = acked \cup {current[c]}
         /\ unacked' = [unacked EXCEPT ![c] = @ \ {current[c]}]
         /\ UNCHANGED <<ready, dead, requeues, views>>
  BY DEF Handler, HandlerAcks
<1>7. CASE UNCHANGED <<messages, views>>
  <2>1. MessagesInv'
    BY <1>1, <1>4, <1>5, <1>7, MessagesKept DEF views
  <2>2. ASSUME NEW d \in Consumers, d # c PROVE Linked(d)' /\ AtHand(d)' /\ EndsOnStop(d)'
    BY <1>1, <1>4, <1>5, <1>7, <2>2, OthersKept DEF TypeOK, ThreadsInv, views, serving, messages
  <2>3. Linked(c)' /\ AtHand(c)' /\ EndsOnStop(c)'
    BY <1>1, <1>2, <1>3, <1>4, <1>5, <1>7 DEF TypeOK, views, serving, messages, Linked, AtHand,
       EndsOnStop, Served, Outside, Early
  <2> QED
    BY <1>1, <2>1, <2>2, <2>3 DEF Inv, ThreadsInv
<1>8. CASE UNCHANGED messages /\ NoticesLoss(c)
  <2>1. MessagesInv'
    BY <1>1, <1>4, <1>5, <1>8, MessagesKept DEF TypeOK, NoticesLoss, NoticesLostConnection, NoticesClosedChannel, DiscardDeliveries
  <2>2. ASSUME NEW d \in Consumers, d # c PROVE Linked(d)' /\ AtHand(d)' /\ EndsOnStop(d)'
    BY <1>1, <1>4, <1>5, <1>8, <2>2, OthersKept DEF TypeOK, ThreadsInv, NoticesLoss, NoticesLostConnection, NoticesClosedChannel,
       DiscardDeliveries, serving, messages
  <2>3. Linked(c)' /\ AtHand(c)' /\ EndsOnStop(c)'
    BY <1>1, <1>2, <1>3, <1>4, <1>5, <1>8 DEF TypeOK, NoticesLoss, NoticesLostConnection, NoticesClosedChannel, DiscardDeliveries, serving,
       messages, Linked, AtHand, EndsOnStop, Served, Outside, Early
  <2> QED
    BY <1>1, <2>1, <2>2, <2>3 DEF Inv, ThreadsInv
<1>9. CASE /\ Served(c) /\ acked' = acked \cup {current[c]}
           /\ unacked' = [unacked EXCEPT ![c] = @ \ {current[c]}]
           /\ UNCHANGED <<ready, dead, requeues, views>>
  <2>1. MessagesInv'
    BY <1>1, <1>3, <1>4, <1>5, <1>9, MessageSettled DEF MessagesInv, views
  <2>2. ASSUME NEW d \in Consumers, d # c PROVE Linked(d)' /\ AtHand(d)' /\ EndsOnStop(d)'
    BY <1>1, <1>4, <1>5, <1>9, <2>2, OthersKept DEF TypeOK, ThreadsInv, views, serving
  <2>3. Linked(c)' /\ AtHand(c)' /\ EndsOnStop(c)'
    BY <1>1, <1>2, <1>3, <1>4, <1>5, <1>9 DEF TypeOK, views, serving, Linked, AtHand, EndsOnStop,
       Served, Outside, Early
  <2> QED
    BY <1>1, <2>1, <2>2, <2>3 DEF Inv, ThreadsInv
<1> QED
  BY <1>6, <1>7, <1>8, <1>9

\* A nack sends the message to the dead letters if the channel still holds it, and makes
\* the broker close the channel if the handler had settled it.
LEMMA NackKeeps ==
  ASSUME Inv, NEW c \in Consumers, Nack(c)
  PROVE  Inv'
<1>1. TypeOK /\ TypeOK' /\ ThreadsInv /\ MessagesInv
  BY TypeThread DEF Inv, ThreadsInv, Step
<1>2. Linked(c) /\ AtHand(c) /\ EndsOnStop(c) /\ pc[c] = "nack"
  BY <1>1 DEF ThreadsInv, Nack
<1>3. /\ current[c] \in Messages /\ runs[current[c]] > 0 /\ current[c] \in raised
      /\ Served(c) => current[c] \notin inbox[c]
  BY <1>2 DEF AtHand
<1>4. /\ UNCHANGED <<backoff, stop, runs, raised>>
      /\ \A d \in Consumers : d # c => current'[d] = current[d]
  BY <1>1 DEF TypeOK, Nack
<1>5. CASE SessionIOFails(c)
  BY <1>1, <1>4, <1>5, IOFailureKeeps DEF Inv
<1>6. CASE /\ ThrowInSession(c, "wrongstate") \/ (Goto(c, "dispatch") /\ UNCHANGED exc)
           /\ UNCHANGED <<views, serving, messages>>
  <2>1. MessagesInv'
    BY <1>1, <1>4, <1>6, MessagesKept DEF views
  <2>2. ASSUME NEW d \in Consumers, d # c PROVE Linked(d)' /\ AtHand(d)' /\ EndsOnStop(d)'
    BY <1>1, <1>4, <1>6, <2>2, OthersKept DEF TypeOK, ThreadsInv, Goto, ThrowInSession, views,
       serving, messages
  <2>3. Linked(c)' /\ AtHand(c)' /\ EndsOnStop(c)'
    BY <1>1, <1>2, <1>4, <1>6 DEF TypeOK, Goto, ThrowInSession, views, serving, messages, Linked,
       AtHand, EndsOnStop, Served, Outside, Early
  <2> QED
    BY <1>1, <2>1, <2>2, <2>3 DEF Inv, ThreadsInv
<1>7. CASE /\ Served(c) /\ current[c] \in unacked[c]
           /\ dead' = dead \cup {current[c]} /\ UNCHANGED ready
           /\ unacked' = [unacked EXCEPT ![c] = @ \ {current[c]}]
           /\ Goto(c, "dispatch")
           /\ UNCHANGED <<exc, views, serving, acked, requeues>>
  <2>1. MessagesInv'
    BY <1>1, <1>3, <1>4, <1>7, MessageSettled DEF MessagesInv, views
  <2>2. ASSUME NEW d \in Consumers, d # c PROVE Linked(d)' /\ AtHand(d)' /\ EndsOnStop(d)'
    BY <1>1, <1>4, <1>7, <2>2, OthersKept DEF TypeOK, ThreadsInv, Goto, views, serving
  <2>3. Linked(c)' /\ AtHand(c)' /\ EndsOnStop(c)'
    BY <1>1, <1>2, <1>3, <1>4, <1>7 DEF TypeOK, Goto, views, serving, Linked, AtHand, EndsOnStop,
       Served, Outside, Early
  <2> QED
    BY <1>1, <2>1, <2>2, <2>3 DEF Inv, ThreadsInv
<1>8. CASE CloseChannels({c}) /\ Goto(c, "dispatch") /\ UNCHANGED <<exc, views, connUp>>
  <2>1. MessagesInv'
    BY <1>1, <1>4, <1>8, MessagesRequeued DEF views, CloseChannels
  <2>2. ASSUME NEW d \in Consumers, d # c PROVE Linked(d)' /\ AtHand(d)' /\ EndsOnStop(d)'
    BY <1>1, <1>4, <1>8, <2>2, OtherChannels, OthersKept DEF TypeOK, ThreadsInv, Goto, views
  <2>3. ~Served(c)' /\ unacked'[c] = {} /\ Linked(c)'
    BY <1>1, <1>8, ChannelClosed DEF views
  <2>4. AtHand(c)' /\ EndsOnStop(c)'
    BY <1>1, <1>2, <1>4, <1>8, <2>3 DEF TypeOK, Goto, views, AtHand, EndsOnStop, Outside, Early
  <2> QED
    BY <1>1, <2>1, <2>2, <2>3, <2>4 DEF Inv, ThreadsInv
<1> QED
  BY <1>5, <1>6, <1>7, <1>8 DEF Nack, NackToDeadLetter

\* The broker delivers to a channel that is served: the delivery is at hand, and held.
LEMMA DeliverKeeps ==
  ASSUME Inv, NEW c \in Consumers, NEW m \in Messages, Deliver(c, m)
  PROVE  Inv'
<1>1. TypeOK /\ TypeOK' /\ ThreadsInv /\ MessagesInv
  BY TypeEnvironment DEF Inv, Environment
<1>2. MessagesInv'
  BY <1>1, MessageDelivered
<1>3. Linked(c) /\ AtHand(c) /\ EndsOnStop(c)
  BY <1>1 DEF ThreadsInv
<1>4. /\ m \in ready /\ c \in subscribed /\ Served(c)
      /\ UNCHANGED <<thread, conn, chan, stop, serving, acked, runs, raised>>
      /\ unacked' = [unacked EXCEPT ![c] = @ \cup {m}]
      /\ inbox' = [inbox EXCEPT ![c] = @ \cup {m}]
  BY DEF Deliver, HeldUntilSettled
<1>5. ASSUME NEW d \in Consumers, d # c PROVE Linked(d)' /\ AtHand(d)' /\ EndsOnStop(d)'
  BY <1>1, <1>4, <1>5, OthersKept DEF TypeOK, ThreadsInv, thread, serving
<1>6. Linked(c)' /\ EndsOnStop(c)'
  BY <1>1, <1>3, <1>4 DEF TypeOK, Linked, EndsOnStop, Served, thread, serving
<1>7. AtHand(c)'
  <2>1. chan[c] = "open" /\ pc[c] \notin Outside \cup Early
    BY <1>3, <1>4 DEF Linked
  <2>2. pc[c] \in {"handler", "nack"} => current[c] # m
    <3>1. m \notin unacked[c] /\ m \notin acked
      BY <1>1, <1>4 DEF MessagesInv, Placed
    <3> QED
      BY <1>3, <1>4, <3>1 DEF AtHand
  <2> QED
    BY <1>1, <1>3, <1>4, <2>1, <2>2 DEF TypeOK, AtHand, Served, thread, serving
<1> QED
  BY <1>1, <1>2, <1>5, <1>6, <1>7 DEF Inv, ThreadsInv

\* The connections of some are lost on the broker's side, unknown to their threads.
LEMMA LossKeeps ==
  ASSUME Inv, NEW C \in SUBSET Consumers,
         \/ LoseConnections(C)
         \/ /\ CloseChannels(C)
            /\ UNCHANGED <<thread, views, stop, connUp, runs, raised>>,
         TypeOK'
  PROVE  Inv'
<1>1. TypeOK /\ ThreadsInv /\ MessagesInv
  BY DEF Inv
<1>2. /\ UNCHANGED <<thread, views, stop, runs, raised>> /\ Requeue(C)
      /\ limited' = limited \ C /\ subscribed' = subscribed \ C
      /\ \/ connUp' = connUp \ C /\ chanUp' = chanUp
         \/ connUp' = connUp /\ chanUp' = chanUp \ C
  BY DEF LoseConnections, CloseChannels
<1>3. MessagesInv'
  BY <1>1, <1>2, MessagesRequeued DEF views
<1>4. \A d \in Consumers : unacked'[d] = IF d \in C THEN {} ELSE unacked[d]
  BY <1>2 DEF Requeue
<1>5. UNCHANGED acked
  BY <1>2 DEF Requeue
<1>6. ASSUME NEW d \in Consumers PROVE Linked(d)' /\ AtHand(d)' /\ EndsOnStop(d)'
  <2>1. Linked(d) /\ AtHand(d) /\ EndsOnStop(d)
    BY <1>1 DEF ThreadsInv
  <2>2. Served(d)' => Served(d) /\ d \notin C
    BY <1>2, <2>1 DEF Served
  <2>3. Linked(d)'
    BY <1>2, <1>4, <2>1, <2>2 DEF Linked, Served, thread, views
  <2>4. AtHand(d)'
    BY <1>2, <1>4, <1>5, <2>1, <2>2 DEF AtHand, thread, views
  <2>5. EndsOnStop(d)'
    BY <1>1, <1>2, <2>1 DEF TypeOK, EndsOnStop, thread
  <2> QED
    BY <2>3, <2>4, <2>5
<1> QED
  BY <1>3, <1>6 DEF Inv, ThreadsInv

\* Whatever the broker, the network and the process do keeps the invariant.
LEMMA EnvironmentKeeps ==
  ASSUME Inv, Environment
  PROVE  Inv'
<1>1. TypeOK'
  BY TypeEnvironment DEF Inv
<1>2. ASSUME NEW c \in Consumers, NEW m \in Messages, Deliver(c, m) PROVE Inv'
  BY <1>2, DeliverKeeps
<1>3. ASSUME NEW c \in Consumers, LoseConnection(c) PROVE Inv'
  BY <1>1, <1>3, LossKeeps DEF LoseConnection
<1>4. ASSUME NEW c \in Consumers, BrokerClosesChannel(c) PROVE Inv'
  BY <1>1, <1>4, LossKeeps DEF BrokerClosesChannel
<1>5. CASE BrokerStops
  BY <1>1, <1>5, LossKeeps DEF BrokerStops
<1>6. CASE (\E c \in Consumers : BrokerCancels(c)) \/ BrokerStarts \/ QueueFixed \/ SetStop
  <2>1. /\ UNCHANGED <<thread, views, connUp, chanUp, limited, messages, runs, raised>>
        /\ subscribed' \subseteq subscribed /\ (stop => stop')
    BY <1>6 DEF BrokerCancels, BrokerStarts, QueueFixed, SetStop, Inv, TypeOK, serving
  <2>2. MessagesInv'
    BY <2>1, MessagesKept DEF Inv, views
  <2>3. ASSUME NEW d \in Consumers PROVE Linked(d)' /\ AtHand(d)' /\ EndsOnStop(d)'
    BY <2>1 DEF Inv, TypeOK, ThreadsInv, Linked, AtHand, EndsOnStop, Served, thread, views, messages
  <2> QED
    BY <1>1, <2>2, <2>3 DEF Inv, ThreadsInv
<1> QED
  BY <1>2, <1>3, <1>4, <1>5, <1>6 DEF Environment

\* At the start all messages are in the queue and no thread has a connection.
LEMMA InitInv == Init => Inv
<1> SUFFICES ASSUME Init PROVE Inv
  OBVIOUS
<1>1. TypeOK
  BY ConsumerAssumption DEF Init, TypeOK, Locations, Exceptions, Views
<1>2. ThreadsInv
  BY DEF Init, ThreadsInv, Linked, AtHand, EndsOnStop, Served, Outside, Early
<1>3. ASSUME NEW c \in Consumers PROVE Limited(c)
  BY FS_EmptySet, ConsumerAssumption DEF Init, Limited
<1>4. ASSUME NEW m \in Messages PROVE Placed(m) /\ Paid(m)
  <2>1. Having(m) = {}
    BY DEF Init, Having
  <2>2. Paid(m)
    BY <2>1, FS_EmptySet DEF Init, Paid
  <2> QED
    BY <2>2 DEF Init, Placed
<1>5. dead \subseteq raised
  BY DEF Init
<1> QED
  BY <1>1, <1>2, <1>3, <1>4, <1>5 DEF Inv, MessagesInv

-----------------------------------------------------------------------------
(* Theorems *)

\* The invariant holds in every state, whatever fails and in whatever order.
THEOREM Invariant == Spec => []Inv
<1>1. Inv /\ [Next]_vars => Inv'
  <2> SUFFICES ASSUME Inv, [Next]_vars PROVE Inv'
    OBVIOUS
  <2>1. ASSUME NEW c \in Consumers, Step(c) PROVE Inv'
    BY <2>1, ConnectKeeps, SetupKeeps, DispatchKeeps, CleanupKeeps, HandlerKeeps, NackKeeps DEF Step
  <2>2. CASE Environment
    BY <2>2, EnvironmentKeeps
  <2>3. CASE UNCHANGED vars
    <3>1. TypeOK'
      BY <2>3 DEF Inv, TypeOK, vars, thread, views, serving, messages
    <3>2. MessagesInv'
      BY <2>3, MessagesKept DEF Inv, vars, views
    <3>3. ThreadsInv'
      BY <2>3 DEF Inv, ThreadsInv, Linked, AtHand, EndsOnStop, Served, vars, thread, views, serving, messages
    <3> QED
      BY <3>1, <3>2, <3>3 DEF Inv
  <2> QED
    BY <2>1, <2>2, <2>3 DEF Next, AllOver
<1> QED
  BY InitInv, <1>1, PTL DEF Spec

\* Every variable keeps its type.
THEOREM TypeCorrect == Spec => []TypeOK
<1> QED
  BY Invariant, PTL DEF Inv

\* No message is lost, however many consumers, faults and prefetched deliveries there are:
\* it is in the queue or held for a channel until a handler has run on it, and one that is
\* settled never returns.
THEOREM NothingIsLost == Spec => []AtLeastOnce
<1>1. Inv => AtLeastOnce
  BY DEF Inv, MessagesInv, Placed, AtLeastOnce
<1> QED
  BY Invariant, <1>1, PTL

\* A handler runs once more only after a channel went away with its message unsettled.
THEOREM NothingCirculates == Spec => []NoPoisonLoop
<1>1. Inv => NoPoisonLoop
  <2> SUFFICES ASSUME Inv, NEW m \in Messages PROVE runs[m] <= requeues[m] + 1
    BY DEF NoPoisonLoop
  <2>1. Paid(m) /\ runs[m] \in Nat /\ requeues[m] \in Nat
    BY DEF Inv, TypeOK, MessagesInv
  <2>2. Cardinality(Having(m)) \in Nat
    BY <2>1, FS_CardinalityType DEF Paid
  <2> QED
    BY <2>1, <2>2 DEF Paid
<1> QED
  BY Invariant, <1>1, PTL

\* The dead letters hold nothing but messages whose handler raised.
THEOREM OnlyRaisedAreDead == Spec => []DeadLettersWereRaised
<1>1. Inv => DeadLettersWereRaised
  BY DEF Inv, MessagesInv, DeadLettersWereRaised
<1> QED
  BY Invariant, <1>1, PTL

\* No channel holds more than prefetch_count deliveries.
THEOREM PrefetchIsKept == Spec => []WithinPrefetch
<1>1. Inv => WithinPrefetch
  BY DEF Inv, MessagesInv, Limited, WithinPrefetch
<1> QED
  BY Invariant, <1>1, PTL

\* Between sessions, waiting, returned or dead, a consumer keeps no message from the others.
THEOREM NothingIsStranded == Spec => []NothingStranded
<1>1. Inv => NothingStranded
  BY DEF Inv, ThreadsInv, Linked, Outside, NothingStranded
<1> QED
  BY Invariant, <1>1, PTL

-----------------------------------------------------------------------------
(* Consumer implements ConsumerThread *)

\* The state ConsumerThread sees, as the instance Thread gives it
LifeAt(l) ==
    CASE l = "done" -> "returned"
      [] l = "dead" -> "raised"
      [] l \in {"loop", "backoff"} -> "loop"
      [] OTHER -> "session"
Life == [c \in Consumers |-> LifeAt(pc[c])]
Holds == {c \in Consumers : unacked[c] # {} \/ c \in subscribed}

\* A thread has a session from its check of stop to the end of its finally clause.
LEMMA LivesOfLocations ==
  /\ LifeAt("loop") = "loop" /\ LifeAt("backoff") = "loop"
  /\ LifeAt("done") = "returned" /\ LifeAt("dead") = "raised"
  /\ \A l \in Locations \ {"loop", "backoff", "done", "dead"} : LifeAt(l) = "session"
<1> QED
  BY DEF LifeAt, Locations

\* A thread that moves changes its own life only.
LEMMA LifeMoves ==
  ASSUME TypeOK, NEW c \in Consumers, \A d \in Consumers : d # c => pc'[d] = pc[d]
  PROVE  Life' = [Life EXCEPT ![c] = LifeAt(pc'[c])]
<1>1. ASSUME NEW d \in Consumers PROVE Life'[d] = [Life EXCEPT ![c] = LifeAt(pc'[c])][d]
  BY DEF Life
<1> QED
  BY <1>1 DEF Life

\* A thread that moves within its session keeps its life.
LEMMA LifeKept ==
  ASSUME TypeOK, TypeOK', NEW c \in Consumers, \A d \in Consumers : d # c => pc'[d] = pc[d],
         LifeAt(pc'[c]) = LifeAt(pc[c])
  PROVE  Life' = Life
<1> QED
  BY DEF Life

\* Where nothing but the hold of consumers on the broker changes, and shrinks, they let go.
LEMMA LetsGo ==
  ASSUME UNCHANGED stop, Life' = Life, Holds' \subseteq Holds
  PROVE  Thread!LetGo
<1> QED
  BY DEF Thread!LetGo, Life, LifeAt, Holds

\* The steps of ConsumerThread, in terms of Life and Holds
LEMMA ThreadSteps ==
  ASSUME NEW c \in Consumers
  PROVE  /\ /\ Life[c] = "loop" /\ ~stop /\ Life' = [Life EXCEPT ![c] = "session"]
            /\ stop' = stop /\ Holds' = Holds
            => Thread!EnterSession(c)
         /\ /\ Life[c] = "session" /\ Holds' = Holds \cup {c} /\ stop' = stop /\ Life' = Life
            => Thread!Hold(c)
         /\ /\ Life[c] = "session" /\ Holds' = Holds \ {c} /\ stop' = stop
            /\ \/ Life' = [Life EXCEPT ![c] = "loop"]
               \/ Life' = [Life EXCEPT ![c] = "raised"]
               \/ stop /\ Life' = [Life EXCEPT ![c] = "returned"]
            => Thread!LeaveSession(c)
         /\ /\ Life[c] = "loop" /\ stop /\ Life' = [Life EXCEPT ![c] = "returned"]
            /\ stop' = stop /\ Holds' = Holds
            => Thread!Return(c)
<1>1. Life[c] = "loop" /\ ~stop /\ Life' = [Life EXCEPT ![c] = "session"]
      /\ stop' = stop /\ Holds' = Holds => Thread!EnterSession(c)
  BY Zenon DEF Thread!EnterSession, Thread!Become, Life, LifeAt, Holds
<1>2. Life[c] = "session" /\ Holds' = Holds \cup {c} /\ stop' = stop /\ Life' = Life
      => Thread!Hold(c)
  BY Zenon DEF Thread!Hold, Life, LifeAt, Holds
<1>3. /\ Life[c] = "session" /\ Holds' = Holds \ {c} /\ stop' = stop
      /\ \/ Life' = [Life EXCEPT ![c] = "loop"]
         \/ Life' = [Life EXCEPT ![c] = "raised"]
         \/ stop /\ Life' = [Life EXCEPT ![c] = "returned"]
      => Thread!LeaveSession(c)
  BY Zenon DEF Thread!LeaveSession, Thread!Become, Thread!Release, Life, LifeAt, Holds
<1>4. Life[c] = "loop" /\ stop /\ Life' = [Life EXCEPT ![c] = "returned"]
      /\ stop' = stop /\ Holds' = Holds => Thread!Return(c)
  BY Zenon DEF Thread!Return, Thread!Become, Life, LifeAt, Holds
<1> QED
  BY Zenon, <1>1, <1>2, <1>3, <1>4

\* What a step of ConsumerThread is
ThreadNext ==
    (\E c \in Consumers : Thread!ThreadStep(c)) \/ Thread!LetGo \/ Thread!SetStop

\* The checks of stop begin a session or end consume().
LEMMA CheckStopRefines ==
  ASSUME Inv, Inv', NEW c \in Consumers, CheckStop(c)
  PROVE  ThreadNext
<1>1. TypeOK /\ pc[c] = "loop" /\ UNCHANGED <<stop, unacked, subscribed>>
  BY DEF Inv, CheckStop, serving, messages
<1>2. Life' = [Life EXCEPT ![c] = LifeAt(pc'[c])]
  BY LifeMoves, <1>1 DEF TypeOK, CheckStop, Goto
<1>3. pc'[c] = IF stop THEN "done" ELSE "connect"
  BY <1>1 DEF TypeOK, CheckStop, Goto
<1>4. Life[c] = "loop" /\ Holds' = Holds
  BY <1>1, LivesOfLocations DEF Life, Holds
<1>5. CASE stop
  BY <1>1, <1>2, <1>3, <1>4, <1>5, LivesOfLocations, ThreadSteps DEF ThreadNext, Thread!ThreadStep
<1>6. CASE ~stop
  BY <1>1, <1>2, <1>3, <1>4, <1>6, LivesOfLocations, ThreadSteps DEF ThreadNext, Thread!ThreadStep, Locations
<1> QED
  BY <1>5, <1>6

\* A connection refused and the finally clause end a session, and leave nothing behind.
LEMMA LeavingRefines ==
  ASSUME Inv, Inv', NEW c \in Consumers,
         pc[c] \in Locations \ {"loop", "backoff", "done", "dead"},
         pc'[c] \in {"backoff", "dead", "done"}, pc'[c] = "done" => stop, UNCHANGED stop,
         \A d \in Consumers : d # c =>
            pc'[d] = pc[d] /\ unacked'[d] = unacked[d] /\ (d \in subscribed' <=> d \in subscribed)
  PROVE  ThreadNext
<1>1. TypeOK /\ TypeOK'
  BY DEF Inv
<1>2. Life' = [Life EXCEPT ![c] = LifeAt(pc'[c])] /\ Life[c] = "session"
  BY <1>1, LifeMoves, LivesOfLocations DEF Life
<1>3. unacked'[c] = {} /\ c \notin subscribed'
  BY DEF Inv, ThreadsInv, Linked, Outside
<1>4. Holds' = Holds \ {c}
  BY <1>3 DEF Holds
<1>5. Thread!LeaveSession(c)
  BY <1>2, <1>4, LivesOfLocations, ThreadSteps
<1> QED
  BY <1>5 DEF ThreadNext, Thread!ThreadStep

\* The finally clause is the end of the session, whatever it finds of the channel: with no
\* exception on its way out, consume() returns, and stop was set.
LEMMA CleanupRefines ==
  ASSUME Inv, Inv', NEW c \in Consumers, Cleanup(c)
  PROVE  ThreadNext
<1>1. TypeOK /\ TypeOK' /\ pc[c] = "cleanup" /\ UNCHANGED stop
  BY DEF Inv, Cleanup
<1>2. /\ \A d \in Consumers : d # c => pc'[d] = pc[d]
      /\ pc'[c] \in {"backoff", "dead", "done"}
      /\ pc'[c] = "done" => exc[c] = "none"
  <2>1. ASSUME NEW e \in Exceptions, Leave(c, e)
        PROVE  /\ \A d \in Consumers : d # c => pc'[d] = pc[d]
               /\ pc'[c] = CASE e = "none" -> "done" [] e = "reconnectable" -> "backoff" [] OTHER -> "dead"
    BY <1>1, <2>1 DEF TypeOK, Leave, Goto
  <2>2. Leave(c, exc[c]) \/ Leave(c, "reconnectable")
    BY DEF Cleanup
  <2>3. exc[c] \in Exceptions /\ "reconnectable" \in Exceptions
    BY <1>1 DEF TypeOK, Exceptions
  <2> QED
    BY <2>1, <2>2, <2>3
<1>3. pc'[c] = "done" => stop
  BY <1>1, <1>2 DEF Inv, ThreadsInv, EndsOnStop
<1>4. ASSUME NEW d \in Consumers, d # c
      PROVE  unacked'[d] = unacked[d] /\ (d \in subscribed' <=> d \in subscribed)
  <2>1. CASE UNCHANGED <<serving, messages>>
    BY <2>1 DEF serving, messages
  <2>2. CASE CloseChannels({c})
    BY <1>1, <1>4, <2>2, OtherChannels
  <2> QED
    BY <2>1, <2>2 DEF Cleanup, ReleaseChannel
<1> QED
  BY <1>1, <1>2, <1>3, <1>4, LeavingRefines DEF Locations

\* Connecting either fails, which ends the session at once, or goes on.
LEMMA ConnectRefines ==
  ASSUME Inv, Inv', NEW c \in Consumers, GetConnection(c) \/ OpenChannel(c)
  PROVE  ThreadNext
<1>1. /\ TypeOK /\ TypeOK' /\ UNCHANGED <<stop, subscribed, messages>>
      /\ pc[c] \in {"connect", "channel"} /\ pc'[c] \in {"channel", "declare", "backoff"}
      /\ \A d \in Consumers : d # c => pc'[d] = pc[d]
  BY DEF Inv, TypeOK, GetConnection, OpenChannel, Goto, ThrowOutside
<1>2. CASE pc'[c] = "backoff"
  BY <1>1, <1>2, LeavingRefines DEF Locations, messages
<1>3. CASE pc'[c] # "backoff"
  <2>1. Life' = Life
    BY <1>1, <1>3, LifeKept, LivesOfLocations DEF Locations
  <2>2. Holds' = Holds
    BY <1>1 DEF Holds, messages
  <2> QED
    BY <1>1, <2>1, <2>2, LetsGo DEF ThreadNext
<1> QED
  BY <1>2, <1>3

\* Within a session, a thread subscribes, or settles or loses what it holds.
LEMMA SessionRefines ==
  ASSUME Inv, Inv', NEW c \in Consumers,
         \/ DeclareQueue(c) \/ SetQos(c) \/ Subscribe(c) \/ PollStop(c)
         \/ ProcessDataEvents(c) \/ Dispatch(c) \/ Handler(c) \/ Nack(c)
  PROVE  ThreadNext
<1> DEFINE Within == {"declare", "qos", "subscribe", "poll", "events", "dispatch", "handler",
                      "nack", "cleanup"}
<1>1. TypeOK /\ TypeOK' /\ UNCHANGED stop
  BY DEF Inv, DeclareQueue, SetQos, Subscribe, PollStop, ProcessDataEvents, Dispatch, Handler, Nack
<1>2. pc[c] \in Within
  BY DEF DeclareQueue, SetQos, Subscribe, PollStop, ProcessDataEvents, Dispatch, Handler, Nack
<1>3. \E l \in Within : Goto(c, l)
  <2>1. CASE DeclareQueue(c) \/ SetQos(c) \/ Subscribe(c)
    BY <2>1 DEF DeclareQueue, SetQos, Subscribe, SessionIOFails, ThrowInSession
  <2>2. CASE PollStop(c) \/ ProcessDataEvents(c) \/ Dispatch(c)
    BY <2>2 DEF PollStop, AfterPoll, ProcessDataEvents, Dispatch, SessionIOFails, ThrowInSession
  <2>3. CASE Handler(c)
    <3>1. PICK raises \in BOOLEAN : AfterHandler(c, raises)
      BY <2>3 DEF Handler, HandlerAcks
    <3> QED
      BY <3>1 DEF AfterHandler
  <2>4. CASE Nack(c)
    BY <2>4 DEF Nack, SessionIOFails, ThrowInSession
  <2> QED
    BY <2>1, <2>2, <2>3, <2>4
<1>4. \A d \in Consumers : d # c => pc'[d] = pc[d]
  BY <1>1, <1>3 DEF TypeOK, Goto
<1>5. pc'[c] \in Within
  BY <1>1, <1>3 DEF TypeOK, Goto
<1>6. Life' = Life /\ Life[c] = "session"
  BY <1>1, <1>2, <1>4, <1>5, LifeKept, LivesOfLocations DEF Locations, Life
<1>7. CASE subscribed' = subscribed \cup {c} /\ UNCHANGED messages
  <2>1. Holds' = Holds \cup {c}
    BY <1>7 DEF Holds, messages
  <2> QED
    BY <1>1, <1>6, <2>1, ThreadSteps DEF ThreadNext, Thread!ThreadStep
<1>8. CASE /\ subscribed' \subseteq subscribed
           /\ \A d \in Consumers : unacked'[d] \subseteq unacked[d]
  <2>1. Holds' \subseteq Holds
    BY <1>8 DEF Holds
  <2> QED
    BY <1>1, <1>6, <2>1, LetsGo DEF ThreadNext
<1>9. CASE CloseChannels({c})
  BY <1>1, <1>8, <1>9 DEF TypeOK, CloseChannels, Requeue
<1>10. CASE UNCHANGED <<subscribed, messages>>
  BY <1>8, <1>10 DEF messages
<1>11. CASE UNCHANGED subscribed /\ \E m \in Messages : unacked' = [unacked EXCEPT ![c] = @ \ {m}]
  BY <1>1, <1>8, <1>11 DEF TypeOK
<1>12. CASE DeclareQueue(c) \/ SetQos(c) \/ Subscribe(c)
  BY <1>7, <1>9, <1>10, <1>12 DEF DeclareQueue, SetQos, Subscribe, SessionIOFails, serving
<1>13. CASE PollStop(c) \/ ProcessDataEvents(c) \/ Dispatch(c)
  BY <1>10, <1>13 DEF PollStop, ProcessDataEvents, Dispatch, SessionIOFails, serving
<1>14. CASE Handler(c) \/ Nack(c)
  <2>1. current[c] \in Messages
    BY <1>14 DEF Inv, ThreadsInv, AtHand, Handler, Nack
  <2> QED
    BY <1>9, <1>10, <1>11, <1>14, <2>1 DEF Handler, HandlerAcks, Nack, SessionIOFails, serving, messages
<1> QED
  BY <1>12, <1>13, <1>14

\* The broker and the network only take holds away, and stop is set from outside: a
\* delivery goes to a consumer that is subscribed, which has a hold already.
LEMMA EnvironmentRefines ==
  ASSUME Inv, Inv', Environment
  PROVE  ThreadNext
<1>1. CASE SetStop
  BY <1>1, Zenon DEF SetStop, ThreadNext, Thread!SetStop, thread, serving, messages
<1>2. ASSUME Holds' \subseteq Holds, UNCHANGED <<stop, pc>> PROVE ThreadNext
  BY <1>2, LetsGo DEF ThreadNext, Life
<1>3. ASSUME NEW c \in Consumers, NEW m \in Messages, Deliver(c, m) PROVE ThreadNext
  <2>1. c \in subscribed /\ \A d \in Consumers : d # c => unacked'[d] = unacked[d]
    BY <1>3 DEF Inv, TypeOK, Deliver, HeldUntilSettled
  <2>2. UNCHANGED <<stop, pc, subscribed>>
    BY <1>3 DEF Deliver, thread, serving
  <2> QED
    BY <1>2, <2>1, <2>2 DEF Holds
<1>4. ASSUME NEW C \in SUBSET Consumers, subscribed' \subseteq subscribed, Requeue(C),
             UNCHANGED <<stop, pc>>
      PROVE  ThreadNext
  BY <1>2, <1>4 DEF Requeue, Holds
<1>5. ASSUME NEW c \in Consumers, LoseConnection(c) \/ BrokerClosesChannel(c) PROVE ThreadNext
  BY <1>4, <1>5 DEF LoseConnection, LoseConnections, BrokerClosesChannel, CloseChannels, thread
<1>6. CASE BrokerStops
  BY <1>4, <1>6 DEF BrokerStops, LoseConnections, thread
<1>7. CASE (\E c \in Consumers : BrokerCancels(c)) \/ BrokerStarts \/ QueueFixed
  BY <1>2, <1>7 DEF BrokerCancels, BrokerStarts, QueueFixed, Holds, thread, serving, messages
<1> QED
  BY <1>1, <1>3, <1>5, <1>6, <1>7 DEF Environment

\* Consumer implements what start_consumers relies on: a session begins only while stop is
\* not set, consume() returns only because of stop, and whoever ends or waits holds nothing
\* on the broker.
THEOREM ThreadImplemented == Spec => ImplementsThread
<1>1. Init => Thread!ThreadInit
  BY LivesOfLocations DEF Init, Thread!ThreadInit, LifeAt
<1>2. Inv /\ Inv' /\ [Next]_vars => [ThreadNext]_(Thread!threadVars)
  <2> SUFFICES ASSUME Inv, Inv', [Next]_vars PROVE ThreadNext \/ UNCHANGED Thread!threadVars
    BY DEF ThreadNext
  <2>1. ASSUME NEW c \in Consumers, Step(c) PROVE ThreadNext \/ UNCHANGED Thread!threadVars
    <3>1. CASE Backoff(c)
      <4>1. Life' = Life
        BY <3>1, LifeKept, LivesOfLocations DEF Inv, TypeOK, Backoff, Goto
      <4>2. Holds' = Holds /\ UNCHANGED stop
        BY <3>1 DEF Backoff, Holds, serving, messages
      <4> QED
        BY <4>1, <4>2, LetsGo DEF ThreadNext
    <3> QED
      BY <2>1, <3>1, CheckStopRefines, ConnectRefines, SessionRefines, CleanupRefines DEF Step
  <2>2. CASE Environment
    BY <2>2, EnvironmentRefines
  <2>3. CASE UNCHANGED vars
    BY <2>3, Zenon DEF vars, thread, serving, messages, Thread!threadVars
  <2> QED
    BY <2>1, <2>2, <2>3 DEF Next, AllOver
<1> QED
  BY <1>1, <1>2, Invariant, PTL DEF Spec, ImplementsThread, Thread!ThreadSpec, ThreadNext

=============================================================================
