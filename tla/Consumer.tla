------------------------------ MODULE Consumer ------------------------------
(***************************************************************************)
(* Consuming: Consumer.consume, _run_session and _dispatch (consumer.py)   *)
(* on the consumer slot of RabbitMQConnectionManager (connections.py).     *)
(*                                                                         *)
(* Consumers compete for one queue; each runs consume() in its own thread  *)
(* with its own connection.  stop is the event shared by all of them.      *)
(*                                                                         *)
(* As in Producer, conn and chan are what is_open answers and connUp and   *)
(* chanUp what the broker still serves.  Handlers are external: they may   *)
(* settle, raise, do both or neither.                                      *)
(***************************************************************************)
EXTENDS Integers, FiniteSets

CONSTANTS
    Consumers,       \* threads that run consume(), one Consumer instance each
    Messages,        \* what is in the queue
    NoMessage,       \* no message is being handled
    Prefetch,        \* prefetch_count
    InitialBackoff,  \* reconnect_initial_backoff
    MaxBackoff,      \* reconnect_max_backoff
    HandlerOutcomes, \* what handlers do, of the four below
    DatabaseFails,   \* close_old_connections() may raise
    MaxFaults        \* bound on the environment's disturbances

ASSUME ConsumerAssumption ==
    /\ Prefetch \in Nat \ {0}
    /\ InitialBackoff \in Nat /\ MaxBackoff \in Nat
    /\ HandlerOutcomes \subseteq {"ack", "ackThenRaise", "raise", "forget"}
    /\ DatabaseFails \in BOOLEAN
    /\ NoMessage \notin Messages
    /\ MaxFaults \in Nat

VARIABLES
    \* each consumer thread: where it is, the exception on its way out, the
    \* message its handler runs on, the local variable backoff
    pc, exc, current, backoff,
    \* its connection and channel, as is_open sees them, and deliveries received
    \* and not yet dispatched
    conn, chan, inbox,
    \* the stop event
    stop,
    \* the broker: is it up, can the queue be declared as asked, what it serves,
    \* which channels have a prefetch limit and a subscription
    brokerUp, queue, connUp, chanUp, limited, subscribed,
    \* where each message is: in the queue, delivered and not settled, acked, or
    \* nacked without requeue (dead-lettered if the queue has a DLX)
    ready, unacked, acked, dead,
    \* history: handler runs, returns to the queue with a channel, handlers that raised
    runs, requeues, raised,
    faults

thread == <<pc, exc, current, backoff>>
views == <<conn, chan, inbox>>
serving == <<connUp, chanUp, limited, subscribed>>
messages == <<ready, unacked, acked, dead, requeues>>
vars == <<thread, views, stop, brokerUp, queue, serving, messages, runs, raised, faults>>

Locations == {"loop", "connect", "channel", "declare", "qos", "subscribe", "poll", "events",
              "dispatch", "handler", "nack", "cleanup", "backoff", "done", "dead"}
Exceptions == {"none", "reconnectable", "wrongstate", "database"}
Views == {"none", "open", "closed"}

TypeOK ==
    /\ pc \in [Consumers -> Locations]
    /\ exc \in [Consumers -> Exceptions]
    /\ current \in [Consumers -> Messages \cup {NoMessage}]
    /\ backoff \in [Consumers -> Nat]
    /\ conn \in [Consumers -> Views] /\ chan \in [Consumers -> Views]
    /\ inbox \in [Consumers -> SUBSET Messages]
    /\ stop \in BOOLEAN /\ brokerUp \in BOOLEAN
    /\ queue \in {"ok", "conflict"}
    /\ connUp \in SUBSET Consumers /\ chanUp \in SUBSET Consumers
    /\ limited \in SUBSET Consumers /\ subscribed \in SUBSET Consumers
    /\ ready \in SUBSET Messages /\ acked \in SUBSET Messages /\ dead \in SUBSET Messages
    /\ unacked \in [Consumers -> SUBSET Messages]
    /\ runs \in [Messages -> Nat] /\ requeues \in [Messages -> Nat]
    /\ raised \in SUBSET Messages
    /\ faults \in Nat

-----------------------------------------------------------------------------
(* Helpers *)

Served(c) == c \in connUp \cap chanUp

Goto(c, l) == pc' = [pc EXCEPT ![c] = l]

\* An exception leaves the session for its finally clause
ThrowInSession(c, e) ==
    /\ Goto(c, "cleanup")
    /\ exc' = [exc EXCEPT ![c] = e]

\* ... or leaves _run_session before its try: consume() waits and retries
ThrowOutside(c) == Goto(c, "backoff")

\* The deliveries not dispatched go with the channel they came on
DiscardDeliveries(c) == inbox' = [inbox EXCEPT ![c] = {}]

\* I/O finds the connection lost, and every channel with it ...
NoticesLostConnection(c) ==
    /\ c \notin connUp
    /\ conn' = [conn EXCEPT ![c] = "closed"]
    /\ chan' = [chan EXCEPT ![c] = "closed"]
    /\ DiscardDeliveries(c)

\* ... or the channel closed by the broker
NoticesClosedChannel(c) ==
    /\ c \notin chanUp
    /\ chan' = [chan EXCEPT ![c] = "closed"]
    /\ DiscardDeliveries(c)
    /\ UNCHANGED conn

\* A blocking call of the channel raises either
NoticesLoss(c) == NoticesLostConnection(c) \/ NoticesClosedChannel(c)

\* The broker takes back what the consumers in C hold
Requeue(C) ==
    LET back == UNION {unacked[c] : c \in C} IN
    /\ ready' = ready \cup back
    /\ unacked' = [c \in Consumers |-> IF c \in C THEN {} ELSE unacked[c]]
    /\ requeues' = [m \in Messages |-> IF m \in back THEN requeues[m] + 1 ELSE requeues[m]]
    /\ UNCHANGED <<acked, dead>>

\* ... for it closes their channels
CloseChannels(C) ==
    /\ chanUp' = chanUp \ C
    /\ limited' = limited \ C
    /\ subscribed' = subscribed \ C
    /\ Requeue(C)

Smaller(a, b) == IF a <= b THEN a ELSE b

-----------------------------------------------------------------------------
(* The thread: consume() *)

\* while not stop_event.is_set()
CheckStop(c) ==
    /\ pc[c] = "loop"
    /\ Goto(c, IF stop THEN "done" ELSE "connect")
    /\ UNCHANGED <<exc, current, backoff, views, stop, brokerUp, queue, serving, messages,
                   runs, raised, faults>>

\* Faulty: the delay shrinks
ShrunkBackoff(b) == b * 2 - MaxBackoff

\* Line 194
NextBackoff(b) == Smaller(b * 2, MaxBackoff)

\* A reconnectable error was caught: wait, or be woken by stop, then double the delay
Backoff(c) ==
    /\ pc[c] = "backoff"
    /\ backoff' = [backoff EXCEPT ![c] = NextBackoff(@)]
    /\ Goto(c, "loop")
    /\ UNCHANGED <<exc, current, views, stop, brokerUp, queue, serving, messages, runs,
                   raised, faults>>

-----------------------------------------------------------------------------
(* The thread: _run_session() *)

\* get_consumer_connection(): an open connection is reused, whatever ended the last session
GetConnection(c) ==
    /\ pc[c] = "connect"
    /\ \/ /\ conn[c] = "open"
          /\ Goto(c, "channel")
          /\ UNCHANGED <<conn, connUp, chanUp>>
       \/ /\ conn[c] # "open" /\ brokerUp
          /\ conn' = [conn EXCEPT ![c] = "open"]
          /\ connUp' = connUp \cup {c}
          /\ chanUp' = chanUp \ {c}
          /\ Goto(c, "channel")
       \/ /\ conn[c] # "open" /\ ~brokerUp
          /\ ThrowOutside(c)
          /\ UNCHANGED <<conn, connUp, chanUp>>
    /\ UNCHANGED <<exc, current, backoff, chan, inbox, stop, brokerUp, queue, limited,
                   subscribed, messages, runs, raised, faults>>

\* connection.channel(), still outside the try
OpenChannel(c) ==
    /\ pc[c] = "channel"
    /\ \/ /\ c \in connUp
          /\ chan' = [chan EXCEPT ![c] = "open"]
          /\ chanUp' = chanUp \cup {c}
          /\ Goto(c, "declare")
          /\ UNCHANGED conn
       \/ /\ c \notin connUp
          /\ conn' = [conn EXCEPT ![c] = "closed"]
          /\ ThrowOutside(c)
          /\ UNCHANGED <<chan, chanUp>>
    /\ UNCHANGED <<exc, current, backoff, inbox, stop, brokerUp, queue, connUp, limited,
                   subscribed, messages, runs, raised, faults>>

\* I/O of the session that fails
SessionIOFails(c) ==
    /\ NoticesLoss(c)
    /\ ThrowInSession(c, "reconnectable")
    /\ UNCHANGED <<serving, messages>>

\* _declare_queue(), always active; a refused declaration closes the channel
DeclareQueue(c) ==
    /\ pc[c] = "declare"
    /\ \/ /\ Served(c) /\ queue = "ok"
          /\ Goto(c, "qos")
          /\ UNCHANGED <<exc, views, serving, messages>>
       \/ /\ Served(c) /\ queue = "conflict"
          /\ chan' = [chan EXCEPT ![c] = "closed"]
          /\ CloseChannels({c})
          /\ ThrowInSession(c, "reconnectable")
          /\ UNCHANGED <<conn, inbox, connUp>>
       \/ SessionIOFails(c)
    /\ UNCHANGED <<current, backoff, stop, brokerUp, queue, runs, raised, faults>>

\* Faulty: no basic_qos
NoQos(c) == UNCHANGED limited

\* The broker limits the channel to prefetch_count deliveries from now on
LimitChannel(c) == limited' = limited \cup {c}

\* basic_qos(prefetch_count)
SetQos(c) ==
    /\ pc[c] = "qos"
    /\ \/ /\ Served(c)
          /\ LimitChannel(c)
          /\ Goto(c, "subscribe")
          /\ UNCHANGED <<exc, views, connUp, chanUp, subscribed, messages>>
       \/ SessionIOFails(c)
    /\ UNCHANGED <<current, backoff, stop, brokerUp, queue, runs, raised, faults>>

\* basic_consume()
Subscribe(c) ==
    /\ pc[c] = "subscribe"
    /\ \/ /\ Served(c)
          /\ subscribed' = subscribed \cup {c}
          /\ Goto(c, "poll")
          /\ UNCHANGED <<exc, views, connUp, chanUp, limited, messages>>
       \/ SessionIOFails(c)
    /\ UNCHANGED <<current, backoff, stop, brokerUp, queue, runs, raised, faults>>

\* Faulty: the consume loop does not look at stop_event
NeverStops(c) == "events"

\* Where line 240 goes: once stop is set, to the finally clause with no exception
AfterPoll(c) == IF stop THEN "cleanup" ELSE "events"

\* while not stop_event.is_set(), inside the session
PollStop(c) ==
    /\ pc[c] = "poll"
    /\ Goto(c, AfterPoll(c))
    /\ UNCHANGED <<exc, current, backoff, views, stop, brokerUp, queue, serving, messages,
                   runs, raised, faults>>

\* process_data_events(time_limit=1): dispatch what has arrived, if anything, before
\* the loop looks at stop again.  With deliveries at hand it may not touch the
\* socket; without, it notices a lost connection.  It is a call of the connection: a
\* channel closed by the broker is noted and raises nothing.
ProcessDataEvents(c) ==
    /\ pc[c] = "events"
    /\ \/ /\ inbox[c] # {} \/ c \in connUp
          /\ Goto(c, IF inbox[c] = {} THEN "poll" ELSE "dispatch")
          /\ UNCHANGED <<exc, views>>
       \/ /\ chan[c] = "open" /\ NoticesClosedChannel(c)
          /\ Goto(c, "poll")
          /\ UNCHANGED exc
       \/ /\ NoticesLostConnection(c)
          /\ ThrowInSession(c, "reconnectable")
    /\ UNCHANGED <<serving, messages>>
    /\ UNCHANGED <<current, backoff, stop, brokerUp, queue, runs, raised, faults>>

\* Faulty: the channel is left open when the session ends
LeaveChannel(c) == UNCHANGED <<serving, messages>>

\* stop_consuming() and close() took effect: the broker requeues what is not settled
ReleaseChannel(c) == CloseChannels({c}) /\ UNCHANGED connUp

\* What consume() does with what leaves the session
Leave(c, e) ==
    /\ exc' = [exc EXCEPT ![c] = IF e = "reconnectable" THEN "none" ELSE e]
    /\ Goto(c, CASE e = "none" -> "done" [] e = "reconnectable" -> "backoff" [] OTHER -> "dead")

\* The finally clause: a channel that looks open is cancelled and closed.  An error
\* of that replaces the exception on its way out.  The connection stays cached.
Cleanup(c) ==
    /\ pc[c] = "cleanup"
    /\ current' = [current EXCEPT ![c] = NoMessage]
    /\ \/ /\ chan[c] # "open"
          /\ Leave(c, exc[c])
          /\ UNCHANGED <<views, serving, messages>>
       \/ /\ chan[c] = "open" /\ Served(c)
          /\ ReleaseChannel(c)
          /\ chan' = [chan EXCEPT ![c] = "closed"]
          /\ DiscardDeliveries(c)
          /\ Leave(c, exc[c])
          /\ UNCHANGED conn
       \/ /\ chan[c] = "open"
          /\ NoticesLoss(c)
          /\ Leave(c, "reconnectable")
          /\ UNCHANGED <<serving, messages>>
    /\ UNCHANGED <<backoff, stop, brokerUp, queue, runs, raised, faults>>

-----------------------------------------------------------------------------
(* The thread: _dispatch() *)

\* The next delivery at hand; when there is none, back to the loop.  The check of
\* the database connections is outside the try: if it raises, nothing is nacked
\* and the exception ends the session.
Dispatch(c) ==
    /\ pc[c] = "dispatch"
    /\ \/ /\ inbox[c] = {}
          /\ Goto(c, "poll")
          /\ UNCHANGED <<exc, current, inbox, runs>>
       \/ \E m \in inbox[c] :
          /\ inbox' = [inbox EXCEPT ![c] = @ \ {m}]
          /\ current' = [current EXCEPT ![c] = m]
          /\ \/ /\ Goto(c, "handler")
                /\ runs' = [runs EXCEPT ![m] = @ + 1]
                /\ UNCHANGED exc
             \/ /\ DatabaseFails
                /\ ThrowInSession(c, "database")
                /\ UNCHANGED runs
    /\ UNCHANGED <<backoff, conn, chan, stop, brokerUp, queue, serving, messages, raised, faults>>

\* Faulty: the message is nacked whether the handler raised or not
NackedAnyway(c, raises) ==
    /\ Goto(c, "nack")
    /\ raised' = IF raises THEN raised \cup {current[c]} ELSE raised
    /\ UNCHANGED current

\* Faulty: a handler that raised is only logged
OnlyLogged(c, raises) ==
    /\ Goto(c, "dispatch")
    /\ raised' = IF raises THEN raised \cup {current[c]} ELSE raised
    /\ current' = [current EXCEPT ![c] = NoMessage]

\* The handler ran to its end, or raised
AfterHandler(c, raises) ==
    /\ Goto(c, IF raises THEN "nack" ELSE "dispatch")
    /\ raised' = IF raises THEN raised \cup {current[c]} ELSE raised
    /\ current' = [current EXCEPT ![c] = IF raises THEN @ ELSE NoMessage]

\* basic_ack from the handler: the broker takes it; or the loss is noticed and the
\* handler raises; or the frame is lost unnoticed
HandlerAcks(c, raises) ==
    \/ /\ Served(c)
       /\ acked' = acked \cup {current[c]}
       /\ unacked' = [unacked EXCEPT ![c] = @ \ {current[c]}]
       /\ AfterHandler(c, raises)
       /\ UNCHANGED <<ready, dead, requeues, views>>
    \/ /\ NoticesLoss(c)
       /\ AfterHandler(c, TRUE)
       /\ UNCHANGED messages
    \/ /\ ~Served(c)
       /\ AfterHandler(c, raises)
       /\ UNCHANGED <<messages, views>>

Handler(c) ==
    /\ pc[c] = "handler"
    /\ \E outcome \in HandlerOutcomes :
       \/ outcome = "ack" /\ HandlerAcks(c, FALSE)
       \/ outcome = "ackThenRaise" /\ HandlerAcks(c, TRUE)
       \/ outcome = "raise" /\ AfterHandler(c, TRUE) /\ UNCHANGED <<messages, views>>
       \/ outcome = "forget" /\ AfterHandler(c, FALSE) /\ UNCHANGED <<messages, views>>
    /\ UNCHANGED <<exc, backoff, stop, brokerUp, queue, serving, runs, faults>>

\* Faulty: basic_nack puts the message back in the queue
NackToQueue(m) == ready' = ready \cup {m} /\ UNCHANGED dead

\* basic_nack(requeue=False)
NackToDeadLetter(m) == dead' = dead \cup {m} /\ UNCHANGED ready

\* Lines 312-313.  On a channel already known to be closed the nack raises
\* ChannelWrongStateError, which consume() does not reconnect on.  A delivery that
\* the handler had settled makes the broker close the channel.
Nack(c) ==
    LET m == current[c] IN
    /\ pc[c] = "nack"
    /\ current' = [current EXCEPT ![c] = NoMessage]
    /\ \/ /\ chan[c] # "open"
          /\ ThrowInSession(c, "wrongstate")
          /\ UNCHANGED <<views, serving, messages>>
       \/ /\ chan[c] = "open" /\ Served(c) /\ m \in unacked[c]
          /\ NackToDeadLetter(m)
          /\ unacked' = [unacked EXCEPT ![c] = @ \ {m}]
          /\ Goto(c, "dispatch")
          /\ UNCHANGED <<exc, views, serving, acked, requeues>>
       \/ /\ chan[c] = "open" /\ Served(c) /\ m \notin unacked[c]
          /\ CloseChannels({c})
          /\ Goto(c, "dispatch")
          /\ UNCHANGED <<exc, views, connUp>>
       \/ /\ chan[c] = "open" /\ ~Served(c)
          /\ Goto(c, "dispatch")
          /\ UNCHANGED <<exc, views, serving, messages>>
       \/ /\ chan[c] = "open" /\ SessionIOFails(c)
    /\ UNCHANGED <<backoff, stop, brokerUp, queue, runs, raised, faults>>

-----------------------------------------------------------------------------
(* External: the broker, the network, the process *)

\* Faulty: subscribed with auto_ack
AckedOnDelivery(c, m) == acked' = acked \cup {m} /\ UNCHANGED unacked

\* basic_consume() without auto_ack: the broker keeps what it delivered until it is
\* settled
HeldUntilSettled(c, m) ==
    unacked' = [unacked EXCEPT ![c] = @ \cup {m}] /\ UNCHANGED acked

\* A message of the queue goes to a subscribed channel with room
Deliver(c, m) ==
    /\ m \in ready /\ c \in subscribed /\ Served(c)
    /\ c \in limited => Cardinality(unacked[c]) < Prefetch
    /\ ready' = ready \ {m}
    /\ HeldUntilSettled(c, m)
    /\ inbox' = [inbox EXCEPT ![c] = @ \cup {m}]
    /\ UNCHANGED <<thread, conn, chan, stop, brokerUp, queue, serving, dead, requeues,
                   runs, raised, faults>>

Disturb == faults < MaxFaults /\ faults' = faults + 1

\* The connections of C are gone on the broker's side, the threads do not know yet
LoseConnections(C) ==
    /\ connUp' = connUp \ C
    /\ limited' = limited \ C
    /\ subscribed' = subscribed \ C
    /\ Requeue(C)
    /\ UNCHANGED <<thread, views, stop, queue, chanUp, runs, raised>>

LoseConnection(c) ==
    /\ Disturb /\ c \in connUp
    /\ LoseConnections({c})
    /\ UNCHANGED brokerUp

BrokerStops ==
    /\ Disturb /\ brokerUp
    /\ brokerUp' = FALSE
    /\ LoseConnections(Consumers)

BrokerStarts ==
    /\ ~brokerUp /\ brokerUp' = TRUE
    /\ UNCHANGED <<thread, views, stop, queue, serving, messages, runs, raised, faults>>

BrokerClosesChannel(c) ==
    /\ Disturb /\ Served(c)
    /\ CloseChannels({c})
    /\ UNCHANGED <<thread, views, stop, brokerUp, queue, connUp, runs, raised>>

\* basic.cancel from the broker (the queue was deleted or moved): pika takes note,
\* and no call of the session reports it
BrokerCancels(c) ==
    /\ Disturb /\ c \in subscribed
    /\ subscribed' = subscribed \ {c}
    /\ UNCHANGED <<thread, views, stop, brokerUp, queue, connUp, chanUp, limited, messages,
                   runs, raised>>

\* The conflicting declaration is put right by its owner
QueueFixed ==
    /\ queue = "conflict" /\ queue' = "ok"
    /\ UNCHANGED <<thread, views, stop, brokerUp, serving, messages, runs, raised, faults>>

\* SIGINT or SIGTERM reaches the command
SetStop ==
    /\ ~stop /\ stop' = TRUE
    /\ UNCHANGED <<thread, views, brokerUp, queue, serving, messages, runs, raised, faults>>

-----------------------------------------------------------------------------

Init ==
    /\ pc = [c \in Consumers |-> "loop"]
    /\ exc = [c \in Consumers |-> "none"]
    /\ current = [c \in Consumers |-> NoMessage]
    /\ backoff = [c \in Consumers |-> InitialBackoff]
    /\ conn = [c \in Consumers |-> "none"] /\ chan = [c \in Consumers |-> "none"]
    /\ inbox = [c \in Consumers |-> {}]
    /\ stop = FALSE /\ brokerUp = TRUE
    /\ queue \in {"ok", "conflict"}
    /\ connUp = {} /\ chanUp = {} /\ limited = {} /\ subscribed = {}
    /\ ready = Messages /\ acked = {} /\ dead = {}
    /\ unacked = [c \in Consumers |-> {}]
    /\ runs = [m \in Messages |-> 0] /\ requeues = [m \in Messages |-> 0]
    /\ raised = {}
    /\ faults = 0

Step(c) ==
    \/ CheckStop(c) \/ Backoff(c)
    \/ GetConnection(c) \/ OpenChannel(c) \/ DeclareQueue(c) \/ SetQos(c) \/ Subscribe(c)
    \/ PollStop(c) \/ ProcessDataEvents(c) \/ Cleanup(c)
    \/ Dispatch(c) \/ Handler(c) \/ Nack(c)

Environment ==
    \/ \E c \in Consumers :
        \/ \E m \in Messages : Deliver(c, m)
        \/ LoseConnection(c) \/ BrokerClosesChannel(c) \/ BrokerCancels(c)
    \/ BrokerStops \/ BrokerStarts \/ QueueFixed \/ SetStop

Over(c) == pc[c] \in {"done", "dead"}

\* All the threads have ended
AllOver == (\A c \in Consumers : Over(c)) /\ UNCHANGED vars

Next == (\E c \in Consumers : Step(c)) \/ Environment \/ AllOver

Spec == Init /\ [][Next]_vars

\* Threads are scheduled, handlers return, a broker that is down comes back and
\* hands out what it holds
Fairness ==
    /\ \A c \in Consumers : WF_vars(Step(c))
    /\ WF_vars(BrokerStarts)
    /\ WF_vars(\E c \in Consumers, m \in Messages : Deliver(c, m))
FairSpec == Spec /\ Fairness

-----------------------------------------------------------------------------
(* Properties *)

\* At least once: no message is lost, whatever fails between its delivery and its
\* settlement; it leaves for good only after a handler ran on it, and never returns.
AtLeastOnce ==
    \A m \in Messages :
        LET held == \E c \in Consumers : m \in unacked[c] IN
        /\ m \in ready \cup acked \cup dead \/ held
        /\ m \in acked \cup dead => runs[m] > 0 /\ m \notin ready /\ ~held

\* Handlers that raise do not make a message circulate: it is handled again only
\* after a channel went away with it unsettled.
NoPoisonLoop == \A m \in Messages : runs[m] <= requeues[m] + 1

\* Only a handler that raised sends its message to the dead letters: losing the
\* connection, stopping or dying never does.
DeadLettersWereRaised == dead \subseteq raised

\* The channel never holds more unsettled deliveries than prefetch_count.
WithinPrefetch == \A c \in Consumers : Cardinality(unacked[c]) <= Prefetch

\* Between sessions, after the stop and after an error nothing is left behind on a
\* channel: the broker could not give it to another consumer for the whole wait.
NothingStranded ==
    \A c \in Consumers :
        pc[c] \in {"loop", "connect", "channel", "backoff", "done", "dead"} =>
            unacked[c] = {} /\ c \notin subscribed

\* Once stop is set every consume() returns or has raised, whatever the broker does.
StopEndsConsumers == stop ~> \A c \in Consumers : Over(c)

\* Deaf: the loop polls a connection that works, but has no subscription on it any more,
\* since the broker cancelled it or closed the channel
Deaf(c) == pc[c] \in {"poll", "events"} /\ c \in connUp \ subscribed

\* Once the queue can be declared as asked, a message in it gets settled through any loss
\* of connections, refused declaration or consumer that died holding it, unless stop is
\* set or every consumer is dead or deaf for good.
MessagesAreSettled ==
    \A m \in Messages :
        queue = "ok" ~> \/ m \in acked \cup dead \/ stop
                        \/ [](\A c \in Consumers : Over(c) \/ Deaf(c))

\* What StartConsumers relies on: a session begins only while stop is not set, consume()
\* returns only because of stop, and whoever ends or waits holds nothing on the broker.
Thread == INSTANCE ConsumerThread WITH
    life <- [c \in Consumers |->
        CASE pc[c] = "done" -> "returned"
          [] pc[c] = "dead" -> "raised"
          [] pc[c] \in {"loop", "backoff"} -> "loop"
          [] OTHER -> "session"],
    holds <- {c \in Consumers : unacked[c] # {} \/ c \in subscribed}
ImplementsThread == Thread!ThreadSpec

\* "The consume loop reconnects on transient AMQP errors": a lost connection or
\* channel never ends a consumer.
TransientErrorsReconnect ==
    \A c \in Consumers : pc[c] = "dead" => exc[c] = "database"

\* "The consumer reconnects automatically on any error in _RECONNECTABLE_ERRORS", of which
\* ChannelClosedByBroker is one: a consumer whose channel was closed subscribes again.
ClosedChannelsReconnect ==
    \A c \in Consumers :
        pc[c] = "events" /\ c \notin chanUp ~> c \in subscribed \/ stop \/ Over(c)

=============================================================================
