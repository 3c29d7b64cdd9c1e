------------------------------ MODULE Producer ------------------------------
(***************************************************************************)
(* Publishing: Producer (producer.py) on top of the producer slots of      *)
(* RabbitMQConnectionManager (connections.py), against a RabbitMQ cluster. *)
(*                                                                         *)
(* One alias.  Every thread owns its two slots (threading.local): the      *)
(* cached connection and the cached channel.  A Producer instance is       *)
(* shared by the threads, and so is its flag _is_queue_declared.           *)
(*                                                                         *)
(* A slot has two sides: what pika's is_open answers (conn, chan) and      *)
(* whether the broker still serves it (connUp, chanUp).  The two differ    *)
(* after a fault until the thread next does I/O: that stale view is what   *)
(* the retry is for.                                                       *)
(*                                                                         *)
(* The broker, the network and pika's blocking calls are external: they    *)
(* are modelled as far as this code relies on them.                        *)
(***************************************************************************)
EXTENDS Integers

CONSTANTS
    Threads,      \* threads that call publish()
    Producers,    \* Producer instances
    Messages,     \* one publish() call each
    Nodes,        \* cluster nodes of the alias (NODES)
    Rank,         \* [Nodes -> Nat]: position in NODES
    ShuffleNodes, \* SHUFFLE_NODES
    QueueKind,    \* [Producers -> {"config", "name", "none"}]: the queue argument
    Durable,      \* the queue is durable: QueueConfig.durable, or as its owner declared it
    CallerMode,   \* [Messages -> {"unset", "persistent", "transient"}]: delivery_mode given
    MaxFaults     \* bound on the environment's disturbances

ASSUME NodesAssumption ==
    /\ Nodes # {}
    /\ Rank \in [Nodes -> Nat]
    /\ ShuffleNodes \in BOOLEAN
ASSUME CallAssumption ==
    /\ Producers # {} /\ Messages # {}
    /\ QueueKind \in [Producers -> {"config", "name", "none"}]
    /\ Durable \in BOOLEAN
    /\ CallerMode \in [Messages -> {"unset", "persistent", "transient"}]
ASSUME FaultAssumption == MaxFaults \in Nat

VARIABLES
    \* the thread inside publish()
    pc, job, attempt, err,
    \* thread-local slots of the connection manager, as is_open sees them, and the
    \* threads whose cached channel is in confirm mode
    conn, chan, confirms,
    \* the broker's side of the slots: the node of the connection, the threads
    \* whose connection, cached channel, new channel (line 184) the broker serves
    node, connUp, chanUp, freshUp,
    \* the Producer instances with _is_queue_declared set
    declared,
    \* what each publish() call came back with
    result,
    \* the broker: nodes up, the queue, confirms on their way, copies accepted,
    \* copies still in a dead connection's buffers, connections and channels held
    up, queue, reply, stored, limbo, sessions, channels,
    \* environment bookkeeping: disturbances per call and in all
    hits, faults

slots == <<conn, chan, confirms, node, connUp, chanUp, freshUp>>
client == <<pc, job, attempt, err, slots, declared, result>>
held == <<sessions, channels>>
broker == <<up, queue, reply, stored, limbo, held>>
vars == <<client, broker, hits, faults>>

Views == {"none", "open", "closed"}
Copy == [msg : Messages, try : Nat]
Job == [p : Producers, m : Messages]

Locations == {"idle", "connect", "channel", "confirm", "check", "declare", "send",
              "await", "failed", "resetChannel", "resetConnection"}

TypeOK ==
    /\ pc \in [Threads -> Locations]
    /\ job \in [Threads -> Job]
    /\ attempt \in [Threads -> Nat]
    /\ err \in [Threads -> {"none", "reconnectable", "other"}]
    /\ conn \in [Threads -> Views]
    /\ chan \in [Threads -> Views]
    /\ confirms \in SUBSET Threads
    /\ node \in [Threads -> Nodes]
    /\ connUp \in SUBSET Threads
    /\ chanUp \in SUBSET Threads
    /\ freshUp \in SUBSET Threads
    /\ declared \in SUBSET Producers
    /\ result \in [Messages -> {"new", "pending", "ok", "raised", "skipped", "typeerror"}]
    /\ up \in SUBSET Nodes
    /\ queue \in {"absent", "match", "conflict"}
    /\ reply \in [Threads -> {"none", "flight", "ack", "return", "nack"}]
    /\ stored \in SUBSET Copy
    /\ limbo \in SUBSET Copy
    /\ sessions \in [Threads -> Nat]
    /\ channels \in [Threads -> Nat]
    /\ hits \in [Threads -> Nat]
    /\ faults \in Nat

-----------------------------------------------------------------------------
(* Helpers *)

\* The thread's channel (the cached one, the new one) works in both directions
ChannelServed(t) == t \in chanUp \cap connUp
FreshServed(t) == t \in freshUp \cap connUp

\* pika marked the object closed
Closed(view) == IF view = "none" THEN "none" ELSE "closed"

\* The copy the call of t is sending
CopyOf(t) == [msg |-> job[t].m, try |-> attempt[t]]

\* The faulty variants of definitions, here and below, are plausible slips in the
\* code that the properties are checked to notice; nothing else uses them.

\* Faulty: an unset delivery_mode is left unset
UnforcedMode(m) == CallerMode[m]

\* delivery_mode as sent: an unset mode is forced to persistent
EffectiveMode(m) == IF CallerMode[m] = "unset" THEN "persistent" ELSE CallerMode[m]
Persistent(copy) == EffectiveMode(copy.msg) = "persistent"

\* A node that stops keeps the persistent messages of a durable queue
Survives(copy) == Durable /\ Persistent(copy)

\* What the application chose to be lost with a node
Volatile(m) == ~Durable \/ CallerMode[m] = "transient"

\* Nodes a new BlockingConnection may land on: pika walks the sequence and takes
\* the first node that answers; a shuffled sequence may start anywhere.
Reachable ==
    {n \in up : ShuffleNodes \/ \A k \in up : Rank[n] <= Rank[k]}

\* Faulty: a cached channel is taken without asking is_open
AnyCachedChannel(t) == chan[t] # "none"

\* The cached channel can be used: line 176
HasOpenChannel(t) == chan[t] = "open"

\* The channel is cached after confirm_delivery(): lines 188-189
WithConfirms(t) == confirms \cup {t}

\* Nothing to declare: exchange-only mode, or declared before
SkipsDeclare(p) == QueueKind[p] = "none" \/ p \in declared

\* The broker's answer to queue_declare: active for QueueConfig, passive for str
DeclareAccepted(p) ==
    IF QueueKind[p] = "config" THEN queue \in {"absent", "match"} ELSE queue # "absent"

\* is_open answers TRUE on something the broker has dropped
Stale(t) ==
    \/ conn[t] = "open" /\ t \notin connUp
    \/ chan[t] = "open" /\ t \notin chanUp

Goto(t, l) == pc' = [pc EXCEPT ![t] = l]

\* An exception leaves _publish_once for the handlers of publish()
Throw(t, e) ==
    /\ Goto(t, "failed")
    /\ err' = [err EXCEPT ![t] = e]

\* publish() is over for t
Leave(t, outcome) ==
    /\ Goto(t, "idle")
    /\ result' = [result EXCEPT ![job[t].m] = outcome]
    /\ attempt' = [attempt EXCEPT ![t] = 0]
    /\ err' = [err EXCEPT ![t] = "none"]
    /\ hits' = [hits EXCEPT ![t] = 0]

\* Blocking I/O finds the connection lost: pika closes it and all its channels
ConnectionLost(t) ==
    /\ t \notin connUp
    /\ conn' = [conn EXCEPT ![t] = Closed(@)]
    /\ chan' = [chan EXCEPT ![t] = Closed(@)]
    /\ chanUp' = chanUp \ {t}
    /\ freshUp' = freshUp \ {t}
    /\ Throw(t, "reconnectable")
    /\ UNCHANGED <<confirms, node, connUp>>

\* Blocking I/O on the cached channel finds that, or that the broker closed it
IOFails(t) ==
    \/ ConnectionLost(t)
    \/ /\ t \notin chanUp
       /\ chan' = [chan EXCEPT ![t] = Closed(@)]
       /\ Throw(t, "reconnectable")
       /\ UNCHANGED <<conn, confirms, node, connUp, chanUp, freshUp>>

-----------------------------------------------------------------------------
(* The thread: publish() and what it calls *)

\* publish() is entered: attempt 1 of the call
Publish(t, p, m) ==
    /\ pc[t] = "idle" /\ result[m] = "new"
    /\ Goto(t, "connect")
    /\ job' = [job EXCEPT ![t] = [p |-> p, m |-> m]]
    /\ attempt' = [attempt EXCEPT ![t] = 1]
    /\ result' = [result EXCEPT ![m] = "pending"]
    /\ hits' = [hits EXCEPT ![t] =
                  IF up = {} \/ ~(SkipsDeclare(p) \/ DeclareAccepted(p)) THEN 2
                  ELSE IF Stale(t) THEN 1 ELSE 0]
    /\ UNCHANGED <<err, slots, declared, broker, faults>>

\* The wrapped function of a decorated producer returned None, or something
\* that is not str or bytes: publish() is not entered
DecoratedSkip(t, m, outcome) ==
    /\ pc[t] = "idle" /\ result[m] = "new"
    /\ outcome \in {"skipped", "typeerror"}
    /\ result' = [result EXCEPT ![m] = outcome]
    /\ UNCHANGED <<pc, job, attempt, err, slots, declared, broker, hits, faults>>

\* get_producer_connection(): reuse the cached one, open one when it is missing
\* or closed, raise AMQPConnectionError when no node answers
GetConnection(t) ==
    /\ pc[t] = "connect"
    /\ \/ /\ conn[t] = "open"
          /\ Goto(t, "channel")
          /\ UNCHANGED <<err, conn, node, connUp, sessions>>
       \/ /\ conn[t] # "open"
          /\ conn' = [conn EXCEPT ![t] = "open"]
          /\ \E n \in Reachable : node' = [node EXCEPT ![t] = n]
          /\ connUp' = connUp \cup {t}
          /\ sessions' = [sessions EXCEPT ![t] = @ + 1]
          /\ Goto(t, "channel")
          /\ UNCHANGED err
       \/ /\ conn[t] # "open" /\ up = {}
          /\ Throw(t, "reconnectable")
          /\ UNCHANGED <<conn, node, connUp, sessions>>
    /\ UNCHANGED <<job, attempt, chan, confirms, chanUp, freshUp, declared, result,
                   up, queue, reply, stored, limbo, channels, hits, faults>>

\* get_producer_channel(), lines 176-184: reuse the cached channel or open one
GetChannel(t) ==
    /\ pc[t] = "channel"
    /\ \/ /\ HasOpenChannel(t)
          /\ Goto(t, "check")
          /\ UNCHANGED <<err, slots, channels>>
       \/ /\ ~HasOpenChannel(t) /\ t \in connUp
          /\ freshUp' = freshUp \cup {t}
          /\ channels' = [channels EXCEPT ![t] = @ + 1]
          /\ Goto(t, "confirm")
          /\ UNCHANGED <<err, conn, chan, confirms, node, connUp, chanUp>>
       \/ /\ ~HasOpenChannel(t)
          /\ ConnectionLost(t)
          /\ UNCHANGED channels
    /\ UNCHANGED <<job, attempt, declared, result, up, queue, reply, stored, limbo,
                   sessions, hits, faults>>

\* Lines 188-189: confirm_delivery(), and only then is the channel cached.  When it
\* fails the new channel is dead and was never cached.
ConfirmDelivery(t) ==
    /\ pc[t] = "confirm"
    /\ \/ /\ FreshServed(t)
          /\ chan' = [chan EXCEPT ![t] = "open"]
          /\ confirms' = WithConfirms(t)
          /\ chanUp' = chanUp \cup {t}
          /\ freshUp' = freshUp \ {t}
          /\ Goto(t, "check")
          /\ UNCHANGED <<err, conn, node, connUp>>
       \/ ConnectionLost(t)
       \/ /\ t \notin freshUp
          /\ Throw(t, "reconnectable")
          /\ UNCHANGED slots
    /\ UNCHANGED <<job, attempt, declared, result, broker, hits, faults>>

\* _ensure_queue_declared(): the test of line 242 ...
EnsureQueueDeclared(t) ==
    /\ pc[t] = "check"
    /\ Goto(t, IF SkipsDeclare(job[t].p) THEN "send" ELSE "declare")
    /\ UNCHANGED <<job, attempt, err, slots, declared, result, broker, hits, faults>>

\* ... and the declaration; the flag is set after the broker's answer only.
\* A refused declaration closes the channel.
DeclareQueue(t) ==
    LET p == job[t].p IN
    /\ pc[t] = "declare"
    /\ \/ /\ ChannelServed(t) /\ DeclareAccepted(p)
          /\ declared' = declared \cup {p}
          /\ queue' = IF queue = "absent" THEN "match" ELSE queue
          /\ Goto(t, "send")
          /\ UNCHANGED <<err, slots, channels>>
       \/ /\ ChannelServed(t) /\ ~DeclareAccepted(p)
          /\ chan' = [chan EXCEPT ![t] = "closed"]
          /\ chanUp' = chanUp \ {t}
          /\ channels' = [channels EXCEPT ![t] = @ - 1]
          /\ Throw(t, "reconnectable")
          /\ UNCHANGED <<conn, confirms, node, connUp, freshUp, declared, queue>>
       \/ /\ IOFails(t)
          /\ UNCHANGED <<declared, queue, channels>>
    /\ UNCHANGED <<job, attempt, result, up, reply, stored, limbo, sessions, hits, faults>>

\* basic_publish(mandatory=True): the frames leave.  On a channel in confirm mode
\* the call then waits for the broker's answer, on any other it returns at once.
BasicPublish(t) ==
    /\ pc[t] = "send"
    /\ \/ /\ ChannelServed(t) /\ t \in confirms
          /\ reply' = [reply EXCEPT ![t] = "flight"]
          /\ Goto(t, "await")
          /\ UNCHANGED <<attempt, err, slots, result, limbo, hits>>
       \/ /\ ChannelServed(t) /\ t \notin confirms
          /\ limbo' = limbo \cup {CopyOf(t)}
          /\ Leave(t, "ok")
          /\ UNCHANGED <<slots, reply>>
       \/ /\ IOFails(t)
          /\ UNCHANGED <<attempt, result, reply, limbo, hits>>
    /\ UNCHANGED <<job, declared, up, queue, stored, held, faults>>

\* The answer arrives: a confirm ends the call, basic.return and basic.nack are
\* raised as UnroutableError and NackError, a lost channel as a reconnectable error
AwaitConfirm(t) ==
    /\ pc[t] = "await"
    /\ \/ /\ reply[t] = "ack"
          /\ Leave(t, "ok")
          /\ UNCHANGED slots
       \/ /\ reply[t] \in {"return", "nack"}
          /\ Throw(t, "other")
          /\ UNCHANGED <<attempt, slots, result, hits>>
       \/ /\ IOFails(t)
          /\ UNCHANGED <<attempt, result, hits>>
    /\ reply' = [reply EXCEPT ![t] = "none"]
    /\ UNCHANGED <<job, declared, up, queue, stored, limbo, held, faults>>

\* Faulty: the retry is itself retried
RetriesAlways(t) == err[t] = "reconnectable"

\* The except clause of line 154 catches only the first attempt's error
MayRetry(t) == err[t] = "reconnectable" /\ attempt[t] = 1

\* The except clause of line 154: reset and retry once ...
Retry(t) ==
    /\ pc[t] = "failed" /\ MayRetry(t)
    /\ Goto(t, "resetChannel")
    /\ err' = [err EXCEPT ![t] = "none"]
    /\ UNCHANGED <<job, attempt, slots, declared, result, broker, hits, faults>>

\* ... any other error, and any error of the second attempt, is raised
Raise(t) ==
    /\ pc[t] = "failed" /\ ~MayRetry(t)
    /\ Leave(t, "raised")
    /\ UNCHANGED <<job, slots, declared, broker, faults>>

\* reset_producer_channel(), lines 200-213: close the channel if it looks open
\* (an error is swallowed: the close found the connection lost, or the channel
\* already closed), then forget it
ResetChannel(t) ==
    /\ pc[t] = "resetChannel"
    /\ chan' = [chan EXCEPT ![t] = "none"]
    /\ chanUp' = chanUp \ {t}
    /\ \/ /\ chan[t] = "open" /\ ChannelServed(t)
          /\ channels' = [channels EXCEPT ![t] = @ - 1]
          /\ UNCHANGED conn
       \/ /\ chan[t] = "open" /\ t \notin connUp
          /\ conn' = [conn EXCEPT ![t] = Closed(@)]
          /\ UNCHANGED channels
       \/ /\ chan[t] # "open" \/ t \notin chanUp
          /\ UNCHANGED <<conn, channels>>
    /\ Goto(t, "resetConnection")
    /\ UNCHANGED <<job, attempt, err, confirms, node, connUp, freshUp, declared, result,
                   up, queue, reply, stored, limbo, sessions, hits, faults>>

\* Faulty: the reset stops at the channel
KeepConnection(t) == UNCHANGED <<conn, connUp, held>>

\* Faulty: the connection is forgotten without being closed
AbandonConnection(t) ==
    /\ conn' = [conn EXCEPT ![t] = "none"]
    /\ connUp' = connUp \ {t}
    /\ UNCHANGED held

\* Faulty: the close is booked although the broker had dropped the connection
CloseTwice(t) ==
    /\ conn' = [conn EXCEPT ![t] = "none"]
    /\ connUp' = connUp \ {t}
    /\ sessions' = [sessions EXCEPT ![t] = @ - 1]
    /\ channels' = [channels EXCEPT ![t] = 0]

\* Lines 215-228: close the connection if it looks open (errors swallowed: it was
\* lost), then forget it
CloseConnection(t) ==
    /\ conn' = [conn EXCEPT ![t] = "none"]
    /\ connUp' = connUp \ {t}
    /\ IF conn[t] = "open" /\ t \in connUp
         THEN /\ sessions' = [sessions EXCEPT ![t] = @ - 1]
              /\ channels' = [channels EXCEPT ![t] = 0]
         ELSE UNCHANGED held

\* Faulty: attempts are not counted
SameAttempt(t) == attempt[t]

\* The attempt that follows the reset
NextAttempt(t) == attempt[t] + 1

\* ... and the second attempt starts
ResetConnection(t) ==
    /\ pc[t] = "resetConnection"
    /\ CloseConnection(t)
    /\ attempt' = [attempt EXCEPT ![t] = NextAttempt(t)]
    /\ Goto(t, "connect")
    /\ UNCHANGED <<job, err, chan, confirms, node, chanUp, freshUp, declared, result,
                   up, queue, reply, stored, limbo, hits, faults>>

-----------------------------------------------------------------------------
(* External: the broker and the network *)

\* The broker takes the published message: it routes it to the queue and confirms
\* it, refuses it, or returns it because it is mandatory and nothing matches.
BrokerAnswers(t) ==
    /\ reply[t] = "flight"
    /\ \/ /\ queue # "absent"
          /\ stored' = stored \cup {CopyOf(t)}
          /\ reply' = [reply EXCEPT ![t] = "ack"]
       \/ /\ queue # "absent"
          /\ reply' = [reply EXCEPT ![t] = "nack"]
          /\ UNCHANGED stored
       \/ /\ queue = "absent"
          /\ reply' = [reply EXCEPT ![t] = "return"]
          /\ UNCHANGED stored
    /\ UNCHANGED <<client, up, queue, limbo, held, hits, faults>>

\* A copy the broker had received when its connection died, taken late or never
BrokerTakesLate(copy) ==
    /\ copy \in limbo
    /\ limbo' = limbo \ {copy}
    /\ stored' = IF queue = "absent" THEN stored ELSE stored \cup {copy}
    /\ UNCHANGED <<client, up, queue, reply, held, hits, faults>>

Active(t) == pc[t] # "idle"
Hit(t) == IF Active(t) /\ hits[t] < 2 THEN hits[t] + 1 ELSE hits[t]

\* The broker's ends of the connections of the threads in lost go away
LoseConnections(lost) ==
    /\ connUp' = connUp \ lost
    /\ sessions' = [t \in Threads |-> IF t \in lost THEN sessions[t] - 1 ELSE sessions[t]]
    /\ channels' = [t \in Threads |-> IF t \in lost THEN 0 ELSE channels[t]]
    /\ limbo' = limbo \cup {CopyOf(t) : t \in {u \in lost : reply[u] = "flight"}}
    /\ reply' = [t \in Threads |->
                   IF t \in lost /\ reply[t] = "flight" THEN "none" ELSE reply[t]]

Disturb == faults < MaxFaults /\ faults' = faults + 1

LoseConnection(t) ==
    /\ Disturb /\ t \in connUp
    /\ LoseConnections({t})
    /\ hits' = [hits EXCEPT ![t] = Hit(t)]
    /\ UNCHANGED <<pc, job, attempt, err, conn, chan, confirms, node, chanUp, freshUp,
                   declared, result, up, queue, stored>>

\* A node stops: its connections go, and if the queue was there, what does not survive:
\* the messages that are not persistent, and a queue that is not durable
NodeFails(n) ==
    LET lost == {t \in connUp : node[t] = n} IN
    /\ Disturb /\ n \in up
    /\ up' = up \ {n}
    /\ LoseConnections(lost)
    /\ \/ UNCHANGED <<stored, queue>>
       \/ /\ stored' = {copy \in stored : Survives(copy)}
          /\ queue' = IF Durable THEN queue ELSE "absent"
    /\ hits' = [t \in Threads |->
                  IF Active(t) /\ (up' = {} \/ queue' # queue) THEN 2
                  ELSE IF t \in lost THEN Hit(t) ELSE hits[t]]
    /\ UNCHANGED <<pc, job, attempt, err, conn, chan, confirms, node, chanUp, freshUp,
                   declared, result>>

NodeRecovers(n) ==
    /\ n \in Nodes \ up
    /\ up' = up \cup {n}
    /\ UNCHANGED <<client, queue, reply, stored, limbo, held, hits, faults>>

\* The broker closes one channel: the cached one or the one being set up
BrokerClosesChannel(t) ==
    /\ Disturb /\ t \in connUp
    /\ \/ /\ t \in chanUp
          /\ chanUp' = chanUp \ {t}
          /\ UNCHANGED freshUp
       \/ /\ t \in freshUp
          /\ freshUp' = freshUp \ {t}
          /\ UNCHANGED chanUp
    /\ channels' = [channels EXCEPT ![t] = @ - 1]
    /\ reply' = [reply EXCEPT ![t] = IF @ = "flight" THEN "none" ELSE @]
    /\ hits' = [hits EXCEPT ![t] = Hit(t)]
    /\ UNCHANGED <<pc, job, attempt, err, conn, chan, confirms, node, connUp, declared,
                   result, up, queue, stored, limbo, sessions>>

\* Someone deletes the queue or declares it with other arguments
QueueChanges(q) ==
    /\ Disturb /\ q # queue
    /\ queue' = q
    /\ hits' = [t \in Threads |-> IF Active(t) THEN 2 ELSE hits[t]]
    /\ UNCHANGED <<client, up, reply, stored, limbo, held>>

-----------------------------------------------------------------------------

Init ==
    /\ pc = [t \in Threads |-> "idle"]
    /\ job = [t \in Threads |-> CHOOSE j \in Job : TRUE]
    /\ attempt = [t \in Threads |-> 0]
    /\ err = [t \in Threads |-> "none"]
    /\ conn = [t \in Threads |-> "none"]
    /\ chan = [t \in Threads |-> "none"]
    /\ node = [t \in Threads |-> CHOOSE n \in Nodes : TRUE]
    /\ confirms = {} /\ connUp = {} /\ chanUp = {} /\ freshUp = {}
    /\ declared = {}
    /\ result = [m \in Messages |-> "new"]
    /\ up = Nodes
    /\ queue \in {"absent", "match", "conflict"}
    /\ reply = [t \in Threads |-> "none"]
    /\ stored = {} /\ limbo = {}
    /\ sessions = [t \in Threads |-> 0]
    /\ channels = [t \in Threads |-> 0]
    /\ hits = [t \in Threads |-> 0]
    /\ faults = 0

\* One step of the code of thread t, in the order publish() runs them
Step(t) ==
    \/ GetConnection(t) \/ GetChannel(t) \/ ConfirmDelivery(t)
    \/ EnsureQueueDeclared(t) \/ DeclareQueue(t)
    \/ BasicPublish(t) \/ AwaitConfirm(t)
    \/ Retry(t) \/ Raise(t) \/ ResetChannel(t) \/ ResetConnection(t)

Call(t) ==
    \E m \in Messages :
        \/ \E p \in Producers : Publish(t, p, m)
        \/ \E outcome \in {"skipped", "typeerror"} : DecoratedSkip(t, m, outcome)

Environment ==
    \/ \E t \in Threads :
        BrokerAnswers(t) \/ LoseConnection(t) \/ BrokerClosesChannel(t)
    \/ \E copy \in limbo : BrokerTakesLate(copy)
    \/ \E n \in Nodes : NodeFails(n) \/ NodeRecovers(n)
    \/ \E q \in {"absent", "match", "conflict"} : QueueChanges(q)

\* The Messages are the calls made: once all have returned there is none left
AllReturned ==
    /\ \A m \in Messages : result[m] \notin {"new", "pending"}
    /\ UNCHANGED vars

Next == (\E t \in Threads : Step(t) \/ Call(t)) \/ Environment \/ AllReturned

\* A thread inside publish() is scheduled, and the broker answers what it received
Fairness == \A t \in Threads : WF_vars(Step(t)) /\ WF_vars(BrokerAnswers(t))

Spec == Init /\ [][Next]_vars
FairSpec == Spec /\ Fairness

-----------------------------------------------------------------------------
(* Properties *)

\* publish() that returned has its message in the queue: a broker that cannot take
\* it never drops it silently.  (A message the caller made transient, or in a queue that
\* is not durable, may be lost with its node.)  Rests on confirms being on before the channel is cached, on
\* mandatory=True and on the forced persistent mode.
NoSilentLoss ==
    \A m \in Messages :
        result[m] = "ok" /\ ~Volatile(m) =>
            \E copy \in stored : copy.msg = m

\* One publish() call puts at most two copies of its message on the broker, however
\* many of its connections are lost: exactly one retry is made.
AtMostTwoCopies ==
    \A copy \in stored \cup limbo : copy.try \in 1..2

\* The retry is enough for one disturbance: a second attempt that fails on a
\* reconnectable error had at least two of them (a slot that was stale when the
\* call began counts as one), or no node, or a queue that could not be declared,
\* changed or was lost.  Needs the reset to drop the connection, not only the channel.
OneFaultIsMasked ==
    \A t \in Threads :
        pc[t] = "failed" /\ err[t] = "reconnectable" /\ attempt[t] # 1 => hits[t] >= 2

\* The broker never holds a connection or a channel of a thread that the thread
\* has forgotten: resets close what they drop, and nothing is overwritten open.
NoLeak ==
    \A t \in Threads :
        /\ sessions[t] = IF t \in connUp THEN 1 ELSE 0
        /\ channels[t] = (IF ChannelServed(t) THEN 1 ELSE 0) + (IF FreshServed(t) THEN 1 ELSE 0)

\* Declaring and publishing always go to a channel whose is_open answers TRUE, in
\* confirm mode, on an open connection.  On a channel pika knows to be closed they
\* would raise ChannelWrongStateError, which is not retried.
ChannelReadyForUse ==
    \A t \in Threads :
        pc[t] \in {"check", "declare", "send", "await"} =>
            conn[t] = "open" /\ chan[t] = "open" /\ t \in confirms

\* The whole of it implements the contract of a publish() call.
Contract == INSTANCE PublishContract WITH
    Transient <- {m \in Messages : Volatile(m)},
    accepted <- stored
ImplementsContract == Contract!Spec

\* What makes the slot properties inductive: a slot is up only while it looks open,
\* an open channel sits on an open connection and confirms, and where publish()
\* stands tells which slots are filled.
SlotsInv ==
    \A t \in Threads :
        /\ t \in connUp => conn[t] = "open"
        /\ t \in chanUp => chan[t] = "open"
        /\ chan[t] = "open" => conn[t] = "open" /\ t \in confirms
        /\ t \in freshUp => pc[t] = "confirm"
        /\ pc[t] \in {"channel", "confirm"} => conn[t] = "open"
        /\ pc[t] \in {"confirm", "resetConnection"} => chan[t] # "open"
        /\ pc[t] \in {"check", "declare", "send", "await"} => chan[t] = "open"

\* What makes the delivery properties inductive: calls of different threads are of
\* different messages and pending, an answer is on its way only to a waiting call,
\* an acknowledged message is stored, and only a first attempt is reset.
CallsInv ==
    /\ \A t \in Threads :
        /\ pc[t] # "idle" => result[job[t].m] = "pending" /\ attempt[t] \in 1..2
        /\ pc[t] \in {"resetChannel", "resetConnection"} => attempt[t] = 1
        /\ reply[t] # "none" => pc[t] = "await"
        /\ reply[t] = "ack" /\ ~Volatile(job[t].m) =>
                \E copy \in stored : copy.msg = job[t].m
    /\ \A t, u \in Threads :
        t # u /\ pc[t] # "idle" /\ pc[u] # "idle" => job[t].m # job[u].m

\* Every publish() call comes back: it never waits or retries for ever.
PublishReturns ==
    \A m \in Messages : result[m] = "pending" ~> result[m] # "pending"

\* The class comment says the flag makes queue_declare be called at most once per
\* instance: no two calls of one instance are declaring, none once it is declared.
DeclaredAtMostOnce ==
    \A t \in Threads : pc[t] = "declare" =>
        /\ job[t].p \notin declared
        /\ \A u \in Threads \ {t} : pc[u] = "declare" => job[u].p # job[t].p

=============================================================================
