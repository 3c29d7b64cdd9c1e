--------------------------- MODULE StartConsumers ---------------------------
(***************************************************************************)
(* The start_consumers command: the main thread, the signals, and a thread *)
(* for each registered consumer, which behaves as ConsumerThread says.     *)
(***************************************************************************)
EXTENDS ConsumerThread, Aliases

CONSTANTS
    KnownAliases,  \* RABBITMQ_CONNECTIONS
    UnknownAlias   \* a --using, or a consumer's using, that is not configured

ASSUME StartAssumption ==
    /\ NoAlias \notin KnownAliases
    /\ UnknownAlias \notin KnownAliases \cup {NoAlias}

Signals == {"SIGTERM", "SIGINT"}

VARIABLES
    main,     \* where the main thread is
    handlers, \* the consumers with a message handler
    asked,    \* pairs: the consumers of the aliases asked for
    handled,  \* the signals with a handler
    received  \* history: the signals received

command == <<handlers, asked, handled, received>>
vars == <<threadVars, main, command>>

Uses == KnownAliases \cup {NoAlias, UnknownAlias}

TypeOK ==
    /\ stop \in BOOLEAN /\ life \in [Consumers -> Lives]
    /\ holds \in SUBSET {c \in Consumers : life[c] = "session"}
    /\ main \in {"begin", "sigterm", "sigint", "start", "join", "returned", "raised", "exited",
                 "killed"}
    /\ handlers \in SUBSET Consumers /\ asked \in SUBSET Consumers
    /\ handled \in SUBSET Signals /\ received \in SUBSET Signals

Goto(l) == main' = l

Joined == \A c \in Consumers : life[c] \in Ended \cup {"new"}

-----------------------------------------------------------------------------
(* The main thread *)

\* Consumer.handler(), when the application is imported: a second handler raises
Handler(c) ==
    /\ main = "begin"
    /\ \/ c \notin handlers /\ handlers' = handlers \cup {c} /\ UNCHANGED main
       \/ c \in handlers /\ Goto("raised") /\ UNCHANGED handlers
    /\ UNCHANGED <<threadVars, asked, handled, received>>

\* Faulty: the signals are handled from the first join on
ThreadsFirst == "start"

\* What the main thread does when there are consumers to start
HandlersFirst == "sigterm"

\* handle() up to the list of pairs, for any settings, --using and registrations;
\* a registration is made under a configured alias, or not at all
Begin ==
    /\ main = "begin"
    /\ \E known \in {{}, KnownAliases}, using \in Uses :
       \E registry \in [Consumers -> known \cup {NoAlias}] :
          LET aliases == Asked(known, using)
              pairs == {c \in Consumers : registry[c] \in aliases}
          IN  /\ asked' = IF aliases \subseteq known THEN pairs ELSE {}
              /\ Goto(IF known = {} \/ ~(aliases \subseteq known) THEN "raised"
                      ELSE IF pairs = {} THEN "returned" ELSE HandlersFirst)
    /\ UNCHANGED <<threadVars, handlers, handled, received>>

\* signal.signal(), once for each signal
InstallHandler ==
    /\ main \in {"sigterm", "sigint"}
    /\ handled' = handled \cup {IF main = "sigterm" THEN "SIGTERM" ELSE "SIGINT"}
    /\ Goto(IF main = "sigterm" THEN "sigint" ELSE "start")
    /\ UNCHANGED <<threadVars, handlers, asked, received>>

\* Faulty: a thread that cannot start stops the others
RefusalStops == stop' = TRUE /\ Goto("raised") /\ UNCHANGED life

\* The system has no thread to give, and handle() raises
ThreadRefused == Goto("raised") /\ UNCHANGED <<stop, life>>

\* The next thread of the loop.  The order, that of registration, is any.
StartThread(c) ==
    /\ main = "start" /\ c \in asked /\ life[c] = "new"
    /\ \/ Become(c, "started") /\ UNCHANGED <<stop, main>>
       \/ ThreadRefused
    /\ UNCHANGED <<holds, command>>

AllStarted ==
    /\ main = "start" /\ \A c \in asked : life[c] # "new"
    /\ Goto("join")
    /\ UNCHANGED <<threadVars, command>>

\* The loop of join() is over
JoinAll ==
    /\ main = "join" /\ Joined
    /\ Goto("returned")
    /\ UNCHANGED <<threadVars, command>>

\* Faulty: daemon threads, which die with the process
DiesWithThreads == UNCHANGED threadVars

\* The threads are not daemons: the process waits for them, even after an exception
WaitsForThreads == Joined /\ UNCHANGED threadVars

Exit ==
    /\ main \in {"returned", "raised"}
    /\ WaitsForThreads
    /\ Goto("exited")
    /\ UNCHANGED command

-----------------------------------------------------------------------------
(* Signals *)

\* Faulty: a signal counts only while the command is joining
SetsStopWhenJoining == stop' = (stop \/ main = "join")

\* _signal_stop()
SignalStop == stop' = TRUE

\* The default action ends the process: at once for SIGTERM, and by KeyboardInterrupt
\* in the main thread for SIGINT
DefaultAction(s) ==
    Goto(IF s = "SIGTERM" THEN "killed" ELSE "raised") /\ UNCHANGED stop

Signal(s) ==
    /\ main \notin {"exited", "killed"}
    /\ received' = received \cup {s}
    /\ \/ s \in handled /\ SignalStop /\ UNCHANGED main
       \/ s \notin handled /\ DefaultAction(s)
    /\ UNCHANGED <<life, holds, handlers, asked, handled>>

-----------------------------------------------------------------------------
(* The consumer threads *)

\* consume() up to its loop, for any using of the consumer: without a handler it returns,
\* and where get_connection_manager() finds no alias it raises, in a thread nobody looks at
Enter(c) ==
    /\ life[c] = "started"
    /\ \/ c \notin handlers /\ Become(c, "skipped")
       \/ c \in handlers /\ \E using \in Uses :
             Become(c, IF Resolve(KnownAliases, using) = NoAlias THEN "raised" ELSE "loop")
    /\ UNCHANGED <<stop, holds, main, command>>

Consume(c) == ThreadStep(c) /\ UNCHANGED <<main, command>>

LoseHeld == LetGo /\ UNCHANGED <<main, command>>

-----------------------------------------------------------------------------

Init ==
    /\ ThreadInit /\ life = [c \in Consumers |-> "new"]
    /\ main = "begin" /\ handlers = {} /\ asked = {} /\ handled = {} /\ received = {}

Main == (\E c \in Consumers : Handler(c)) \/ Begin \/ InstallHandler \/ (\E c \in Consumers : StartThread(c)) \/ AllStarted
        \/ JoinAll \/ Exit

Over == main \in {"exited", "killed"} /\ UNCHANGED vars

Next ==
    \/ Main \/ Over \/ LoseHeld
    \/ \E c \in Consumers : Enter(c) \/ Consume(c)
    \/ \E s \in Signals : Signal(s)

Spec == Init /\ [][Next]_vars

\* Threads are scheduled, and consume() ends once stop is set (Consumer!StopEndsConsumers)
Fairness ==
    /\ WF_vars(Main)
    /\ \A c \in Consumers :
        /\ WF_vars(Enter(c))
        /\ WF_vars(stop /\ (LeaveSession(c) \/ Return(c)) /\ UNCHANGED <<main, command>>)

FairSpec == Spec /\ Fairness

-----------------------------------------------------------------------------
(* Properties *)

\* A process that ends by itself leaves no consumer running and nothing held on the
\* broker, also after a failed start or an interrupt.
GracefulExit == main = "exited" => Joined /\ holds = {}

\* The default action of a signal never meets a running consumer: both handlers are in
\* place before the first thread.
SignalsKillNoConsumer == main = "killed" => Joined

\* A consumer that dies or is refused a thread takes none of the others with it: those
\* that consume return only after a signal.
FailuresStayLocal == (\E c \in Consumers : life[c] = "returned") => received \cap handled # {}

\* A signal ends the process, whenever it comes: before the handlers, between two
\* threads, while joining, or while a failed command waits for its threads.
SignalsEndTheProcess == received # {} ~> main \in {"exited", "killed"}

=============================================================================
