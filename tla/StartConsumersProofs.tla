------------------------ MODULE StartConsumersProofs ------------------------
(***************************************************************************)
(* Proofs about StartConsumers, for any consumers and aliases.             *)
(***************************************************************************)
EXTENDS StartConsumers, TLAPS

\* The handlers are installed one after the other, and before the first thread.
HandlersInv ==
    /\ handled \in SUBSET Signals
    /\ main = "sigint" => "SIGTERM" \in handled
    /\ main \in {"start", "join"} => handled = Signals
    /\ (\E c \in Consumers : life[c] # "new") => handled = Signals
    /\ main \in {"begin", "sigterm", "sigint"} => \A c \in Consumers : life[c] = "new"

\* Stop is set by a handled signal only, and only stop makes consume() return.
StopInv ==
    /\ stop => received \cap handled # {}
    /\ (\E c \in Consumers : life[c] = "returned") => stop

\* A process that is gone has no consumer at work.
GoneInv == main \in {"exited", "killed"} => Joined

\* The inductive invariant
Inv == TypeOK /\ HandlersInv /\ StopInv /\ GoneInv

-----------------------------------------------------------------------------

\* Nothing has happened before the command begins.
LEMMA InitInv == Init => Inv
<1> SUFFICES ASSUME Init PROVE Inv
  OBVIOUS
<1>1. TypeOK
  BY DEF Init, ThreadInit, TypeOK, Lives, Ended
<1>2. HandlersInv /\ StopInv /\ GoneInv
  BY DEF Init, ThreadInit, HandlersInv, StopInv, GoneInv
<1> QED
  BY <1>1, <1>2 DEF Inv

\* A step of the main thread keeps the types.
LEMMA TypeMain ==
  ASSUME TypeOK, Main
  PROVE  TypeOK'
<1>1. ASSUME NEW c \in Consumers, Handler(c) PROVE TypeOK'
  BY <1>1 DEF TypeOK, Handler, Goto, threadVars
<1>2. CASE Begin
  <2>1. asked' \in SUBSET Consumers
    BY <1>2 DEF Begin
  <2>2. main' \in {"raised", "returned", "sigterm"}
    BY <1>2 DEF Begin, Goto, HandlersFirst
  <2> QED
    BY <1>2, <2>1, <2>2 DEF TypeOK, Begin, threadVars
<1>3. CASE InstallHandler
  BY <1>3 DEF TypeOK, InstallHandler, Goto, threadVars, Signals
<1>4. ASSUME NEW c \in Consumers, StartThread(c) PROVE TypeOK'
  BY <1>4 DEF TypeOK, StartThread, ThreadRefused, Become, Goto, command, Lives
<1>5. CASE AllStarted
  BY <1>5 DEF TypeOK, AllStarted, Goto, threadVars, command
<1>6. CASE JoinAll
  BY <1>6 DEF TypeOK, JoinAll, Goto, threadVars, command
<1>7. CASE Exit
  BY <1>7 DEF TypeOK, Exit, WaitsForThreads, Goto, threadVars, command
<1> QED
  BY <1>1, <1>2, <1>3, <1>4, <1>5, <1>6, <1>7 DEF Main

\* A thread that runs consume(), or the broker taking back what it held, keeps the types:
\* in particular whoever leaves a session holds nothing.
LEMMA TypeThreads ==
  ASSUME TypeOK, (\E c \in Consumers : Enter(c) \/ Consume(c)) \/ LoseHeld
  PROVE  TypeOK'
<1>1. ASSUME NEW c \in Consumers, Enter(c) PROVE TypeOK'
  BY <1>1 DEF TypeOK, Enter, Become, command, Lives, Ended
<1>2. ASSUME NEW c \in Consumers, Consume(c) PROVE TypeOK'
  <2>1. CASE EnterSession(c)
    BY <1>2, <2>1 DEF TypeOK, Consume, EnterSession, Become, command, Lives
  <2>2. CASE Hold(c)
    BY <1>2, <2>2 DEF TypeOK, Consume, Hold, command
  <2>3. CASE LeaveSession(c)
    BY <1>2, <2>3 DEF TypeOK, Consume, LeaveSession, Release, Become, command, Lives, Ended
  <2>4. CASE Return(c)
    BY <1>2, <2>4 DEF TypeOK, Consume, Return, Become, command, Lives, Ended
  <2> QED
    BY <1>2, <2>1, <2>2, <2>3, <2>4 DEF Consume, ThreadStep
<1>3. CASE LoseHeld
  BY <1>3 DEF TypeOK, LoseHeld, LetGo, command
<1> QED
  BY <1>1, <1>2, <1>3

\* A signal keeps the types.
LEMMA TypeSignal ==
  ASSUME TypeOK, NEW s \in Signals, Signal(s)
  PROVE  TypeOK'
<1> QED
  BY DEF TypeOK, Signal, SignalStop, DefaultAction, Goto, Lives, Signals

\* The main thread installs both handlers before it starts a thread, and leaves only when
\* there is no thread at work.
LEMMA InvMain ==
  ASSUME Inv, Main
  PROVE  Inv'
<1>1. TypeOK'
  BY TypeMain DEF Inv
<1>2. ASSUME NEW c \in Consumers, Handler(c) PROVE HandlersInv' /\ StopInv' /\ GoneInv'
  BY <1>2 DEF Inv, HandlersInv, StopInv, GoneInv, Joined, Handler, Goto, threadVars
<1>3. CASE Begin
  <2>1. main' \in {"raised", "returned", "sigterm"}
    BY <1>3 DEF Begin, Goto, HandlersFirst
  <2>2. UNCHANGED <<threadVars, handled, received>> /\ main = "begin"
    BY <1>3 DEF Begin
  <2>3. HandlersInv' /\ GoneInv'
    BY <2>1, <2>2 DEF Inv, HandlersInv, GoneInv, threadVars
  <2>4. StopInv'
    BY <2>2 DEF Inv, TypeOK, StopInv, threadVars
  <2> QED
    BY <1>1, <2>3, <2>4 DEF Inv
<1>4. CASE InstallHandler
  BY <1>4 DEF Inv, TypeOK, HandlersInv, StopInv, GoneInv, Joined, InstallHandler, Goto, threadVars, Signals
<1>5. ASSUME NEW c \in Consumers, StartThread(c) PROVE HandlersInv' /\ StopInv' /\ GoneInv'
  BY <1>5 DEF Inv, TypeOK, HandlersInv, StopInv, GoneInv, Joined, StartThread, ThreadRefused,
     Become, Goto, command
<1>6. CASE AllStarted
  BY <1>6 DEF Inv, TypeOK, HandlersInv, StopInv, GoneInv, Joined, AllStarted, Goto, threadVars, command
<1>7. CASE JoinAll
  BY <1>7 DEF Inv, TypeOK, HandlersInv, StopInv, GoneInv, Joined, JoinAll, Goto, threadVars, command
<1>8. CASE Exit
  BY <1>8 DEF Inv, TypeOK, HandlersInv, StopInv, GoneInv, Joined, Exit, WaitsForThreads, Goto,
     threadVars, command
<1> QED
  BY <1>1, <1>2, <1>3, <1>4, <1>5, <1>6, <1>7, <1>8 DEF Main, Inv

\* The threads run only while both handlers are in place, and return only after stop.
LEMMA InvThreads ==
  ASSUME Inv, (\E c \in Consumers : Enter(c) \/ Consume(c)) \/ LoseHeld
  PROVE  Inv'
<1>1. TypeOK'
  BY TypeThreads DEF Inv
<1>2. ASSUME NEW c \in Consumers, Enter(c) PROVE HandlersInv' /\ StopInv' /\ GoneInv'
  BY <1>2 DEF Inv, TypeOK, HandlersInv, StopInv, GoneInv, Joined, Enter, Become, command, Ended
<1>3. ASSUME NEW c \in Consumers, Consume(c) PROVE HandlersInv' /\ StopInv' /\ GoneInv'
  <2>1. life[c] \in {"loop", "session"} /\ UNCHANGED <<main, command, stop>>
    BY <1>3 DEF Consume, ThreadStep, EnterSession, Hold, LeaveSession, Return
  <2>2. \/ UNCHANGED life
        \/ life' = [life EXCEPT ![c] = "session"]
        \/ life' = [life EXCEPT ![c] = "loop"]
        \/ life' = [life EXCEPT ![c] = "raised"]
        \/ stop /\ life' = [life EXCEPT ![c] = "returned"]
    BY <1>3 DEF Consume, ThreadStep, EnterSession, Hold, LeaveSession, Return, Become
  <2> QED
    BY <2>1, <2>2 DEF Inv, TypeOK, HandlersInv, StopInv, GoneInv, Joined, command, Ended
<1>4. CASE LoseHeld
  BY <1>4 DEF Inv, TypeOK, HandlersInv, StopInv, GoneInv, Joined, LoseHeld, LetGo, command
<1> QED
  BY <1>1, <1>2, <1>3, <1>4 DEF Inv

\* A signal sets stop or, when no thread has been started, ends the process.
LEMMA InvSignal ==
  ASSUME Inv, NEW s \in Signals, Signal(s)
  PROVE  Inv'
<1>1. TypeOK'
  BY TypeSignal DEF Inv
<1>2. CASE s \in handled /\ SignalStop /\ UNCHANGED main
  BY <1>2 DEF Inv, TypeOK, HandlersInv, StopInv, GoneInv, Joined, Signal, SignalStop
<1>3. CASE s \notin handled /\ DefaultAction(s)
  <2>1. \A c \in Consumers : life[c] = "new"
    BY <1>3 DEF Inv, HandlersInv
  <2>2. main' \in {"killed", "raised"} /\ UNCHANGED <<stop, life, handled>>
    BY <1>3 DEF Signal, DefaultAction, Goto
  <2>3. received \subseteq received'
    BY DEF Signal
  <2>4. HandlersInv' /\ GoneInv'
    BY <2>1, <2>2 DEF Inv, HandlersInv, GoneInv, Joined
  <2>5. StopInv'
    BY <2>2, <2>3 DEF Inv, TypeOK, StopInv
  <2> QED
    BY <1>1, <2>4, <2>5 DEF Inv
<1> QED
  BY <1>1, <1>2, <1>3 DEF Signal, Inv

-----------------------------------------------------------------------------

\* The invariant holds in every state of the command.
THEOREM Invariant == Spec => []Inv
<1>1. Inv /\ [Next]_vars => Inv'
  <2> SUFFICES ASSUME Inv, [Next]_vars PROVE Inv'
    OBVIOUS
  <2>1. CASE Main
    BY <2>1, InvMain
  <2>2. CASE (\E c \in Consumers : Enter(c) \/ Consume(c)) \/ LoseHeld
    BY <2>2, InvThreads
  <2>3. ASSUME NEW s \in Signals, Signal(s) PROVE Inv'
    BY <2>3, InvSignal
  <2>4. CASE UNCHANGED vars
    BY <2>4 DEF Inv, TypeOK, HandlersInv, StopInv, GoneInv, Joined, vars, threadVars, command
  <2> QED
    BY <2>1, <2>2, <2>3, <2>4 DEF Next, Over
<1> QED
  BY InitInv, <1>1, PTL DEF Spec

\* Every variable keeps its type, and only consumers in a session hold anything.
THEOREM TypeCorrect == Spec => []TypeOK
<1> QED
  BY Invariant, PTL DEF Inv

\* A process that ended by itself left no consumer running and nothing held on the broker,
\* whatever failed: the interpreter waits for threads that are no daemons.
THEOREM EndsGracefully == Spec => []GracefulExit
<1>1. Inv => GracefulExit
  BY DEF Inv, TypeOK, GoneInv, GracefulExit, Joined, Ended
<1> QED
  BY Invariant, <1>1, PTL

\* The default action of a signal never ends a process with a consumer at work.
THEOREM NoConsumerIsKilled == Spec => []SignalsKillNoConsumer
<1>1. Inv => SignalsKillNoConsumer
  BY DEF Inv, GoneInv, SignalsKillNoConsumer
<1> QED
  BY Invariant, <1>1, PTL

\* A consumer returns only after a signal that was handled: neither the death of another
\* nor a thread that cannot be started makes it.
THEOREM FailuresAreLocal == Spec => []FailuresStayLocal
<1>1. Inv => FailuresStayLocal
  BY DEF Inv, StopInv, FailuresStayLocal
<1> QED
  BY Invariant, <1>1, PTL

=============================================================================
