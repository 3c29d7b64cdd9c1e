--------------------------- MODULE ConsumerThread ---------------------------
(***************************************************************************)
(* What whoever runs consume() in a thread may rely on.  Consumer is shown *)
(* to implement it, and StartConsumers is built on it.                     *)
(***************************************************************************)
CONSTANT Consumers

VARIABLES
    stop,  \* the stop event
    life,  \* where each thread is
    holds  \* the consumers that have a subscription or unsettled deliveries

threadVars == <<stop, life, holds>>

Ended == {"skipped", "returned", "raised"}
Lives == {"new", "started", "loop", "session"} \cup Ended

Become(c, l) == life' = [life EXCEPT ![c] = l]

\* The loop finds stop not set
EnterSession(c) ==
    /\ life[c] = "loop" /\ ~stop
    /\ Become(c, "session")
    /\ UNCHANGED <<stop, holds>>

Hold(c) ==
    /\ life[c] = "session"
    /\ holds' = holds \cup {c}
    /\ UNCHANGED <<stop, life>>

\* Consumers lose what they hold, as a lost connection makes them
LetGo ==
    /\ holds' \in SUBSET holds
    /\ UNCHANGED <<stop, life>>

\* Faulty: the channel stays open when the session ends
KeepsHold(c) == UNCHANGED holds

\* The finally clause closes the channel
Release(c) == holds' = holds \ {c}

\* A session ends to be tried again, with an error that is not retried, or because
\* of stop, and leaves nothing behind.
LeaveSession(c) ==
    /\ life[c] = "session"
    /\ \/ Become(c, "loop")
       \/ Become(c, "raised")
       \/ stop /\ Become(c, "returned")
    /\ Release(c)
    /\ UNCHANGED stop

\* The loop finds stop set
Return(c) ==
    /\ life[c] = "loop" /\ stop
    /\ Become(c, "returned")
    /\ UNCHANGED <<stop, holds>>

SetStop == stop' = TRUE /\ UNCHANGED <<life, holds>>

ThreadInit ==
    /\ stop = FALSE
    /\ life \in [Consumers -> {"new", "loop"}]
    /\ holds = {}

ThreadStep(c) == EnterSession(c) \/ Hold(c) \/ LeaveSession(c) \/ Return(c)

ThreadSpec ==
    ThreadInit /\ [][(\E c \in Consumers : ThreadStep(c)) \/ LetGo \/ SetStop]_threadVars

=============================================================================
