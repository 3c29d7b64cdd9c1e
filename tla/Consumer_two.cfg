\* Two consumers compete for two messages
CONSTANTS
    Consumers = {c1, c2}
    Messages = {m1, m2}
    NoMessage = NoMessage
    Prefetch = 1
    InitialBackoff = 1
    MaxBackoff = 3
    HandlerOutcomes = {"ack", "ackThenRaise", "raise", "forget"}
    DatabaseFails = TRUE
    MaxFaults = 1
SPECIFICATION Spec
INVARIANTS AtLeastOnce NoPoisonLoop DeadLettersWereRaised NothingStranded
PROPERTY ImplementsThread
SYMMETRY MCSymmetry
