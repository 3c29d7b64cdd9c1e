\* One consumer with prefetched deliveries, deep in faults
CONSTANTS
    Consumers = {c1}
    Messages = {m1, m2, m3}
    NoMessage = NoMessage
    Prefetch = 2
    InitialBackoff = 1
    MaxBackoff = 3
    HandlerOutcomes = {"ack", "ackThenRaise", "raise", "forget"}
    DatabaseFails = TRUE
    MaxFaults = 2
SPECIFICATION Spec
INVARIANTS TypeOK NoPoisonLoop WithinPrefetch
SYMMETRY MCSymmetry
