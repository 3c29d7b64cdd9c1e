\* A connection lost while the handler runs
CONSTANTS
    Consumers = {c1}
    Messages = {m1, m2}
    NoMessage = NoMessage
    Prefetch = 1
    InitialBackoff = 1
    MaxBackoff = 3
    HandlerOutcomes = {"ack"}
    DatabaseFails = FALSE
    MaxFaults = 1
SPECIFICATION Spec
INVARIANT TransientErrorsReconnect
