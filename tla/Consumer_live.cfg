\* Liveness: handlers that settle, no symmetry
CONSTANTS
    Consumers = {c1, c2}
    Messages = {m1}
    NoMessage = NoMessage
    Prefetch = 1
    InitialBackoff = 1
    MaxBackoff = 3
    HandlerOutcomes = {"ack", "ackThenRaise", "raise"}
    DatabaseFails = TRUE
    MaxFaults = 1
SPECIFICATION FairSpec
PROPERTIES StopEndsConsumers MessagesAreSettled
