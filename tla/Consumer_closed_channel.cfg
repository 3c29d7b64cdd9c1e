\* Handlers that fail after they have acknowledged; the environment disturbs nothing
CONSTANTS
    Consumers = {c1}
    Messages = {m1, m2}
    NoMessage = NoMessage
    Prefetch = 1
    InitialBackoff = 1
    MaxBackoff = 3
    HandlerOutcomes = {"ack", "ackThenRaise"}
    DatabaseFails = FALSE
    MaxFaults = 0
SPECIFICATION FairSpec
PROPERTY ClosedChannelsReconnect
