\* One thread, two calls in a row, deep in faults
CONSTANTS
    Threads = {t1}
    Producers = {byConfig, byName}
    n1 = n1
    n2 = n2
    byConfig = byConfig
    byName = byName
    noQueue = noQueue
    m1 = m1
    m2 = m2
    m3 = m3
    Messages = {m1, m3}
    Nodes = {n1, n2}
    Rank <- MCRank
    ShuffleNodes = FALSE
    QueueKind <- MCQueueKind
    Durable = TRUE
    CallerMode <- MCCallerMode
    MaxFaults = 3
SPECIFICATION Spec
INVARIANTS TypeOK NoSilentLoss AtMostTwoCopies OneFaultIsMasked NoLeak ChannelReadyForUse
