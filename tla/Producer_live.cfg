\* Liveness and the contract; no symmetry, which liveness does not allow
CONSTANTS
    Threads = {t1, t2}
    Producers = {byConfig, noQueue}
    n1 = n1
    n2 = n2
    byConfig = byConfig
    byName = byName
    noQueue = noQueue
    m1 = m1
    m2 = m2
    m3 = m3
    Messages = {m1, m2}
    Nodes = {n1, n2}
    Rank <- MCRank
    ShuffleNodes = TRUE
    QueueKind <- MCQueueKind
    Durable = TRUE
    CallerMode <- MCCallerMode
    MaxFaults = 1
SPECIFICATION FairSpec
PROPERTIES PublishReturns ImplementsContract
