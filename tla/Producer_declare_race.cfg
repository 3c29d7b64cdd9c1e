\* Two threads on one producer, no fault at all
CONSTANTS
    Threads = {t1, t2}
    Producers = {byConfig}
    n1 = n1
    n2 = n2
    byConfig = byConfig
    byName = byName
    noQueue = noQueue
    m1 = m1
    m2 = m2
    m3 = m3
    Messages = {m1, m2}
    Nodes = {n1, n2}
    Rank <- MCRank
    ShuffleNodes = TRUE
    QueueKind <- MCQueueKind
    Durable = TRUE
    CallerMode <- MCCallerMode
    MaxFaults = 0
SPECIFICATION Spec
INVARIANT DeclaredAtMostOnce
