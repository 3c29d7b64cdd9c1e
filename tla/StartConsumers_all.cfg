\* Three consumers on two aliases
CONSTANTS
    Consumers = {c1, c2, c3}
    KnownAliases = {a1, a2}
    UnknownAlias = unknown
    NoAlias = none
SPECIFICATION FairSpec
INVARIANTS TypeOK GracefulExit SignalsKillNoConsumer FailuresStayLocal
PROPERTY SignalsEndTheProcess
