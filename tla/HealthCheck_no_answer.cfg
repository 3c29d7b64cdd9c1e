\* An outcome waits in the queue when the deadline passes
CONSTANTS
    a1 = a1
    a2 = a2
    Aliases = {a1, a2}
    UnknownAlias = unknown
    Probes = {1, 2, 3}
    AliasOf <- MCAliasOf
SPECIFICATION Spec
INVARIANT NoAnswerMeansHung
