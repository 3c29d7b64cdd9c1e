\* Two aliases with two nodes each
CONSTANTS
    a1 = a1
    a2 = a2
    Aliases = {a1, a2}
    UnknownAlias = unknown
    Probes = {1, 2, 3, 4}
    AliasOf <- MCAliasOf
SPECIFICATION FairSpec
INVARIANTS TypeOK VerdictsAreJustified EachAliasReportedOnce HealthyMeansReachable
PROPERTIES ImplementsVerdict EndsByDeadline EndsPromptly
