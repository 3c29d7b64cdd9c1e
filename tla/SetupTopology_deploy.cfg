\* Settings of up to two aliases, then two runs of the command
CONSTANTS
    a1 = a1
    a2 = a2
    x = x
    q = q
    b = b
    dlx = dlx
    KnownAliases = {a1, a2}
    NoAlias = none
    Absent = absent
    Missing = missing
    MaxNodes = 2
    Entities = {x, q, b}
    Setups <- MCSetups
    Brokers <- MCBrokers
    MaxRuns = 2
    MaxFaults = 1
SPECIFICATION Spec
INVARIANTS SetupTypeOK AcceptsWhatIsUsable DictionariesAgree ReportIsTrue ChannelReleased RepeatsConverge
