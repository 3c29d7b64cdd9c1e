------------------------------ MODULE Settings ------------------------------
(***************************************************************************)
(* RabbitMQAppConfig.ready() (apps.py): the settings are validated alias   *)
(* by alias and become the dictionaries the library resolves aliases in.   *)
(*                                                                         *)
(* The settings are inputs, chosen when they are looked at.  A timeout is  *)
(* one of four kinds, and a setting that is left out is not validated.     *)
(***************************************************************************)
EXTENDS Naturals, Sequences, FiniteSets

CONSTANTS
    KnownAliases,  \* the aliases RABBITMQ_CONNECTIONS may define
    Absent,        \* a setting that is not there
    MaxNodes       \* bound on the length of NODES

ASSUME SettingsAssumption == KnownAliases # {} /\ MaxNodes \in Nat \ {0}

\* Numbers above and not above zero, NaN, and what is no number or a bool
Timeouts == {"positive", "nonpositive", "nan", "other"}
Address == {"HOST", "PORT"}
AliasParams == [
    nodes : (UNION {[1..n -> SUBSET Address] : n \in 0..MaxNodes}) \cup {Absent},
    scalar : SUBSET Address,
    complete : BOOLEAN,  \* the keys that have no default are all there
    valid : BOOLEAN,     \* pika takes their values
    timeouts : SUBSET Timeouts]
HealthParams == [dict : BOOLEAN, unknownKeys : BOOLEAN, timeouts : SUBSET Timeouts] \cup {Absent}

\* A dictionary with one more key
With(f, x, value) == [y \in DOMAIN f \cup {x} |-> IF y = x THEN value ELSE f[y]]

Dictionaries == {"connection_managers", "setup_registries", "consumers_registries"}

VARIABLES
    phase,        \* where ready() is; "up" when it is over, "failed" when it raised
    connections,  \* the aliases of RABBITMQ_CONNECTIONS
    accepted,     \* local to ready(): the aliases built, each with its parameters
    dictionaries, \* the aliases in each dictionary of the module, none while it is None
    error, culprit \* what ready() raised, and the parameters it raised it for

settingsVars == <<phase, connections, accepted, dictionaries, error, culprit>>

SettingsTypeOK ==
    /\ phase \in {"load", "build", "health", "up", "failed"}
    /\ connections \in SUBSET KnownAliases
    /\ DOMAIN accepted \subseteq connections
    /\ dictionaries \in [Dictionaries -> SUBSET KnownAliases]
    /\ error \in {"none", "ImproperlyConfigured", "KeyError", "TypeError"}

-----------------------------------------------------------------------------
(* Validation *)

\* Faulty: what is not a number is taken
OnlyRange(t) == t = "nonpositive"

\* _resolve_timeout(): NaN is a float, and NaN <= 0 is false
RejectsTimeout(t) == t \in {"other", "nonpositive"}

TimeoutsError(ts) == IF \E t \in ts : RejectsTimeout(t) THEN "ImproperlyConfigured" ELSE "none"

\* _resolve_nodes().  Half a scalar address is found only when the key is read.
NodesError(p) ==
    LET hasNodes == p.nodes # Absent
        hasScalar == p.scalar # {}
    IN  IF hasNodes = hasScalar THEN "ImproperlyConfigured"
        ELSE IF hasScalar THEN IF p.scalar = Address THEN "none" ELSE "KeyError"
        ELSE IF p.nodes # <<>> /\ \A i \in DOMAIN p.nodes : p.nodes[i] = Address THEN "none"
        ELSE "ImproperlyConfigured"

\* _build_config(): the first error, the nodes before the other keys
AliasError(p) ==
    IF NodesError(p) # "none" THEN NodesError(p)
    ELSE IF ~p.complete THEN "KeyError"
    ELSE TimeoutsError(p.timeouts)

\* RabbitMQConnectionManager(): pika's parameters raise TypeError or ValueError for a
\* value they cannot take, such as a port that is no number or a negative heartbeat
ManagerError(p) == IF p.valid THEN "none" ELSE "TypeError"

\* The manager is built of a config that has been built
BuildError(p) == IF AliasError(p) # "none" THEN AliasError(p) ELSE ManagerError(p)

\* _build_healthcheck_config()
HealthError(h) ==
    IF h = Absent THEN "none"
    ELSE IF ~h.dict \/ h.unknownKeys THEN "ImproperlyConfigured"
    ELSE TimeoutsError(h.timeouts)

-----------------------------------------------------------------------------
(* ready() *)

Raise(e, p) ==
    /\ phase' = "failed"
    /\ error' = e /\ culprit' = p
    /\ UNCHANGED <<connections, accepted, dictionaries>>

Load ==
    /\ phase = "load"
    /\ \/ connections = {} /\ Raise("ImproperlyConfigured", Absent)
       \/ /\ connections # {} /\ phase' = "build"
          /\ UNCHANGED <<connections, accepted, dictionaries, error, culprit>>

\* Faulty: the loop fills the dictionary of managers in place
PublishesAtOnce(a) ==
    dictionaries' = [dictionaries EXCEPT !["connection_managers"] = @ \cup {a}]

\* The dictionaries being built are local
KeepsLocal(a) == UNCHANGED dictionaries

\* One turn of the loop over the aliases
BuildAlias(a) ==
    /\ phase = "build" /\ a \in connections \ DOMAIN accepted
    /\ \E p \in AliasParams :
       \/ BuildError(p) # "none" /\ Raise(BuildError(p), p)
       \/ /\ BuildError(p) = "none"
          /\ accepted' = With(accepted, a, p)
          /\ KeepsLocal(a)
          /\ UNCHANGED <<phase, connections, error, culprit>>

Publish ==
    /\ phase = "build" /\ DOMAIN accepted = connections
    /\ dictionaries' = [d \in Dictionaries |-> connections]
    /\ phase' = "health"
    /\ UNCHANGED <<connections, accepted, error, culprit>>

\* The dictionaries are published when this raises
BuildHealthcheckConfig ==
    /\ phase = "health"
    /\ \E h \in HealthParams :
       \/ HealthError(h) # "none" /\ Raise(HealthError(h), h)
       \/ /\ HealthError(h) = "none" /\ phase' = "up"
          /\ UNCHANGED <<connections, accepted, dictionaries, error, culprit>>

SettingsInit ==
    /\ phase = "load"
    /\ connections \in SUBSET KnownAliases
    /\ accepted = <<>>
    /\ dictionaries = [d \in Dictionaries |-> {}]
    /\ error = "none" /\ culprit = Absent

Ready == Load \/ (\E a \in KnownAliases : BuildAlias(a)) \/ Publish \/ BuildHealthcheckConfig

-----------------------------------------------------------------------------
(* Properties *)

\* What the rest of the library needs of an alias: addresses given in one way, at least
\* one, each with its host and port; every key, with a value pika takes; and timeouts
\* that are positive numbers, as _resolve_timeout() says.
Usable(p) ==
    LET addresses == IF p.nodes = Absent THEN {p.scalar} ELSE {p.nodes[i] : i \in DOMAIN p.nodes}
    IN  /\ p.nodes = Absent \/ p.scalar = {}
        /\ addresses = {Address}
        /\ p.complete /\ p.valid
        /\ p.timeouts \subseteq {"positive"}

\* The one disagreement: NaN, which is no positive number, is accepted
NaNAside(p) == [p EXCEPT !.timeouts = @ \ {"nan"}]

\* But for NaN timeouts, the aliases the library works with are usable, and ready()
\* rejects no usable alias: neither the order of its tests nor a partly given address
\* lets one through.
AcceptsWhatIsUsable ==
    /\ \A a \in DOMAIN accepted : Usable(NaNAside(accepted[a]))
    /\ phase = "failed" /\ dictionaries["connection_managers"] = {} /\ connections # {} =>
        ~Usable(NaNAside(culprit))

\* The three dictionaries always define the same aliases: all of the settings', or none
\* when one is rejected.  A rejected healthcheck leaves them defined.
DictionariesAgree ==
    \/ \A d \in Dictionaries : dictionaries[d] = {}
    \/ /\ \A d \in Dictionaries : dictionaries[d] = connections
       /\ phase # "build"

=============================================================================
