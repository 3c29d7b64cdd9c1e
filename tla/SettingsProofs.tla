--------------------------- MODULE SettingsProofs ---------------------------
(***************************************************************************)
(* Proofs about Settings, for any aliases and any number of nodes: what    *)
(* each step of ready() keeps.  SetupTopologyProofs builds on them.        *)
(***************************************************************************)
EXTENDS Settings, TLAPS

\* The dictionaries are filled at once, when all the aliases have been built.
PublishInv ==
    /\ phase \in {"load", "build"} => \A d \in Dictionaries : dictionaries[d] = {}
    /\ phase \in {"health", "up"} => \A d \in Dictionaries : dictionaries[d] = connections
    /\ phase = "failed" => \/ \A d \in Dictionaries : dictionaries[d] = {}
                           \/ \A d \in Dictionaries : dictionaries[d] = connections
    /\ phase \in {"build", "health", "up"} => connections # {}

SettingsInv == SettingsTypeOK /\ PublishInv /\ AcceptsWhatIsUsable

-----------------------------------------------------------------------------
(* The tests of an alias's settings *)

\* The tests of _resolve_nodes() let through exactly the addresses that can be used.
LEMMA NodesAreUsable ==
  ASSUME NEW p \in AliasParams
  PROVE  NodesError(p) = "none" <=>
            /\ p.nodes = Absent \/ p.scalar = {}
            /\ (IF p.nodes = Absent THEN {p.scalar} ELSE {p.nodes[i] : i \in DOMAIN p.nodes})
                 = {Address}
<1>1. p.nodes \in (UNION {[1..n -> SUBSET Address] : n \in 0..MaxNodes}) \cup {Absent}
  BY DEF AliasParams
<1>2. CASE p.nodes = Absent
  BY <1>2 DEF NodesError, Address
<1>3. CASE p.nodes # Absent
  <2>1. PICK n \in 0..MaxNodes : p.nodes \in [1..n -> SUBSET Address]
    BY <1>1, <1>3
  <2>2. p.nodes = <<>> <=> n = 0
    BY <2>1
  <2>3. {p.nodes[i] : i \in DOMAIN p.nodes} = {Address}
          <=> n # 0 /\ \A i \in DOMAIN p.nodes : p.nodes[i] = Address
    <3>1. n \in Nat /\ DOMAIN p.nodes = 1..n
      BY <2>1, SettingsAssumption
    <3>2. CASE n = 0
      BY <3>1, <3>2
    <3>3. CASE n # 0
      <4>1. 1 \in DOMAIN p.nodes
        BY <3>1, <3>3
      <4> QED
        BY <3>3, <4>1
    <3> QED
      BY <3>2, <3>3
  <2> QED
    BY <1>3, <2>2, <2>3 DEF NodesError
<1> QED
  BY <1>2, <1>3

\* An alias is rejected exactly when what the library needs of it is not there, a NaN
\* timeout aside.
THEOREM RejectsTheUnusable ==
  ASSUME NEW p \in AliasParams
  PROVE  BuildError(p) = "none" <=> Usable(NaNAside(p))
<1> DEFINE q == NaNAside(p)
<1>1. p.timeouts \subseteq Timeouts /\ p.valid \in BOOLEAN
  BY DEF AliasParams
<1>2. /\ q.nodes = p.nodes /\ q.scalar = p.scalar
      /\ q.complete = p.complete /\ q.valid = p.valid
      /\ q.timeouts = p.timeouts \ {"nan"}
  BY DEF NaNAside, AliasParams
<1>3. TimeoutsError(p.timeouts) = "none" <=> q.timeouts \subseteq {"positive"}
  BY <1>1, <1>2 DEF TimeoutsError, RejectsTimeout, Timeouts
<1>4. (NodesError(p) = "none") <=>
        /\ p.nodes = Absent \/ p.scalar = {}
        /\ (IF p.nodes = Absent THEN {p.scalar} ELSE {p.nodes[i] : i \in DOMAIN p.nodes})
             = {Address}
  BY NodesAreUsable
<1>5. (BuildError(p) = "none") <=>
        (NodesError(p) = "none" /\ p.complete /\ p.valid /\ TimeoutsError(p.timeouts) = "none")
  BY <1>1 DEF BuildError, AliasError, ManagerError
<1>6. Usable(q) <=>
        /\ p.nodes = Absent \/ p.scalar = {}
        /\ (IF p.nodes = Absent THEN {p.scalar} ELSE {p.nodes[i] : i \in DOMAIN p.nodes})
             = {Address}
        /\ p.complete /\ p.valid
        /\ q.timeouts \subseteq {"positive"}
  BY <1>2 DEF Usable
<1> HIDE DEF q
<1>7. BuildError(p) = "none" <=> Usable(q)
  BY <1>3, <1>4, <1>5, <1>6, Zenon
<1> QED
  BY <1>7 DEF q

\* What the tests raise is an error that ready() may raise.
LEMMA ErrorsAreKnown ==
  /\ \A p : BuildError(p) \in {"none", "ImproperlyConfigured", "KeyError", "TypeError"}
  /\ \A h : HealthError(h) \in {"none", "ImproperlyConfigured", "KeyError"}
<1>1. \A ts : TimeoutsError(ts) \in {"none", "ImproperlyConfigured"}
  BY DEF TimeoutsError
<1>2. \A p : NodesError(p) \in {"none", "ImproperlyConfigured", "KeyError"}
  BY DEF NodesError
<1> QED
  BY <1>1, <1>2 DEF BuildError, AliasError, ManagerError, HealthError

-----------------------------------------------------------------------------
(* ready() *)

\* The invariant holds when ready() is called.
LEMMA SettingsInitInv == SettingsInit => SettingsInv
<1> SUFFICES ASSUME SettingsInit PROVE SettingsInv
  OBVIOUS
<1>1. DOMAIN accepted = {}
  BY DEF SettingsInit
<1> QED
  BY <1>1 DEF SettingsInit, SettingsInv, SettingsTypeOK, PublishInv, AcceptsWhatIsUsable, Dictionaries

\* Every step of ready() keeps it.
LEMMA ReadyKeepsInv ==
  ASSUME SettingsInv, Ready
  PROVE  SettingsInv'
<1> USE DEF SettingsInv
<1>1. CASE Load
  BY <1>1 DEF Load, Raise, SettingsTypeOK, PublishInv, AcceptsWhatIsUsable
<1>2. ASSUME NEW a \in KnownAliases, BuildAlias(a)
      PROVE  SettingsInv'
  <2>1. PICK p \in AliasParams :
          \/ BuildError(p) # "none" /\ Raise(BuildError(p), p)
          \/ /\ BuildError(p) = "none"
             /\ accepted' = With(accepted, a, p)
             /\ KeepsLocal(a)
             /\ UNCHANGED <<phase, connections, error, culprit>>
    BY <1>2, Zenon DEF BuildAlias
  <2>2. phase = "build" /\ a \in connections \ DOMAIN accepted
    BY <1>2, Zenon DEF BuildAlias
  <2>3. CASE BuildError(p) # "none" /\ Raise(BuildError(p), p)
    <3>1. ~Usable(NaNAside(p))
      BY <2>3, RejectsTheUnusable
    <3>2. ~Usable(NaNAside(culprit'))
      BY <2>3, <3>1 DEF Raise
    <3> QED
      BY <2>2, <2>3, <3>2, ErrorsAreKnown
      DEF Raise, SettingsTypeOK, PublishInv, AcceptsWhatIsUsable
  <2>4. CASE /\ BuildError(p) = "none"
             /\ accepted' = With(accepted, a, p)
             /\ KeepsLocal(a)
             /\ UNCHANGED <<phase, connections, error, culprit>>
    <3>1. Usable(NaNAside(p))
      BY <2>4, RejectsTheUnusable
    <3>2. /\ DOMAIN accepted' = {a} \cup DOMAIN accepted
          /\ accepted'[a] = p
          /\ \A b \in DOMAIN accepted : b # a => accepted'[b] = accepted[b]
      BY <2>4 DEF With
    <3> QED
      BY <2>2, <2>4, <3>1, <3>2
      DEF KeepsLocal, SettingsTypeOK, PublishInv, AcceptsWhatIsUsable
  <2> QED
    BY <2>1, <2>3, <2>4
<1>3. CASE Publish
  BY <1>3 DEF Publish, SettingsTypeOK, PublishInv, AcceptsWhatIsUsable, Dictionaries
<1>4. CASE BuildHealthcheckConfig
  <2>1. phase = "health" /\ UNCHANGED <<connections, accepted, dictionaries>>
    BY <1>4, Zenon DEF BuildHealthcheckConfig, Raise
  <2>2. \/ phase' = "failed" /\ error' \in {"ImproperlyConfigured", "KeyError"}
        \/ phase' = "up" /\ UNCHANGED error
    BY <1>4, ErrorsAreKnown DEF BuildHealthcheckConfig, Raise
  <2>3. dictionaries["connection_managers"] # {}
    BY <2>1 DEF PublishInv, Dictionaries
  <2> QED
    BY <2>1, <2>2, <2>3 DEF SettingsTypeOK, PublishInv, AcceptsWhatIsUsable
<1> QED
  BY <1>1, <1>2, <1>3, <1>4 DEF Ready

\* Once ready() is over, the dictionaries agree whatever became of it.
LEMMA PublishedTogether == PublishInv /\ SettingsTypeOK => DictionariesAgree
  BY DEF PublishInv, SettingsTypeOK, DictionariesAgree

=============================================================================
