------------------------- MODULE SetupTopologyProofs -------------------------
(***************************************************************************)
(* Proofs about SetupTopology, for any aliases, setup functions, brokers   *)
(* and numbers of runs and faults.                                         *)
(*                                                                         *)
(* The facts about one alias are stated of its calls cs and of what is on  *)
(* its broker b, without the state, and proved first.                      *)
(***************************************************************************)
EXTENDS SetupTopology, SettingsProofs

\* What a setup function may call
WellFormed(cs) ==
    /\ Len(cs) \in Nat /\ DOMAIN cs = 1..Len(cs)
    /\ \A i \in DOMAIN cs : LET c == cs[i] IN
          /\ c.name \in Entities /\ c.needs \subseteq Entities
          /\ c.valid \in BOOLEAN /\ c.passive \in BOOLEAN /\ c.tolerant \in BOOLEAN
          /\ Arguments(c.config) # Missing

\* What a call that the broker takes leaves there
Made(b, c) == IF c.passive THEN b ELSE [b EXCEPT ![c.name] = Arguments(c.config)]

\* What one step, of this command or of another, may do to a broker
Moves(b, b2, cs) ==
    b2 = b \/ \E i \in DOMAIN cs : Accepts(b, cs[i]) /\ b2 = Made(b, cs[i])

\* What is on a broker was there before, or has the arguments of a call that declares it
FromCalls(b0, b, cs) ==
    \A e \in Entities :
        /\ b0[e] # Missing => b[e] = b0[e]
        /\ \/ b[e] = b0[e]
           \/ \E i \in DOMAIN cs : /\ cs[i].name = e /\ ~cs[i].passive
                                   /\ b[e] = Arguments(cs[i].config)

\* The calls before n declared what they are to declare
MadeBefore(cs, n, b) ==
    \A i \in 1..(n - 1) : ~cs[i].passive => b[cs[i].name] # Missing

\* Only calls that declare and do not swallow name e
Plain(cs, e) == \A j \in DOMAIN cs : cs[j].name = e => ~cs[j].passive /\ ~cs[j].tolerant

\* The record r of the calls before n is true of the broker
TrueRecord(r, cs, n, b) ==
    /\ \A i \in 1..(n - 1) : /\ cs[i].name \in DOMAIN r
                             /\ ~cs[i].tolerant => b[cs[i].name] # Missing
    /\ \A e \in DOMAIN r : Plain(cs, e) => b[e] # Missing /\ r[e] = b[e]

\* RecordingChannel's record with one more call
Recorded(r, c) == IF c.name \in DOMAIN r THEN r ELSE With(r, c.name, Arguments(c.config))

\* Sound(a), of the calls and of the broker they met
SoundCalls(cs, b0) ==
    \A i \in DOMAIN cs :
        LET c == cs[i]
            there(e) == b0[e] # Missing \/ \E j \in 1..(i - 1) : cs[j].name = e /\ ~cs[j].passive
        IN  /\ c.valid
            /\ \A e \in c.needs : there(e)
            /\ c.passive => there(c.name)
            /\ ~c.passive => b0[c.name] \in {Missing, Arguments(c.config)}
            /\ \A j \in DOMAIN cs : LET d == cs[j] IN
                  d.name = c.name /\ ~c.passive /\ ~d.passive => d.config = c.config

-----------------------------------------------------------------------------
(* One broker and its calls *)

\* What is on a broker keeps its arguments: a declaration is refused that has others.
LEMMA BrokerKeeps ==
  ASSUME NEW cs, WellFormed(cs), NEW b, DOMAIN b = Entities, NEW b2, Moves(b, b2, cs)
  PROVE  /\ DOMAIN b2 = Entities
         /\ \A e \in Entities : b[e] # Missing => b2[e] = b[e]
         /\ \A e \in Entities : b2[e] = b[e] \/ \E i \in DOMAIN cs :
               cs[i].name = e /\ ~cs[i].passive /\ b2[e] = Arguments(cs[i].config)
<1>1. CASE b2 = b
  BY <1>1
<1>2. ASSUME NEW i \in DOMAIN cs, Accepts(b, cs[i]), b2 = Made(b, cs[i])
      PROVE  /\ DOMAIN b2 = Entities
             /\ \A e \in Entities : b[e] # Missing => b2[e] = b[e]
             /\ \A e \in Entities : b2[e] = b[e] \/
                  (cs[i].name = e /\ ~cs[i].passive /\ b2[e] = Arguments(cs[i].config))
  <2>1. cs[i].name \in Entities
    BY <1>2 DEF WellFormed
  <2>2. CASE cs[i].passive
    BY <1>2, <2>2 DEF Made
  <2>3. CASE ~cs[i].passive
    BY <1>2, <2>1, <2>3 DEF Made, Accepts
  <2> QED
    BY <2>2, <2>3
<1> QED
  BY <1>1, <1>2 DEF Moves

\* So the broker still holds what was there, and what the calls made of the rest.
LEMMA HistoryMoves ==
  ASSUME NEW cs, WellFormed(cs), NEW b0, NEW b, DOMAIN b = Entities, NEW b2,
         Moves(b, b2, cs), FromCalls(b0, b, cs)
  PROVE  FromCalls(b0, b2, cs)
<1>1. \A e \in Entities : b[e] # Missing => b2[e] = b[e]
  BY BrokerKeeps
<1>2. \A e \in Entities : b2[e] = b[e] \/ \E i \in DOMAIN cs :
        cs[i].name = e /\ ~cs[i].passive /\ b2[e] = Arguments(cs[i].config)
  BY BrokerKeeps
<1> QED
  BY <1>1, <1>2 DEF FromCalls

\* A record stays true whatever is declared next.
LEMMA RecordStaysTrue ==
  ASSUME NEW cs, WellFormed(cs), NEW b, DOMAIN b = Entities, NEW b2, Moves(b, b2, cs),
         NEW n \in Nat, n <= Len(cs) + 1, NEW r, DOMAIN r \subseteq Entities,
         TrueRecord(r, cs, n, b)
  PROVE  TrueRecord(r, cs, n, b2)
<1>1. \A e \in Entities : b[e] # Missing => b2[e] = b[e]
  BY BrokerKeeps
<1>2. \A i \in 1..(n - 1) : cs[i].name \in Entities
  BY DEF WellFormed
<1> QED
  BY <1>1, <1>2 DEF TrueRecord

\* The calls before n are still made.
LEMMA StaysMade ==
  ASSUME NEW cs, WellFormed(cs), NEW b, DOMAIN b = Entities, NEW b2, Moves(b, b2, cs),
         NEW n \in Nat, n <= Len(cs) + 1, MadeBefore(cs, n, b)
  PROVE  MadeBefore(cs, n, b2)
<1>1. \A e \in Entities : b[e] # Missing => b2[e] = b[e]
  BY BrokerKeeps
<1>2. \A i \in 1..(n - 1) : cs[i].name \in Entities
  BY DEF WellFormed
<1> QED
  BY <1>1, <1>2 DEF MadeBefore

\* A record takes in the call that the broker took: were its entity recorded with other
\* arguments, the broker would have refused.
LEMMA RecordsTheTaken ==
  ASSUME NEW cs, WellFormed(cs), NEW b, DOMAIN b = Entities,
         NEW n \in DOMAIN cs, NEW r, DOMAIN r \subseteq Entities,
         TrueRecord(r, cs, n, b), Accepts(b, cs[n])
  PROVE  TrueRecord(Recorded(r, cs[n]), cs, n + 1, Made(b, cs[n]))
<1> DEFINE c == cs[n]
           b2 == Made(b, c)
           r2 == Recorded(r, c)
<1>1. /\ n \in Nat /\ n <= Len(cs)
      /\ c.name \in Entities /\ c.passive \in BOOLEAN /\ c.tolerant \in BOOLEAN
      /\ Arguments(c.config) # Missing
  BY DEF WellFormed
<1>2. Moves(b, b2, cs)
  BY DEF Moves
<1>3. TrueRecord(r, cs, n, b2)
  BY <1>1, <1>2, RecordStaysTrue
<1>4. b2[c.name] # Missing
  BY <1>1 DEF Made, Accepts
<1>5. ~c.passive => b2[c.name] = Arguments(c.config)
  BY <1>1 DEF Made
<1>6. /\ DOMAIN r2 = DOMAIN r \cup {c.name}
      /\ \A e \in DOMAIN r : r2[e] = r[e]
      /\ c.name \notin DOMAIN r => r2[c.name] = Arguments(c.config)
  BY DEF Recorded, With
<1>7. ASSUME NEW i \in 1..n
      PROVE  cs[i].name \in DOMAIN r2 /\ (~cs[i].tolerant => b2[cs[i].name] # Missing)
  <2>1. i = n \/ i \in 1..(n - 1)
    BY <1>1
  <2> QED
    BY <2>1, <1>3, <1>4, <1>6 DEF TrueRecord
<1>8. ASSUME NEW e \in DOMAIN r2, Plain(cs, e)
      PROVE  b2[e] # Missing /\ r2[e] = b2[e]
  <2>1. CASE e \in DOMAIN r
    BY <2>1, <1>3, <1>6, <1>8 DEF TrueRecord
  <2>2. CASE e \notin DOMAIN r
    <3>1. e = c.name
      BY <2>2, <1>6
    <3>2. ~c.passive
      BY <3>1, <1>8 DEF Plain
    <3> QED
      BY <2>2, <3>1, <3>2, <1>4, <1>5, <1>6
  <2> QED
    BY <2>1, <2>2
<1>9. 1..((n + 1) - 1) = 1..n
  BY <1>1
<1> HIDE DEF c, b2, r2
<1>10. TrueRecord(r2, cs, n + 1, b2)
  BY <1>7, <1>8, <1>9 DEF TrueRecord
<1> QED
  BY <1>10 DEF c, b2, r2

\* And the call whose refusal is swallowed, which makes its entity not plain.
LEMMA RecordsTheSwallowed ==
  ASSUME NEW cs, WellFormed(cs), NEW b, NEW n \in DOMAIN cs, NEW r,
         TrueRecord(r, cs, n, b), cs[n].tolerant
  PROVE  TrueRecord(Recorded(r, cs[n]), cs, n + 1, b)
<1> DEFINE c == cs[n]
           r2 == Recorded(r, c)
<1>1. n \in Nat
  BY DEF WellFormed
<1>2. /\ DOMAIN r2 = DOMAIN r \cup {c.name}
      /\ \A e \in DOMAIN r : r2[e] = r[e]
  BY DEF Recorded, With
<1>3. ~Plain(cs, c.name)
  BY DEF Plain
<1>4. ASSUME NEW i \in 1..((n + 1) - 1)
      PROVE  cs[i].name \in DOMAIN r2 /\ (~cs[i].tolerant => b[cs[i].name] # Missing)
  <2>1. i = n \/ i \in 1..(n - 1)
    BY <1>1
  <2> QED
    BY <2>1, <1>2 DEF TrueRecord
<1>5. ASSUME NEW e \in DOMAIN r2, Plain(cs, e)
      PROVE  b[e] # Missing /\ r2[e] = b[e]
  <2>1. e \in DOMAIN r
    BY <1>2, <1>3, <1>5
  <2> QED
    BY <2>1, <1>2, <1>5 DEF TrueRecord
<1> HIDE DEF c, r2
<1>6. TrueRecord(r2, cs, n + 1, b)
  BY <1>4, <1>5 DEF TrueRecord
<1> QED
  BY <1>6 DEF c, r2

\* A sound setup's call is valid, and taken whatever earlier runs left on the broker.
LEMMA SoundIsTaken ==
  ASSUME NEW cs, WellFormed(cs), NEW b0, NEW b, SoundCalls(cs, b0), FromCalls(b0, b, cs),
         NEW n \in DOMAIN cs, MadeBefore(cs, n, b)
  PROVE  cs[n].valid /\ Accepts(b, cs[n])
<1> DEFINE c == cs[n]
           there(e) == b0[e] # Missing \/ \E j \in 1..(n - 1) : cs[j].name = e /\ ~cs[j].passive
<1>1. c.name \in Entities /\ c.needs \subseteq Entities /\ c.passive \in BOOLEAN
  BY DEF WellFormed
<1>2. /\ c.valid
      /\ \A e \in c.needs : there(e)
      /\ c.passive => there(c.name)
      /\ ~c.passive => b0[c.name] \in {Missing, Arguments(c.config)}
      /\ \A j \in DOMAIN cs : cs[j].name = c.name /\ ~c.passive /\ ~cs[j].passive
                              => cs[j].config = c.config
  BY DEF SoundCalls
<1>3. \A e \in Entities : there(e) => b[e] # Missing
  BY DEF FromCalls, MadeBefore
<1>4. ~c.passive => b[c.name] \in {Missing, Arguments(c.config)}
  <2> SUFFICES ASSUME ~c.passive PROVE b[c.name] \in {Missing, Arguments(c.config)}
    OBVIOUS
  <2>1. CASE b[c.name] = b0[c.name]
    BY <2>1, <1>2
  <2>2. ASSUME NEW i \in DOMAIN cs, cs[i].name = c.name, ~cs[i].passive,
               b[c.name] = Arguments(cs[i].config)
        PROVE  b[c.name] \in {Missing, Arguments(c.config)}
    <3>1. cs[i].config = c.config
      BY <2>2, <1>2
    <3> QED
      BY <2>2, <3>1
  <2> QED
    BY <1>1, <2>1, <2>2 DEF FromCalls
<1> QED
  BY <1>1, <1>2, <1>3, <1>4 DEF Accepts

\* With the call that was taken, one more is made.
LEMMA OneMoreMade ==
  ASSUME NEW cs, WellFormed(cs), NEW b, DOMAIN b = Entities, NEW n \in DOMAIN cs,
         MadeBefore(cs, n, b), Accepts(b, cs[n])
  PROVE  MadeBefore(cs, n + 1, Made(b, cs[n]))
<1>1. n \in Nat /\ n <= Len(cs)
  BY DEF WellFormed
<1>2. MadeBefore(cs, n, Made(b, cs[n]))
  BY <1>1, StaysMade DEF Moves
<1>3. ~cs[n].passive => Made(b, cs[n])[cs[n].name] # Missing
  BY DEF Made, WellFormed
<1>4. \A i \in 1..((n + 1) - 1) : i = n \/ i \in 1..(n - 1)
  BY <1>1
<1> QED
  BY <1>2, <1>3, <1>4 DEF MadeBefore

-----------------------------------------------------------------------------
(* The inductive invariant *)

Working == {"run", "finally", "report"}

\* The functions are registered once, for the aliases of the settings, and the brokers are
\* what these functions made of what was there before.
RegistryInv ==
    /\ setups = <<>> => cmd = "off" /\ DOMAIN broker = {}
    /\ setups # <<>> =>
          /\ phase = "up" /\ DOMAIN setups = connections /\ DOMAIN broker = connections
          /\ \A a \in connections : /\ WellFormed(setups[a]) /\ DOMAIN broker[a] = Entities
                                    /\ FromCalls(before[a], broker[a], setups[a])

\* The channel belongs to the alias the command works on.
CommandInv ==
    /\ cmd \in Working \cup {"abort"} => alias \in connections
    /\ cmd \in Working =>
          /\ call \in Nat \ {0} /\ call <= Len(Calls) + 1
          /\ TrueRecord(record, Calls, call, broker[alias])
    /\ cmd \in {"finally", "report"} => call = Len(Calls) + 1
    /\ cmd \in {"off", "next", "report", "done", "failed"} => channel # "open"

\* What was reported is true.
ReportInv ==
    /\ cmd = "off" => DOMAIN report = {}
    /\ \A a \in DOMAIN report :
          /\ a \in connections /\ DOMAIN report[a] \subseteq Entities
          /\ TrueRecord(report[a], setups[a], Len(setups[a]) + 1, broker[a])

\* While nothing fails, a sound setup is on its way.
SoundInv ==
    /\ faulty \in BOOLEAN
    /\ cmd = "run" /\ ~faulty /\ SoundCalls(Calls, before[alias]) =>
          channel = "open" /\ MadeBefore(Calls, call, broker[alias])
    /\ cmd = "abort" => faulty \/ ~SoundCalls(Calls, before[alias])
    /\ cmd = "failed" =>
          faulty \/ ~(todo \subseteq connections) \/ ~SoundCalls(Calls, before[alias])

Inv ==
    /\ SettingsInv /\ SetupTypeOK
    /\ RegistryInv /\ CommandInv /\ ReportInv /\ SoundInv

-----------------------------------------------------------------------------
(* What the steps do *)

\* A call is recorded and then taken, swallowed or raised, and what it does not get through
\* is its own fault, the channel's, the broker's or the network's.
LEMMA DeclareEffect ==
  ASSUME Inv, Declare
  PROVE  /\ alias \in connections /\ call \in DOMAIN Calls /\ WellFormed(Calls)
         /\ DOMAIN broker[alias] = Entities
         /\ record' = Recorded(record, Calls[call])
         /\ UNCHANGED <<fixed, todo, alias, report>>
         /\ DOMAIN broker' = DOMAIN broker
         /\ \A a \in connections : a # alias => broker'[a] = broker[a]
         /\ \/ broker'[alias] = broker[alias]
            \/ /\ Accepts(broker[alias], Calls[call])
               /\ broker'[alias] = Made(broker[alias], Calls[call])
         /\ \/ /\ Accepts(broker[alias], Calls[call])
               /\ broker'[alias] = Made(broker[alias], Calls[call])
               /\ call' = call + 1 /\ UNCHANGED <<cmd, channel, faulty>>
            \/ /\ \/ Calls[call].tolerant /\ call' = call + 1 /\ UNCHANGED cmd
                  \/ cmd' = "abort" /\ UNCHANGED call
               /\ channel' \in {channel, "closed"}
               /\ \/ faulty'
                  \/ /\ UNCHANGED faulty
                     /\ \/ ~Calls[call].valid \/ channel = "closed"
                        \/ ~Accepts(broker[alias], Calls[call])
<1> DEFINE c == Calls[call]
<1>1. /\ cmd = "run" /\ setups # <<>> /\ call <= Len(Calls) /\ call \in Nat \ {0}
      /\ alias \in connections
  BY DEF Declare, Inv, CommandInv, RegistryInv, Working
<1>2. /\ WellFormed(Calls) /\ DOMAIN broker[alias] = Entities
      /\ DOMAIN broker = connections
  BY <1>1 DEF Inv, RegistryInv, Calls
<1>3. call \in DOMAIN Calls
  BY <1>1, <1>2 DEF WellFormed
<1>4. c.name \in Entities /\ c.valid \in BOOLEAN /\ c.tolerant \in BOOLEAN /\ c.passive \in BOOLEAN
  BY <1>2, <1>3 DEF WellFormed
<1>5. record' = Recorded(record, c) /\ UNCHANGED <<fixed, todo, alias, report>>
  BY DEF Declare, Recorded
<1>6. /\ DOMAIN broker' = DOMAIN broker
      /\ \A a \in connections : a # alias => broker'[a] = broker[a]
      /\ \/ broker'[alias] = broker[alias]
         \/ Accepts(broker[alias], c) /\ broker'[alias] = Made(broker[alias], c)
  <2>1. UNCHANGED broker \/ (Accepts(broker[alias], c) /\ Make(c))
    BY DEF Declare, Forwarded
  <2>2. CASE Accepts(broker[alias], c) /\ Make(c)
    BY <1>1, <1>2, <1>4, <2>2 DEF Make, Made
  <2> QED
    BY <2>1, <2>2
<1>7. \/ /\ c.valid /\ channel = "open" /\ Accepts(broker[alias], c) /\ Make(c)
         /\ call' = call + 1 /\ UNCHANGED <<cmd, channel, faulty>>
      \/ /\ RefusalRaised(c)
         /\ channel' \in {channel, "closed"}
         /\ \/ faulty'
            \/ UNCHANGED faulty /\ (~c.valid \/ channel = "closed" \/ ~Accepts(broker[alias], c))
  BY Zenon DEF Declare, Forwarded, NetworkHolds, NetworkFails
<1>8. Make(c) => broker'[alias] = Made(broker[alias], c)
  BY <1>1, <1>2, <1>4 DEF Make, Made
<1>9. RefusalRaised(c) => \/ c.tolerant /\ call' = call + 1 /\ UNCHANGED cmd
                          \/ cmd' = "abort" /\ UNCHANGED call
  BY Zenon DEF RefusalRaised, Goto
<1> QED
  BY <1>1, <1>2, <1>3, <1>5, <1>6, <1>7, <1>8, <1>9, Zenon

\* Once the functions are registered, a step leaves them and the settings alone, and moves
\* each broker as its calls do.
LEMMA StepMoves ==
  ASSUME Inv, setups # <<>>, [Next]_vars
  PROVE  /\ UNCHANGED <<settingsVars, setups, before>>
         /\ DOMAIN broker' = connections
         /\ \A a \in connections : Moves(broker[a], broker'[a], setups[a])
<1> USE DEF fixed, loop
<1>0. /\ phase = "up" /\ DOMAIN broker = connections
      /\ \A a \in connections : WellFormed(setups[a]) /\ DOMAIN broker[a] = Entities
  BY DEF Inv, RegistryInv
<1>u. ASSUME UNCHANGED <<settingsVars, setups, before, broker>>
      PROVE  /\ UNCHANGED <<settingsVars, setups, before>>
             /\ DOMAIN broker' = connections
             /\ \A a \in connections : Moves(broker[a], broker'[a], setups[a])
  BY <1>0, <1>u DEF Moves
<1>1. ~ReadyRuns
  BY <1>0 DEF ReadyRuns, Ready, Load, BuildAlias, Publish, BuildHealthcheckConfig
<1>2. ~Register
  BY DEF Register
<1>3. CASE Start
  BY <1>3, <1>u DEF Start
<1>4. ASSUME NEW a \in KnownAliases, OpenChannel(a)
      PROVE  UNCHANGED <<settingsVars, setups, before, broker>>
  BY <1>4 DEF OpenChannel
<1>5. CASE Declare
  <2>1. /\ UNCHANGED <<settingsVars, setups, before>>
        /\ DOMAIN broker' = connections
        /\ \A a \in connections : a # alias => broker'[a] = broker[a]
        /\ alias \in connections /\ call \in DOMAIN Calls
        /\ \/ broker'[alias] = broker[alias]
           \/ /\ Accepts(broker[alias], Calls[call])
              /\ broker'[alias] = Made(broker[alias], Calls[call])
    BY <1>0, <1>5, DeclareEffect
  <2> QED
    BY <2>1 DEF Moves, Calls
<1>6. CASE RunAllReturns \/ CloseChannel \/ Report \/ Finish
  BY <1>6, <1>u DEF RunAllReturns, CloseChannel, Report, Finish
<1>7. ASSUME NEW a \in KnownAliases, AnotherDeploys(a)
      PROVE  /\ UNCHANGED <<settingsVars, setups, before>>
             /\ DOMAIN broker' = connections
             /\ \A d \in connections : Moves(broker[d], broker'[d], setups[d])
  <2>1. UNCHANGED <<settingsVars, setups, before>> /\ a \in connections
    BY <1>7 DEF AnotherDeploys
  <2>2. PICK i \in DOMAIN setups[a] :
          /\ ~setups[a][i].passive /\ Accepts(broker[a], setups[a][i])
          /\ broker' = [broker EXCEPT ![a][setups[a][i].name] = Arguments(setups[a][i].config)]
    BY <1>7, Zenon DEF AnotherDeploys
  <2>3. /\ DOMAIN broker' = connections
        /\ \A d \in connections : d # a => broker'[d] = broker[d]
        /\ broker'[a] = Made(broker[a], setups[a][i])
    BY <1>0, <2>1, <2>2 DEF Made
  <2> QED
    BY <2>1, <2>2, <2>3 DEF Moves
<1>8. CASE Over \/ UNCHANGED vars
  BY <1>8, <1>u DEF Over, vars, history
<1> QED
  BY <1>1, <1>2, <1>3, <1>4, <1>5, <1>6, <1>7, <1>8, <1>u DEF Next

\* Before, only ready() runs, until the functions are registered.
LEMMA StepBefore ==
  ASSUME Inv, setups = <<>>, [Next]_vars
  PROVE  ReadyRuns \/ Register \/ UNCHANGED vars
<1>1. cmd = "off"
  BY DEF Inv, RegistryInv
<1>2. ~Start
  BY DEF Start
<1> QED
  BY <1>1, <1>2
  DEF Next, OpenChannel, Declare, RunAllReturns, CloseChannel, Report, Finish, Over, AnotherDeploys

-----------------------------------------------------------------------------
(* The invariant is kept *)

\* The settings and the registered functions.
LEMMA NextRegistry ==
  ASSUME Inv, [Next]_vars
  PROVE  SettingsInv' /\ RegistryInv'
<1>1. CASE setups = <<>>
  <2>1. cmd = "off" /\ DOMAIN broker = {}
    BY <1>1 DEF Inv, RegistryInv
  <2>2. CASE ReadyRuns
    <3>1. SettingsInv'
      BY <2>2, ReadyKeepsInv DEF ReadyRuns, Inv
    <3> QED
      BY <1>1, <2>1, <2>2, <3>1 DEF ReadyRuns, RegistryInv
  <2>3. CASE Register
    <3>1. PICK s \in Setups : setups' = [a \in dictionaries["setup_registries"] |-> s[a]]
      BY <2>3 DEF Register
    <3>2. dictionaries["setup_registries"] = connections /\ connections # {}
      BY <2>3 DEF Register, Inv, SettingsInv, PublishInv, Dictionaries
    <3>3. connections \subseteq KnownAliases
      BY DEF Inv, SettingsInv, SettingsTypeOK
    <3>4. \A a \in connections : setups'[a] = s[a] /\ WellFormed(s[a])
      BY <3>1, <3>2, <3>3, SetupAssumption DEF WellFormed
    <3>5. DOMAIN setups' = connections /\ setups' # <<>>
      BY <3>1, <3>2
    <3>6. /\ broker' \in [connections -> Brokers] /\ before' = broker'
          /\ accepted' = <<>>
          /\ UNCHANGED <<phase, connections, dictionaries, error, culprit>> /\ phase = "up"
      BY <2>3 DEF Register
    <3>7. \A a \in connections : DOMAIN broker'[a] = Entities
      BY <3>6, SetupAssumption
    <3>8. \A a \in connections : FromCalls(before'[a], broker'[a], setups'[a])
      BY <3>6 DEF FromCalls
    <3>9. RegistryInv'
      BY <3>4, <3>5, <3>6, <3>7, <3>8 DEF RegistryInv
    <3>10. SettingsInv'
      <4>1. DOMAIN accepted' = {}
        BY <3>6
      <4> QED
        BY <3>6, <4>1
        DEF Inv, SettingsInv, SettingsTypeOK, PublishInv, AcceptsWhatIsUsable
    <3> QED
      BY <3>9, <3>10
  <2>4. CASE UNCHANGED vars
    BY <2>4 DEF Inv, SettingsInv, SettingsTypeOK, PublishInv, AcceptsWhatIsUsable, RegistryInv,
                vars, settingsVars, history
  <2> QED
    BY <1>1, <2>2, <2>3, <2>4, StepBefore
<1>2. CASE setups # <<>>
  <2>1. /\ UNCHANGED <<settingsVars, setups, before>>
        /\ DOMAIN broker' = connections
        /\ \A a \in connections : Moves(broker[a], broker'[a], setups[a])
    BY <1>2, StepMoves
  <2>2. SettingsInv'
    BY <2>1 DEF Inv, SettingsInv, SettingsTypeOK, PublishInv, AcceptsWhatIsUsable, settingsVars
  <2>3. \A a \in connections : /\ WellFormed(setups[a]) /\ DOMAIN broker[a] = Entities
                               /\ FromCalls(before[a], broker[a], setups[a])
    BY <1>2 DEF Inv, RegistryInv
  <2>4. \A a \in connections : DOMAIN broker'[a] = Entities
    BY <2>1, <2>3, BrokerKeeps
  <2>5. \A a \in connections : FromCalls(before[a], broker'[a], setups[a])
    BY <2>1, <2>3, HistoryMoves
  <2>6. RegistryInv'
    BY <1>2, <2>1, <2>3, <2>4, <2>5 DEF Inv, RegistryInv, settingsVars
  <2> QED
    BY <2>2, <2>6
<1> QED
  BY <1>1, <1>2

\* The types of the command's variables.
LEMMA NextTypes ==
  ASSUME Inv, [Next]_vars
  PROVE  SetupTypeOK'
<1> USE DEF fixed, loop, history, Goto
<1> DEFINE CommandTypes ==
             /\ cmd \in {"off", "next", "run", "finally", "abort", "report", "done", "failed"}
             /\ todo \subseteq KnownAliases
             /\ channel \in {"none", "open", "closed"}
             /\ DOMAIN record \subseteq Entities /\ DOMAIN report \subseteq KnownAliases
<1>0. SettingsInv' /\ RegistryInv'
  BY NextRegistry
<1>1. SettingsTypeOK' /\ \A a \in DOMAIN broker' : DOMAIN broker'[a] = Entities
  BY <1>0 DEF SettingsInv, RegistryInv
<1>2. connections \subseteq KnownAliases /\ CommandTypes
  BY DEF Inv, SetupTypeOK, SettingsTypeOK
<1>3. CASE ReadyRuns \/ Register \/ Over \/ UNCHANGED vars
  <2>1. UNCHANGED <<cmd, todo, channel, record, report>>
    BY <1>3 DEF ReadyRuns, Register, Over, vars
  <2> QED
    BY <1>1, <1>2, <2>1 DEF SetupTypeOK
<1>4. CASE Start
  <2>1. setups # <<>> /\ dictionaries["connection_managers"] \subseteq KnownAliases
    BY <1>4 DEF Start, Inv, SettingsInv, SettingsTypeOK, Dictionaries
  <2>2. todo' \subseteq KnownAliases
    BY <1>4, <2>1 DEF Start, Asked
  <2>3. cmd' = "next" /\ channel' = "none" /\ DOMAIN record' = {} /\ DOMAIN report' = {}
    BY <1>4 DEF Start
  <2> QED
    BY <1>1, <2>2, <2>3 DEF SetupTypeOK
<1>5. ASSUME NEW a \in KnownAliases, OpenChannel(a)
      PROVE  CommandTypes'
  <2>1. DOMAIN record' = {}
    BY <1>5 DEF OpenChannel
  <2> QED
    BY <1>2, <1>5, <2>1 DEF OpenChannel
<1>6. CASE Declare
  <2>1. /\ call \in DOMAIN Calls /\ WellFormed(Calls) /\ record' = Recorded(record, Calls[call])
        /\ UNCHANGED <<todo, report>> /\ cmd' \in {cmd, "abort"} /\ channel' \in {channel, "closed"}
    BY <1>6, DeclareEffect
  <2>2. DOMAIN record' \subseteq Entities
    BY <1>2, <2>1 DEF WellFormed, Recorded, With
  <2> QED
    BY <1>1, <1>2, <2>1, <2>2 DEF SetupTypeOK
<1>7. CASE RunAllReturns \/ Finish
  BY <1>1, <1>2, <1>7 DEF RunAllReturns, Finish, SetupTypeOK
<1>8. CASE CloseChannel
  BY <1>1, <1>2, <1>8 DEF CloseChannel, ClosesChannel, SetupTypeOK
<1>9. CASE Report
  <2>1. alias \in connections
    BY <1>9 DEF Report, Inv, CommandInv, Working
  <2>2. DOMAIN report' = DOMAIN report \cup {alias}
    BY <1>9 DEF Report, With
  <2> QED
    BY <1>1, <1>2, <1>9, <2>1, <2>2 DEF Report, SetupTypeOK
<1>10. ASSUME NEW a \in KnownAliases, AnotherDeploys(a)
       PROVE  CommandTypes'
  BY <1>2, <1>10 DEF AnotherDeploys
<1> QED
  BY <1>1, <1>3, <1>4, <1>5, <1>6, <1>7, <1>8, <1>9, <1>10 DEF Next, SetupTypeOK

\* The channel and the record of the alias the command works on.
LEMMA NextCommand ==
  ASSUME Inv, [Next]_vars
  PROVE  CommandInv'
<1> USE DEF fixed, loop, history, Goto, Working
<1>1. CASE setups = <<>>
  <2>1. UNCHANGED <<cmd, channel>> /\ cmd = "off"
    BY <1>1, StepBefore DEF ReadyRuns, Register, vars, Inv, RegistryInv
  <2> QED
    BY <2>1 DEF Inv, CommandInv
<1>2. CASE setups # <<>>
  <2>0. /\ connections' = connections /\ setups' = setups
        /\ \A a \in connections : Moves(broker[a], broker'[a], setups[a])
    BY <1>2, StepMoves DEF settingsVars
  <2>1. /\ \A a \in connections : WellFormed(setups[a]) /\ DOMAIN broker[a] = Entities
        /\ \A d \in Dictionaries : dictionaries[d] = connections
    BY <1>2 DEF Inv, RegistryInv, SettingsInv, PublishInv
  <2>2. CommandInv /\ DOMAIN record \subseteq Entities
    BY DEF Inv, SetupTypeOK
  <2>3. cmd \in Working => TrueRecord(record, Calls, call, broker'[alias])
    BY <2>0, <2>1, <2>2, RecordStaysTrue DEF CommandInv, Calls
  <2>a. ASSUME UNCHANGED <<cmd, alias, call, record, channel>>
        PROVE  CommandInv'
    BY <2>0, <2>2, <2>3, <2>a DEF CommandInv, Calls
  <2>4. CASE Start
    BY <2>4 DEF Start, CommandInv
  <2>5. ASSUME NEW a \in KnownAliases, OpenChannel(a)
        PROVE  CommandInv'
    <3>1. alias' = a /\ call' = 1 /\ record' = <<>> /\ channel # "open"
      BY <2>2, <2>5 DEF OpenChannel, CommandInv
    <3>2. \/ cmd' = "failed" /\ UNCHANGED channel
          \/ cmd' = "run" /\ a \in connections
      BY <2>1, <2>5, SetupAssumption DEF OpenChannel, Resolve, Dictionaries
    <3>3. CASE cmd' = "failed" /\ UNCHANGED channel
      BY <3>1, <3>3 DEF CommandInv
    <3>4. CASE cmd' = "run" /\ a \in connections
      <4>1. TrueRecord(<<>>, setups[a], 1, broker'[a])
        BY DEF TrueRecord
      <4>2. Len(setups[a]) \in Nat
        BY <2>1, <3>4 DEF WellFormed
      <4> QED
        BY <2>0, <3>1, <3>4, <4>1, <4>2 DEF CommandInv, Calls
    <3> QED
      BY <3>2, <3>3, <3>4
  <2>6. CASE Declare
    <3>1. /\ alias \in connections /\ call \in DOMAIN Calls /\ WellFormed(Calls)
          /\ DOMAIN broker[alias] = Entities
          /\ record' = Recorded(record, Calls[call]) /\ UNCHANGED alias
          /\ \/ broker'[alias] = broker[alias]
             \/ /\ Accepts(broker[alias], Calls[call])
                /\ broker'[alias] = Made(broker[alias], Calls[call])
          /\ \/ /\ Accepts(broker[alias], Calls[call])
                /\ broker'[alias] = Made(broker[alias], Calls[call])
                /\ call' = call + 1 /\ UNCHANGED cmd
             \/ Calls[call].tolerant /\ call' = call + 1 /\ UNCHANGED cmd
             \/ cmd' = "abort" /\ UNCHANGED call
      BY <2>6, DeclareEffect
    <3>2. cmd = "run" /\ TrueRecord(record, Calls, call, broker[alias])
      BY <2>2, <2>6 DEF Declare, CommandInv
    <3>3. CASE cmd' = "abort"
      BY <2>0, <3>1, <3>3 DEF CommandInv
    <3>4. CASE /\ Accepts(broker[alias], Calls[call])
               /\ broker'[alias] = Made(broker[alias], Calls[call])
               /\ call' = call + 1 /\ UNCHANGED cmd
      <4>1. TrueRecord(record', Calls, call + 1, broker'[alias])
        BY <2>2, <3>1, <3>2, <3>4, RecordsTheTaken
      <4> QED
        BY <2>0, <3>1, <3>2, <3>4, <4>1 DEF CommandInv, Calls, WellFormed
    <3>5. CASE Calls[call].tolerant /\ call' = call + 1 /\ UNCHANGED cmd
      <4>1. TrueRecord(record', Calls, call + 1, broker'[alias])
        BY <2>3, <3>1, <3>2, <3>5, RecordsTheSwallowed
      <4> QED
        BY <2>0, <3>1, <3>2, <3>5, <4>1 DEF CommandInv, Calls, WellFormed
    <3> QED
      BY <3>1, <3>3, <3>4, <3>5
  <2>7. CASE RunAllReturns
    <3>1. /\ cmd = "run" /\ cmd' = "finally" /\ call > Len(Calls)
          /\ UNCHANGED <<alias, call, record>>
      BY <2>7 DEF RunAllReturns
    <3>2. alias \in connections /\ Len(Calls) \in Nat
      BY <2>1, <2>2, <3>1 DEF CommandInv, WellFormed, Calls
    <3>3. call = Len(Calls) + 1
      BY <2>2, <3>1, <3>2 DEF CommandInv
    <3> QED
      BY <2>0, <2>2, <2>3, <3>1, <3>3 DEF CommandInv, Calls
  <2>8. CASE CloseChannel
    <3>1. /\ cmd \in {"finally", "abort"} /\ channel' # "open" /\ UNCHANGED <<alias, call, record>>
          /\ cmd' = "failed" \/ (cmd = "finally" /\ cmd' = "report")
      BY <2>8 DEF CloseChannel, ClosesChannel
    <3> QED
      BY <2>0, <2>2, <2>3, <3>1 DEF CommandInv, Calls
  <2>9. CASE Report
    BY <2>2, <2>9 DEF Report, CommandInv
  <2>10. CASE Finish
    BY <2>2, <2>10 DEF Finish, CommandInv
  <2>11. ASSUME NEW a \in KnownAliases, AnotherDeploys(a)
         PROVE  UNCHANGED <<cmd, alias, call, record, channel>>
    BY <2>11 DEF AnotherDeploys
  <2>12. CASE ReadyRuns \/ Register \/ Over \/ UNCHANGED vars
    BY <2>12, <2>a DEF ReadyRuns, Register, Over, vars
  <2> QED
    BY <2>a, <2>4, <2>5, <2>6, <2>7, <2>8, <2>9, <2>10, <2>11, <2>12 DEF Next
<1> QED
  BY <1>1, <1>2

\* What was reported.
LEMMA NextReport ==
  ASSUME Inv, [Next]_vars
  PROVE  ReportInv'
<1> USE DEF fixed, loop, history, Goto
<1>1. CASE setups = <<>>
  <2>1. UNCHANGED <<cmd, report>> /\ cmd = "off"
    BY <1>1, StepBefore DEF ReadyRuns, Register, vars, Inv, RegistryInv
  <2> QED
    BY <2>1 DEF Inv, ReportInv
<1>2. CASE setups # <<>>
  <2>0. /\ connections' = connections /\ setups' = setups
        /\ \A a \in connections : Moves(broker[a], broker'[a], setups[a])
    BY <1>2, StepMoves DEF settingsVars
  <2>1. \A a \in connections : WellFormed(setups[a]) /\ DOMAIN broker[a] = Entities
    BY <1>2 DEF Inv, RegistryInv
  <2>2. ReportInv /\ CommandInv /\ DOMAIN record \subseteq Entities
    BY DEF Inv, SetupTypeOK
  <2>3. \A a \in connections : Len(setups[a]) \in Nat
    BY <2>1 DEF WellFormed
  <2>4. ASSUME NEW a \in connections, NEW r, DOMAIN r \subseteq Entities,
               TrueRecord(r, setups[a], Len(setups[a]) + 1, broker[a])
        PROVE  TrueRecord(r, setups[a], Len(setups[a]) + 1, broker'[a])
    <3>1. /\ Len(setups[a]) + 1 \in Nat /\ Len(setups[a]) + 1 <= Len(setups[a]) + 1
          /\ WellFormed(setups[a]) /\ DOMAIN broker[a] = Entities
          /\ Moves(broker[a], broker'[a], setups[a])
      BY <2>0, <2>1, <2>3
    <3> QED
      BY <2>4, <3>1, RecordStaysTrue
  <2>5. \A a \in DOMAIN report :
          /\ a \in connections /\ DOMAIN report[a] \subseteq Entities
          /\ TrueRecord(report[a], setups[a], Len(setups[a]) + 1, broker'[a])
    BY <2>2, <2>4 DEF ReportInv
  <2>a. ASSUME UNCHANGED report, cmd' # "off"
        PROVE  ReportInv'
    BY <2>0, <2>5, <2>a DEF ReportInv
  <2>6. CASE Start
    <3>1. DOMAIN report' = {}
      BY <2>6 DEF Start
    <3> QED
      BY <3>1 DEF ReportInv
  <2>7. ASSUME NEW a \in KnownAliases, OpenChannel(a)
        PROVE  UNCHANGED report /\ cmd' # "off"
    BY <2>7 DEF OpenChannel
  <2>8. CASE Declare
    <3>1. UNCHANGED report /\ cmd = "run" /\ cmd' \in {cmd, "abort"}
      BY <2>8, DeclareEffect DEF Declare
    <3> QED
      BY <2>a, <3>1
  <2>9. CASE RunAllReturns \/ CloseChannel \/ Finish
    BY <2>9, <2>a DEF RunAllReturns, CloseChannel, Finish
  <2>10. CASE Report
    <3>1. /\ cmd' = "next" /\ DOMAIN report' = DOMAIN report \cup {alias}
          /\ report'[alias] = record
          /\ \A a \in DOMAIN report : a # alias => report'[a] = report[a]
      BY <2>10 DEF Report, With
    <3>2. alias \in connections /\ TrueRecord(record, setups[alias], Len(setups[alias]) + 1, broker[alias])
      BY <2>2, <2>10 DEF Report, CommandInv, Working, Calls
    <3>3. TrueRecord(record, setups[alias], Len(setups[alias]) + 1, broker'[alias])
      BY <2>2, <2>4, <3>2
    <3> QED
      BY <2>0, <2>2, <2>5, <3>1, <3>2, <3>3 DEF ReportInv
  <2>11. ASSUME NEW a \in KnownAliases, AnotherDeploys(a)
         PROVE  UNCHANGED report /\ cmd' # "off"
    BY <2>11 DEF AnotherDeploys
  <2>12. CASE ReadyRuns \/ Register \/ Over \/ UNCHANGED vars
    <3>1. UNCHANGED <<report, cmd>>
      BY <2>12 DEF ReadyRuns, Register, Over, vars
    <3> QED
      BY <2>0, <2>2, <2>5, <3>1 DEF ReportInv
  <2> QED
    BY <2>a, <2>6, <2>7, <2>8, <2>9, <2>10, <2>11, <2>12 DEF Next
<1> QED
  BY <1>1, <1>2

\* A sound setup fails only with the network.
LEMMA NextSound ==
  ASSUME Inv, [Next]_vars
  PROVE  SoundInv'
<1> USE DEF fixed, loop, history, Goto, NetworkHolds, NetworkFails
<1>0. SoundInv /\ CommandInv
  BY DEF Inv
<1>1. CASE setups = <<>>
  <2>1. UNCHANGED <<cmd, faulty>> /\ cmd = "off"
    BY <1>1, StepBefore DEF ReadyRuns, Register, vars, Inv, RegistryInv
  <2> QED
    BY <1>0, <2>1 DEF SoundInv
<1>2. CASE setups # <<>>
  <2>0. /\ connections' = connections /\ setups' = setups /\ before' = before
        /\ \A a \in connections : Moves(broker[a], broker'[a], setups[a])
    BY <1>2, StepMoves DEF settingsVars
  <2>1. /\ \A a \in connections : /\ WellFormed(setups[a]) /\ DOMAIN broker[a] = Entities
                                  /\ FromCalls(before[a], broker[a], setups[a])
        /\ \A d \in Dictionaries : dictionaries[d] = connections
    BY <1>2 DEF Inv, RegistryInv, SettingsInv, PublishInv
  <2>2. cmd = "run" /\ MadeBefore(Calls, call, broker[alias])
          => MadeBefore(Calls, call, broker'[alias])
    BY <1>0, <2>0, <2>1, StaysMade DEF CommandInv, Working, Calls
  <2>a. ASSUME UNCHANGED <<cmd, alias, call, channel, todo, faulty>>
        PROVE  SoundInv'
    BY <1>0, <2>0, <2>2, <2>a DEF SoundInv, Calls
  <2>3. CASE Start
    BY <2>3 DEF Start, SoundInv
  <2>4. ASSUME NEW a \in KnownAliases, OpenChannel(a)
        PROVE  SoundInv'
    <3>1. /\ alias' = a /\ call' = 1 /\ a \in todo /\ UNCHANGED todo
          /\ faulty' \in BOOLEAN
      BY <1>0, <2>4 DEF OpenChannel, SoundInv
    <3>2. \/ cmd' = "failed" /\ (faulty' \/ ~(todo \subseteq connections))
          \/ cmd' = "run" /\ channel' = "open"
      BY <2>1, <2>4, SetupAssumption DEF OpenChannel, Resolve, Dictionaries
    <3>3. MadeBefore(Calls', 1, broker'[a])
      BY DEF MadeBefore
    <3> QED
      BY <2>0, <3>1, <3>2, <3>3 DEF SoundInv
  <2>5. CASE Declare
    <3>1. /\ alias \in connections /\ call \in DOMAIN Calls /\ WellFormed(Calls)
          /\ DOMAIN broker[alias] = Entities
          /\ UNCHANGED <<alias, todo>>
          /\ \/ broker'[alias] = broker[alias]
             \/ /\ Accepts(broker[alias], Calls[call])
                /\ broker'[alias] = Made(broker[alias], Calls[call])
          /\ \/ /\ Accepts(broker[alias], Calls[call])
                /\ broker'[alias] = Made(broker[alias], Calls[call])
                /\ call' = call + 1 /\ UNCHANGED <<cmd, channel, faulty>>
             \/ /\ cmd' \in {cmd, "abort"}
                /\ \/ faulty'
                   \/ /\ UNCHANGED faulty
                      /\ \/ ~Calls[call].valid \/ channel = "closed"
                         \/ ~Accepts(broker[alias], Calls[call])
      BY <2>5, DeclareEffect
    <3>2. cmd = "run" /\ faulty' \in BOOLEAN
      BY <1>0, <2>5 DEF Declare, SoundInv
    <3>3. ~faulty /\ SoundCalls(Calls, before[alias]) =>
             /\ channel = "open" /\ MadeBefore(Calls, call, broker[alias])
             /\ Calls[call].valid /\ Accepts(broker[alias], Calls[call])
      BY <1>0, <2>1, <3>1, <3>2, SoundIsTaken DEF SoundInv, Calls
    <3>4. CASE /\ Accepts(broker[alias], Calls[call])
               /\ broker'[alias] = Made(broker[alias], Calls[call])
               /\ call' = call + 1 /\ UNCHANGED <<cmd, channel, faulty>>
      <4>1. ~faulty /\ SoundCalls(Calls, before[alias])
              => MadeBefore(Calls, call + 1, broker'[alias])
        BY <3>1, <3>3, <3>4, OneMoreMade
      <4> QED
        BY <2>0, <3>1, <3>2, <3>3, <3>4, <4>1 DEF SoundInv, Calls
    <3>5. CASE /\ cmd' \in {cmd, "abort"}
               /\ faulty' \/ ~SoundCalls(Calls, before[alias])
      BY <2>0, <3>1, <3>2, <3>5 DEF SoundInv, Calls
    <3>6. CASE /\ cmd' \in {cmd, "abort"} /\ UNCHANGED faulty
               /\ \/ ~Calls[call].valid \/ channel = "closed"
                  \/ ~Accepts(broker[alias], Calls[call])
      <4>1. channel = "closed" => channel # "open"
        OBVIOUS
      <4>2. faulty \/ ~SoundCalls(Calls, before[alias])
        BY <3>3, <3>6, <4>1, Zenon
      <4> QED
        BY <3>5, <3>6, <4>2, Zenon
    <3> QED
      BY <3>1, <3>4, <3>5, <3>6, Zenon
  <2>6. CASE RunAllReturns \/ Report \/ Finish
    <3>1. cmd' \in {"finally", "next", "done"} /\ UNCHANGED faulty
      BY <2>6 DEF RunAllReturns, Report, Finish
    <3> QED
      BY <1>0, <3>1 DEF SoundInv
  <2>7. CASE CloseChannel
    <3>1. /\ UNCHANGED <<alias, todo>> /\ faulty' \in BOOLEAN
          /\ \/ cmd' = "report"
             \/ cmd' = "failed" /\ (faulty' \/ (cmd = "abort" /\ UNCHANGED faulty))
      BY <1>0, <2>7 DEF CloseChannel, SoundInv
    <3> QED
      BY <1>0, <2>0, <3>1 DEF SoundInv, Calls
  <2>8. ASSUME NEW a \in KnownAliases, AnotherDeploys(a)
        PROVE  UNCHANGED <<cmd, alias, call, channel, todo, faulty>>
    BY <2>8 DEF AnotherDeploys
  <2>9. CASE ReadyRuns \/ Register \/ Over \/ UNCHANGED vars
    <3>1. \/ UNCHANGED <<cmd, alias, call, channel, todo, faulty>>
      BY <2>9 DEF ReadyRuns, Register, Over, vars
    <3> QED
      BY <2>a, <3>1
  <2> QED
    BY <2>a, <2>3, <2>4, <2>5, <2>6, <2>7, <2>8, <2>9 DEF Next
<1> QED
  BY <1>1, <1>2

-----------------------------------------------------------------------------
(* The theorems *)

\* The invariant holds when the process starts.
LEMMA InitInv == Init => Inv
<1> SUFFICES ASSUME Init PROVE Inv
  OBVIOUS
<1>1. SettingsInv
  BY SettingsInitInv DEF Init
<1>2. DOMAIN record = {} /\ DOMAIN report = {} /\ DOMAIN broker = {}
  BY DEF Init
<1> QED
  BY <1>1, <1>2 DEF Init, Inv, SettingsInv, SetupTypeOK, RegistryInv, CommandInv, ReportInv, SoundInv,
                    Working

\* The inductive invariant: settings, registries, brokers, the alias at hand, the reports.
THEOREM Invariant == Spec => []Inv
<1>1. ASSUME Inv, [Next]_vars PROVE Inv'
  BY <1>1, NextRegistry, NextTypes, NextCommand, NextReport, NextSound DEF Inv
<1> QED
  BY <1>1, InitInv, PTL DEF Spec

\* Every variable keeps its type, whatever the settings, the functions and the brokers are.
THEOREM TypeCorrect == Spec => []SetupTypeOK
<1>1. Inv => SetupTypeOK
  BY DEF Inv
<1> QED
  BY <1>1, Invariant, PTL

\* Only usable aliases are accepted and only unusable ones rejected, for nodes of any number.
THEOREM UsableIsAccepted == Spec => []AcceptsWhatIsUsable
<1>1. Inv => AcceptsWhatIsUsable
  BY DEF Inv, SettingsInv
<1> QED
  BY <1>1, Invariant, PTL

\* The library's dictionaries define the same aliases, whatever ready() rejects.
THEOREM DictionariesMatch == Spec => []DictionariesAgree
<1>1. Inv => DictionariesAgree
  BY PublishedTogether DEF Inv, SettingsInv
<1> QED
  BY <1>1, Invariant, PTL

\* No alias leaves its channel open behind it, whichever step fails.
THEOREM ChannelsAreReleased == Spec => []ChannelReleased
<1>1. Inv => ChannelReleased
  BY DEF Inv, CommandInv, ChannelReleased
<1> QED
  BY <1>1, Invariant, PTL

\* What the command reports of an alias is on its broker and stays there, with the arguments
\* reported, however often the command runs and whoever else runs it.
THEOREM ReportsAreTrue == Spec => []ReportIsTrue
<1>1. ASSUME Inv, NEW a \in DOMAIN report, NEW i \in Indices(a)
      PROVE  LET c == setups[a][i]
                 plain == \A j \in Indices(a) : setups[a][j].name = c.name =>
                             ~setups[a][j].passive /\ ~setups[a][j].tolerant
             IN  /\ ~c.tolerant => broker[a][c.name] # Missing
                 /\ c.name \in DOMAIN report[a]
                 /\ plain => report[a][c.name] = broker[a][c.name]
  <2>1. a \in connections /\ TrueRecord(report[a], setups[a], Len(setups[a]) + 1, broker[a])
    BY <1>1 DEF Inv, ReportInv
  <2>2. setups # <<>>
    BY <1>1 DEF Inv, ReportInv, RegistryInv
  <2>3. i \in 1..((Len(setups[a]) + 1) - 1)
    BY <1>1, <2>1, <2>2 DEF Inv, RegistryInv, WellFormed, Indices
  <2>4. /\ setups[a][i].name \in DOMAIN report[a]
        /\ ~setups[a][i].tolerant => broker[a][setups[a][i].name] # Missing
    BY <2>1, <2>3 DEF TrueRecord
  <2>5. Plain(setups[a], setups[a][i].name)
          => report[a][setups[a][i].name] = broker[a][setups[a][i].name]
    BY <2>1, <2>4 DEF TrueRecord
  <2> QED
    BY <2>4, <2>5 DEF Plain, Indices
<1>2. Inv => ReportIsTrue
  BY <1>1, Zenon DEF ReportIsTrue
<1> QED
  BY <1>2, Invariant, PTL

\* A sound setup converges: no run of it fails for what an earlier run left half done, or
\* another one is doing, on the brokers.
THEOREM RunsConverge == Spec => []RepeatsConverge
<1>1. Sound(alias) => SoundCalls(Calls, before[alias])
  BY Zenon DEF Sound, SoundCalls, Indices, Calls
<1>2. Inv => RepeatsConverge
  BY <1>1 DEF Inv, SoundInv, RepeatsConverge
<1> QED
  BY <1>2, Invariant, PTL

=============================================================================
