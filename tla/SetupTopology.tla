---------------------------- MODULE SetupTopology ----------------------------
(***************************************************************************)
(* A deployment: ready(), then the setup_rabbitmq_topology command, run as *)
(* often as one likes, each time in a new process, perhaps on several      *)
(* hosts at once.                                                          *)
(*                                                                         *)
(* The setup functions of an alias are one sequence of calls, as run_all() *)
(* runs them.  A call declares an entity with arguments, or asks whether   *)
(* it is there (passive), and needs others to be there, as a binding does. *)
(* Its exchange type may be no type at all, and its function may swallow   *)
(* the error it raises.                                                    *)
(***************************************************************************)
EXTENDS Settings, Aliases

CONSTANTS
    Entities,      \* names of exchanges, queues and bindings
    Setups,        \* what may be registered: [KnownAliases -> sequences of calls]
    Brokers,       \* what may be on a broker before: [Entities -> arguments]
    Missing,       \* instead of arguments: there is no such entity
    MaxRuns, MaxFaults

\* QueueConfig.arguments: what is configured, by key
Arguments(config) == [k \in {k \in DOMAIN config : config[k] # Absent} |-> config[k]]

ASSUME SetupAssumption ==
    /\ \A b \in Brokers : DOMAIN b = Entities
    /\ \A s \in Setups : DOMAIN s = KnownAliases /\ \A a \in KnownAliases :
          /\ Len(s[a]) \in Nat /\ DOMAIN s[a] = 1..Len(s[a])
          /\ \A i \in DOMAIN s[a] : LET c == s[a][i] IN
                /\ c.name \in Entities /\ c.needs \subseteq Entities
                /\ {c.valid, c.passive, c.tolerant} \subseteq BOOLEAN
                /\ Arguments(c.config) # Missing
    /\ NoAlias \notin KnownAliases
    /\ MaxRuns \in Nat /\ MaxFaults \in Nat

VARIABLES
    cmd,             \* where the command is
    todo,            \* the aliases its loop has still to set up
    alias, call,     \* the alias being set up, and the next call of its functions
    channel,         \* the channel of that alias
    record,          \* RecordingChannel: each entity recorded, as first seen
    report,          \* what was reported, alias by alias
    setups,          \* the calls registered for each alias
    broker,          \* what is on the broker of each alias
    before,          \* history: what was there before the first run
    faulty,          \* history: the network failed during this run
    runs, faults

loop == <<todo, alias, call>>
history == <<before, faulty, runs, faults>>
vars == <<settingsVars, cmd, loop, channel, record, report, setups, broker, history>>

fixed == <<settingsVars, setups, before, runs>>

SetupTypeOK ==
    /\ SettingsTypeOK
    /\ cmd \in {"off", "next", "run", "finally", "abort", "report", "done", "failed"}
    /\ todo \subseteq KnownAliases
    /\ channel \in {"none", "open", "closed"}
    /\ DOMAIN record \subseteq Entities /\ DOMAIN report \subseteq KnownAliases
    /\ \A a \in DOMAIN broker : DOMAIN broker[a] = Entities

Calls == setups[alias]
Goto(l) == cmd' = l

-----------------------------------------------------------------------------
(* Declarations *)

\* The broker is external

Accepts(b, c) ==
    /\ \A e \in c.needs : b[e] # Missing
    /\ IF c.passive THEN b[c.name] # Missing ELSE b[c.name] \in {Missing, Arguments(c.config)}

Make(c) ==
    broker' = IF c.passive THEN broker
              ELSE [broker EXCEPT ![alias][c.name] = Arguments(c.config)]

NetworkFails == faults < MaxFaults /\ faults' = faults + 1 /\ faulty' = TRUE
NetworkHolds == UNCHANGED <<faulty, faults>>

-----------------------------------------------------------------------------
(* The command *)

\* The setup functions are registered, once the registries are there.
\* What is local to ready() is gone.
Register ==
    /\ phase = "up" /\ setups = <<>>
    /\ \E s \in Setups : setups' = [a \in dictionaries["setup_registries"] |-> s[a]]
    /\ broker' \in [connections -> Brokers] /\ before' = broker'
    /\ accepted' = <<>>
    /\ UNCHANGED <<phase, connections, dictionaries, error, culprit, cmd, loop, channel, record,
                   report, faulty, runs, faults>>

\* handle(), in a process of its own
Start ==
    /\ setups # <<>> /\ cmd \in {"off", "done", "failed"} /\ runs < MaxRuns
    /\ runs' = runs + 1
    /\ \E using \in KnownAliases \cup {NoAlias} :
          todo' = Asked(dictionaries["connection_managers"], using)
    /\ Goto("next")
    /\ channel' = "none" /\ record' = <<>> /\ report' = <<>> /\ faulty' = FALSE
    /\ UNCHANGED <<settingsVars, alias, call, setups, broker, before, faults>>

\* The next alias of the loop, in any order: its manager, its connection and a channel
OpenChannel(a) ==
    /\ cmd = "next" /\ a \in todo
    /\ alias' = a /\ call' = 1
    /\ record' = <<>>
    /\ \/ /\ Resolve(dictionaries["connection_managers"], a) # NoAlias
          /\ channel' = "open" /\ Goto("run")
          /\ NetworkHolds
       \/ /\ Resolve(dictionaries["connection_managers"], a) = NoAlias
          /\ Goto("failed")
          /\ UNCHANGED channel /\ NetworkHolds
       \/ /\ NetworkFails
          /\ Goto("failed")
          /\ UNCHANGED channel
    /\ UNCHANGED <<fixed, todo, report, broker>>

\* Faulty: the arguments are not forwarded
ForwardsName(c) == [c EXCEPT !.config = <<>>]

\* RecordingChannel's exchange_declare(), queue_declare() and queue_bind() forward all
Forwarded(c) == c

\* Faulty: the proxy logs what the broker refuses
RefusalLogged(c) == call' = call + 1 /\ UNCHANGED cmd

\* The exception goes to the setup function, and unless that swallows it to the finally
RefusalRaised(c) ==
    IF c.tolerant THEN call' = call + 1 /\ UNCHANGED cmd ELSE Goto("abort") /\ UNCHANGED call

\* A call of a setup function: recorded, checked, then made.  A refusal closes the
\* channel; on a closed channel, and on a connection that fails, every call raises.
Declare ==
    /\ cmd = "run" /\ call <= Len(Calls)
    /\ LET c == Calls[call]
           taken == Accepts(broker[alias], Forwarded(c))
       IN
       /\ record' = IF c.name \in DOMAIN record THEN record
                    ELSE With(record, c.name, Arguments(c.config))
       /\ \/ /\ ~c.valid /\ RefusalRaised(c)
             /\ UNCHANGED <<channel, broker>> /\ NetworkHolds
          \/ /\ c.valid /\ channel = "open" /\ taken
             /\ Make(Forwarded(c)) /\ call' = call + 1
             /\ UNCHANGED <<cmd, channel>> /\ NetworkHolds
          \/ /\ c.valid /\ (channel = "closed" \/ ~taken) /\ RefusalRaised(c)
             /\ channel' = "closed"
             /\ UNCHANGED broker /\ NetworkHolds
          \/ /\ c.valid /\ channel = "open" /\ NetworkFails /\ RefusalRaised(c)
             /\ channel' = "closed"
             /\ UNCHANGED broker \/ (taken /\ Make(Forwarded(c)))
    /\ UNCHANGED <<fixed, todo, alias, report>>

\* run_all() returns
RunAllReturns ==
    /\ cmd = "run" /\ call > Len(Calls)
    /\ Goto("finally")
    /\ UNCHANGED <<fixed, loop, channel, record, report, broker>> /\ NetworkHolds

\* Faulty: only a run that succeeds closes its channel
ClosesOnSuccess == channel' = (IF cmd = "finally" THEN "closed" ELSE channel)

ClosesChannel == channel' = "closed"

\* The finally clause.  An error of close() is raised in place of what was on its way.
CloseChannel ==
    /\ cmd \in {"finally", "abort"}
    /\ \/ /\ channel = "open" => ClosesChannel
          /\ channel # "open" => UNCHANGED channel
          /\ Goto(IF cmd = "finally" THEN "report" ELSE "failed")
          /\ NetworkHolds
       \/ /\ channel = "open" /\ NetworkFails
          /\ channel' = "closed"
          /\ Goto("failed")
    /\ UNCHANGED <<fixed, loop, record, report, broker>>

\* _report_topology()
Report ==
    /\ cmd = "report"
    /\ report' = With(report, alias, record)
    /\ todo' = todo \ {alias}
    /\ Goto("next")
    /\ UNCHANGED <<fixed, alias, call, channel, record, broker>> /\ NetworkHolds

Finish ==
    /\ cmd = "next" /\ todo = {}
    /\ Goto("done")
    /\ UNCHANGED <<fixed, loop, channel, record, report, broker>> /\ NetworkHolds

\* The command in another process, as several hosts that deploy at once run it: the same
\* functions, on the same brokers.  What it declares, in any order, is all that shows here.
AnotherDeploys(a) ==
    /\ cmd \notin {"off", "done", "failed"} /\ a \in connections
    /\ \E i \in DOMAIN setups[a] : LET c == setups[a][i] IN
          /\ c.valid /\ ~c.passive /\ Accepts(broker[a], c)
          /\ broker' = [broker EXCEPT ![a][c.name] = Arguments(c.config)]
    /\ UNCHANGED <<fixed, cmd, loop, channel, record, report>> /\ NetworkHolds

-----------------------------------------------------------------------------

Init ==
    /\ SettingsInit
    /\ cmd = "off" /\ todo = {} /\ alias = NoAlias /\ call = 1
    /\ channel = "none" /\ record = <<>> /\ report = <<>>
    /\ setups = <<>> /\ broker = <<>> /\ before = <<>>
    /\ faulty = FALSE /\ runs = 0 /\ faults = 0

ReadyRuns == Ready /\ UNCHANGED <<cmd, loop, channel, record, report, setups, broker, history>>

Over ==
    /\ phase = "failed" \/ (cmd \in {"done", "failed"} /\ runs = MaxRuns)
    /\ UNCHANGED vars

Next ==
    \/ ReadyRuns \/ Register \/ Start \/ (\E a \in KnownAliases : OpenChannel(a))
    \/ Declare \/ RunAllReturns \/ CloseChannel \/ Report \/ Finish \/ Over
    \/ \E a \in KnownAliases : AnotherDeploys(a)

Spec == Init /\ [][Next]_vars

-----------------------------------------------------------------------------
(* Properties *)

Indices(a) == DOMAIN setups[a]

\* A reported alias has on its broker all that its functions declared and did not swallow
\* the refusal of, and the report shows the arguments it really has.
ReportIsTrue ==
    \A a \in DOMAIN report : \A i \in Indices(a) :
        LET c == setups[a][i]
            plain == \A j \in Indices(a) : setups[a][j].name = c.name =>
                        ~setups[a][j].passive /\ ~setups[a][j].tolerant
        IN  /\ ~c.tolerant => broker[a][c.name] # Missing
            /\ c.name \in DOMAIN report[a]
            /\ plain => report[a][c.name] = broker[a][c.name]

\* No channel outlives its alias in the loop, whatever fails.
ChannelReleased == cmd \in {"next", "done", "failed"} => channel # "open"

\* The calls of an alias contradict neither each other nor what was there before the
\* first run, and need only what is there or was declared earlier
Sound(a) ==
    \A i \in Indices(a) :
        LET c == setups[a][i]
            there(e) == \/ before[a][e] # Missing
                        \/ \E j \in 1..(i - 1) : setups[a][j].name = e /\ ~setups[a][j].passive
        IN  /\ c.valid
            /\ \A e \in c.needs : there(e)
            /\ c.passive => there(c.name)
            /\ ~c.passive => before[a][c.name] \in {Missing, Arguments(c.config)}
            /\ \A j \in Indices(a) : LET d == setups[a][j] IN
                  d.name = c.name /\ ~c.passive /\ ~d.passive => d.config = c.config

\* "safe to run on every deploy": a run fails only for an alias not configured, a setup that was
\* never sound, or the network in this very run; what an earlier run left half done, at
\* whatever call it failed, is no reason.
RepeatsConverge ==
    cmd = "failed" => faulty \/ ~(todo \subseteq connections) \/ ~Sound(alias)

=============================================================================
