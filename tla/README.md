# Verification of Django-RMQ

TLA+ models of `django_rmq` (paths are relative to the
repository), TLC runs that check them on small instances, and TLAPS proofs for
every instance. `PROJECT.json` ties each definition to its source lines, each
run to its properties, and each property to a faulty variant of the code that
it notices.

## The system

| Component | State | Operations | Interacts with |
|---|---|---|---|
| Connection manager (`connections.py`) | per thread (`threading.local`): `producer_connection`, `producer_channel`, `consumer_connection` | `get_producer_channel`, `get_consumer_connection`, `reset_producer_channel`, `build_probe_parameters` | the cluster; called by producers, consumers, the healthcheck |
| Producer (`producer.py`) | `_is_queue_declared`, shared by all threads using the instance | `publish` (one retry), `_publish_once`, `_ensure_queue_declared`, decorator | the connection manager, the broker |
| Consumer (`consumer.py`) | the handler; in `consume()`: `backoff`, the session's channel, deliveries being dispatched | `consume`, `_run_session`, `_declare_queue`, `_dispatch` | the connection manager, the broker, user handlers, the stop event |
| `start_consumers` | the stop event, the threads | start, signal handler, join | consumers |
| `check_rabbitmq_connections` | `pending`, `errors`, the queue of probe results, the deadline | a daemon thread per node, the collecting loop, the report and exit code | the connection manager (parameters only), the broker |
| `setup_rabbitmq_topology` | `RecordingChannel`'s lists | run the setup functions of each alias, report | setup registry, the broker |
| Settings (`apps.py`, `utils.py`, `dto/`, `queues/`, `registries/`) | module-level dicts alias -> manager / registries | validation, `resolve_alias`, `QueueConfig.arguments` | all of the above |

What is hard here:

* **Stale views.** pika answers `is_open` from its own state. After a silent
  loss the cached channel or connection still looks open, and each later call
  may find out, in any order: channel first, connection later, or never.
* **Partial failure in recovery code**: in the retry, in `reset_producer_channel`,
  in the `finally` of a session, in the `except` of `_dispatch`.
* **Confirms and settlement over a connection that dies**: a message taken but
  not confirmed is sent again; a message handled but not acknowledged comes back.
* **Threads**: the shared `_is_queue_declared`; consumers competing for one
  queue; probe threads racing each other and the deadline.
* **Ends**: the stop event can be set at any point; nodes may never answer; a
  signal may come before its handler is installed.
* **Half done**: a setup function that fails midway, a thread that cannot be
  started, settings rejected after some were published.

What makes each component correct: the producer loses nothing it confirmed,
duplicates at most once per call, masks one fault and leaks nothing; a consumer
settles a message only after a handler ran on it, leaves nothing behind on its channel,
does not circulate poison messages, reconnects, and ends when told to; the
healthcheck judges every alias once, rightly, and ends in time;
`start_consumers` ends on a signal, kills no consumer at work, and one consumer's
failure is not another's; a deployment reports what is there and can be repeated;
settings are accepted exactly when usable.

## Modules

| Module | Models |
|---|---|
| `Producer` | `Producer` over the producer slots of the connection manager, with threads, a cluster and its faults |
| `PublishContract` | what one `publish()` call promises; `Producer` is shown to implement it |
| `Consumer` | consumers competing for one queue over the consumer slot, with handlers, a broker and the stop event |
| `HealthCheck` | probe threads, result queue, collecting loop, deadline, exit code |
| `HealthVerdict` | what the command promises; `HealthCheck` is shown to implement it |
| `ConsumerThread` | what a thread running `consume()` promises; `Consumer` is shown to implement it |
| `StartConsumers` | the command over `ConsumerThread`: main thread, signals, threads |
| `Aliases` | `resolve_alias`, and the aliases a command works on |
| `Settings` | `ready()`: validation and publication of the settings |
| `SetupTopology` | a deployment: `Settings`, then runs of the command against brokers |
| `ProducerProofs`, `PublishProofs`, `ConsumerProofs`, `HealthCheckProofs`, `StartConsumersProofs`, `SettingsProofs`, `SetupTopologyProofs` | TLAPS proofs about the modules they are named for; `PublishProofs` is the second half about `Producer` |
| `MCProducer`, `MCConsumer`, `MCHealthCheck`, `MCStartConsumers`, `MCSetupTopology` | instances for TLC |

### Producer

One action per call that can block or fail: `GetConnection`, `GetChannel`,
`ConfirmDelivery`, `EnsureQueueDeclared`, `DeclareQueue`, `BasicPublish`,
`AwaitConfirm`, then `Retry` or `Raise`, `ResetChannel`, `ResetConnection`.
`conn` and `chan` are what `is_open` answers on the two slots; `connUp` and
`chanUp` the threads whose slots the broker still serves; `freshUp` those whose
channel is opened and not yet cached (lines 184-188 of `connections.py`).
`LoseConnection`, `NodeFails` and `BrokerClosesChannel` change the broker's side
only; a thread notices at its next I/O (`ConnectionLost`, `IOFails`) and may
first notice the channel only. An unconfirmed message moves to `limbo`, the
buffers of a dying connection: the broker may still take it, even after the
retry. `hits` counts the disturbances a call met, 2 standing for "at least two,
or hopeless" (no node up, declaration refused, queue gone). `Durable` says whether the
queue is durable (`QueueConfig.durable`); one that is not may go with a node, with all
that is in it, and `NoSilentLoss` and the contract then promise nothing of what a node
takes along (`Volatile`). The runs have `Durable = TRUE`, where losing a message would be
a fault; the theorems hold for both.

### Consumer

`Step(c)` is the thread that runs `consume()`: `CheckStop`, the session
(`GetConnection` ... `PollStop`, `ProcessDataEvents`, `Cleanup`), the deliveries
(`Dispatch`, `Handler`, `Nack`) and `Backoff`. `exc` is the exception on its way
out; `wrongstate` is `ChannelWrongStateError`, raised when pika already knows the
channel to be closed, and not one of `_RECONNECTABLE_ERRORS`. A handler acks,
raises, acks and then raises, or forgets; a frame written to a lost connection
may vanish without an exception. `process_data_events` dispatches all that has
arrived before the loop looks at `stop` again. It is a call of the connection: pika raises
in it when the connection is lost (`NoticesLostConnection`), but only takes note of a
channel that the broker closed (`NoticesClosedChannel`), and the loop goes on polling.
Calls of the channel raise in both cases (`NoticesLoss`). The backoff is `Nat`; its wait is
one step, since stop or the timeout ends it.

### ConsumerThread and StartConsumers

`ConsumerThread` keeps of a consumer what its runner can see: where its thread is
(`life`), the stop event, and whether it holds a subscription or deliveries on the
broker (`holds`). `Consumer!Thread` maps each location of `consume()` to one of
these, and `ImplementsThread` checks the mapping: a session begins only while stop
is not set, `consume()` returns only because of stop, and a session that ends
holds nothing. `StartConsumers` then runs any number of such threads, so that the
command is checked without the broker.

`Handler` is the import of the application; `Begin` is `handle()` up to the list
of pairs, for any settings, `--using` and registrations; `InstallHandler` each
`signal.signal()`; `StartThread` a turn of the loop, in which the system may refuse
a thread; `JoinAll` the loop of joins, and `Exit` the end of the process, which
waits for its threads because they are no daemons, also when `handle()` raised.
`Signal` meets the handler or the default action (SIGTERM kills, SIGINT raises in
the main thread). `Enter` is `consume()` before its loop, which may find no handler
or no manager for the consumer's own `using`. Consumers registered twice, or under
two aliases, count as two.

### Settings and SetupTopology

Settings are inputs, chosen when the code looks at them: a timeout is positive,
not positive, NaN or no number; an address has `HOST`, `PORT`, both or neither.
`BuildAlias` is a turn of the loop: `AliasError` are the tests of `_build_config()`,
`ManagerError` stands for the `TypeError` or `ValueError` of pika's parameters, which the
manager builds from values that are not tested before. Its dictionaries are local until
`Publish`; `BuildHealthcheckConfig` comes after it. `culprit` remembers the parameters the
error was raised for.

`SetupTopology` extends it with the command. The setup functions of an alias are
one sequence of calls; a call names an entity, its arguments and what it needs, may
be passive, have an invalid exchange type, or be in a `try` of its function.
Exchanges, queues and bindings are recorded and declared the same way, so there is
one action `Declare`: record, check, forward. It may be refused (the broker closes
the channel) or lose the connection (with or without effect on the broker).
`CloseChannel` is the `finally`. `AnotherDeploys` is the same command on another
host. The order of the aliases, that of the settings, is any.

### HealthCheck

`Main` is `handle` with `_iter_alias_results`; `RunProbe(p)` a probe thread;
`results` the queue; `expired` the clock, reduced to the one comparison made
with it. Probes are numbered in the order of the settings, so an alias that
lists a node twice has two. The timeout results, yielded one by one in the code
with nothing read in between, are one action. Failure to start a thread is not
modelled. There is at least one alias, since `ready()` refuses settings without any.

### External parts

pika, RabbitMQ, the network, handlers and signals are modelled as far as the
code relies on them and are marked external in `PROJECT.json`.

## Runs

| Run | Instance | Question |
|---|---|---|
| `producer_one` | 1 thread, 2 producers (`QueueConfig`, `str`), 2 messages, 2 nodes, 3 disturbances | What two calls in a row lose, duplicate, mask and leak |
| `producer_live` | 2 threads, 2 producers (`QueueConfig`, none), 2 messages, 1 disturbance | Calls come back; the contract; shared instances |
| `declare_race` | 2 threads, 1 producer, no disturbance | "at most once per instance lifetime": **violated** |
| `consumer_two` | 2 consumers, 2 messages, prefetch 1, 1 disturbance, all handlers, database errors | Messages between competing consumers; what `StartConsumers` relies on |
| `consumer_prefetch` | 1 consumer, 3 messages, prefetch 2, 2 disturbances | Batches, the prefetch limit |
| `consumer_live` | 2 consumers, 1 message, 1 disturbance | Stop ends all; messages get settled |
| `nack_on_dead_channel` | 1 consumer, 1 disturbance, acking handlers | "reconnects on transient AMQP errors": **violated** |
| `closed_channel` | 1 consumer, 2 messages, no disturbance, handlers that ack and may then raise | "reconnects automatically on any error in `_RECONNECTABLE_ERRORS`", a closed channel among them: **violated** |
| `health` | 2 aliases with 2 nodes each | Verdicts, exit code, termination, the contract |
| `no_answer` | 2 aliases, 3 nodes | "`no answer` for each node that did not answer": **violated** |
| `start_consumers` | 3 consumers, 2 aliases, both signals at any time | How the process ends, and what a failed thread or start does to the others |
| `deploy` | settings of 1 or 2 aliases with up to 2 nodes; 3 entities, 7 setups, brokers empty or not; 2 runs, 1 network failure | What is accepted, reported, released and repeatable |

Bounds. `MaxFaults` caps the disturbances of the environment. Three are enough
for a slot made stale before a call, a loss in the first attempt and one in the
second; the retry makes no further difference. Two producers separate active,
passive and no declaration; two nodes separate a failover from an outage. Two
consumers are enough to compete, two messages for one to be in a handler while
another is queued, and three with prefetch 2 for a batch plus one waiting.
Two nodes per alias give an alias a first and a last answer. Three consumers are
one that fails, one that works and one not started yet. Two runs and one failure
are a deployment that failed at any call and its repetition; the setups are sound,
repetitive, contradictory, out of order, asking, swallowing a refusal, invalid and
empty; two aliases leave one done when the other fails. Constants grow the
state spaces, not the kinds of interleaving; the proofs remove the bounds for
all safety properties and all refinements.

Symmetry is used in the safety runs of the consumer (consumers and messages are
interchangeable there), never with liveness.

Fairness. `Producer!Fairness`: a thread inside `publish()` is scheduled, and the
broker answers what it received (or the connection is lost); nothing is assumed
of faults or recovery. `Consumer!Fairness`: threads are scheduled and handlers
return, a stopped broker comes back and delivers; `StopEndsConsumers` needs only
the former. `HealthCheck!FairSpec` schedules the main thread; that time passes,
or that every node answers, is a hypothesis of the property that needs it
(`EndsByDeadline`, `EndsPromptly`). `StartConsumers!Fairness` schedules the main
thread and, once stop is set, lets every thread leave `consume()`: the second is
`Consumer!StopEndsConsumers`, checked in `consumer_live`. The safety half of the
same assumption is `Consumer!ImplementsThread`.

What the runs show beyond their properties' names:

* `OneFaultIsMasked`: one retry suffices for one disturbance only because the
  reset drops the connection together with the channel.
* `MessagesAreSettled` has two exceptions besides stop, both the code's: every consumer
  has died, or polls a connection that works without a subscription on it (`Deaf`). The
  broker has cancelled it, or closed its channel: `process_data_events` reports neither.
* A handler that acknowledges and then raises is enough for the latter (finding 2): the
  nack settles the delivery a second time, the broker closes the channel, and the thread
  polls until stop. What it held is requeued, so other consumers get it.
* A consumer whose connection is lost while its handler runs dies when the
  handler's ack notices the loss (finding 1). The message is not lost: the
  broker requeues it (`NothingStranded`).
* `SignalsKillNoConsumer` holds because both handlers are installed before the
  first thread; a signal before that ends the process at once, and rightly.
* `GracefulExit` and `SignalsEndTheProcess` hold after a failed start too: the
  exception leaves `handle()`, the interpreter waits for the threads already
  running, and the handlers stay in place.
* `RepeatsConverge` needs the setup functions of an alias to be `Sound`: not to
  contradict each other or what was on the broker, and not to need what they have
  not declared. Then a run that failed at any call, or deploys on other hosts, never
  make a later one fail.
* `ReportIsTrue` is about entities that are declared actively and whose refusal is
  not swallowed: the record is made before the call, so a passive or swallowed
  declaration is reported with arguments the broker may not have.

## Proofs

Every safety property and every refinement that a passing run checks is also a
theorem, for any value of the constants: any number of threads, consumers,
producers, messages, nodes, aliases, setup functions and faults. Each has the form
`Spec => []Property` or `Spec => Refinement`.

| Module | Theorems (what they state) |
|---|---|
| `ProducerProofs` | `TypeCorrect` (`TypeOK`), `NothingLeaks` (`NoLeak`), `ChannelsAreReady` (`ChannelReadyForUse`), `PublishedIsStored` (`NoSilentLoss`), `TwoCopiesAtMost` (`AtMostTwoCopies`) |
| `PublishProofs` | `OneFaultMasked` (`OneFaultIsMasked`), `ContractImplemented` (`ImplementsContract`) |
| `ConsumerProofs` | `Invariant`, `TypeCorrect`, `NothingIsLost` (`AtLeastOnce`), `NothingCirculates` (`NoPoisonLoop`), `OnlyRaisedAreDead` (`DeadLettersWereRaised`), `PrefetchIsKept` (`WithinPrefetch`), `NothingIsStranded` (`NothingStranded`), `ThreadImplemented` (`ImplementsThread`) |
| `StartConsumersProofs` | `Invariant`, `TypeCorrect`, `EndsGracefully` (`GracefulExit`), `NoConsumerIsKilled` (`SignalsKillNoConsumer`), `FailuresAreLocal` (`FailuresStayLocal`) |
| `HealthCheckProofs` | `Invariant`, `TypeCorrect`, `VerdictsJustified` (`VerdictsAreJustified`), `ReportedOnce` (`EachAliasReportedOnce`), `HealthyIsReachable` (`HealthyMeansReachable`), `VerdictImplemented` (`ImplementsVerdict`) |
| `SettingsProofs` | `RejectsTheUnusable`: an alias is rejected exactly when it is not `Usable`, NaN timeouts aside; the steps of `ready()` |
| `SetupTopologyProofs` | `Invariant`, `TypeCorrect` (`SetupTypeOK`), `UsableIsAccepted` (`AcceptsWhatIsUsable`), `DictionariesMatch` (`DictionariesAgree`), `ChannelsAreReleased` (`ChannelReleased`), `ReportsAreTrue` (`ReportIsTrue`), `RunsConverge` (`RepeatsConverge`) |

They rest only on the assumptions about the constants in the modules, which TLC
evaluates in the runs. `SetupAssumption` says that
setup functions are finite sequences of calls that name entities, and that no
arguments are `Missing`. Every inductive invariant was model-checked on instances of
the runs before it was proved.

**Producer.** Four invariants, each relative to the former.
`Slots == TypeOK /\ SlotsInv /\ NoLeak`: `NoLeak` alone is not inductive, since a
step that opens a connection over one still served would break it; `SlotsInv`
says that a slot is served only while it looks open, that an open channel sits
on an open connection in confirm mode, and which slots are filled at each point
of `publish()`. `TypeOK` itself needs `NoLeak`: a count that is decreased must
have been positive.
`Delivery == CallsInv /\ NoSilentLoss /\ AtMostTwoCopies`: `CallsInv` says that
an answer is on its way only to a call that waits, that an acknowledged message
which is not `Volatile` is stored, that attempts are 1 or 2 and only the first is
reset, and that active calls are of different messages. `SurvivesNodeFailure` is
where the forced persistent mode and the durable queue are used.
`MaskInv`: a call with fewer hits than attempts finds nothing broken and has not
failed; a second attempt had a first hit; with fewer than two, a node is up and the
declaration will be accepted. What is broken is `Stale` or a new channel that is gone
before `confirm_delivery()`. The reset is where it matters: it empties both slots, so
the second attempt starts unbroken. A step of one thread leaves the others
`Undisturbed`, and nodes and queue `Serving` (declaring can only help the others).
`SentInv`: copies are of messages whose call was entered, so that what a broker takes
late is still an `Accept` of the contract. The refinement maps `stored` to `accepted`;
the only normal return is that of `AwaitConfirm`, since `SlotsInv` excludes a channel
without confirms.

**Consumer.** `Inv == TypeOK /\ ThreadsInv /\ MessagesInv`. `Linked` ties what the
broker serves to what the thread sees, and unsettled deliveries to a channel with a
prefetch limit; `AtHand` says that what is dispatched is held on the served channel,
and that `nack` follows a handler that raised; `EndsOnStop` says that a
session ends without an exception only because of stop. `Placed` is `AtLeastOnce` with the messages held by at most
one consumer; `Paid` counts: the runs of a message, and one more if it is about to run,
are covered by its requeues and its first delivery. The last is what makes
`NoPoisonLoop` inductive. The refinement maps each location of `consume()` to a `life`,
and subscription or deliveries to `holds`.

**StartConsumers.** `HandlersInv`: handlers are installed one after the other and
before any thread; `StopInv`: stop is set by handled signals only, and only stop makes
`consume()` return; `GoneInv`: a process that is gone has no consumer at work.

**HealthCheck.** `AliasInv(a)`: an alias has one result from its decision on; while it is
undecided a node no longer pending has failed; until the report is complete, it is
pending or decided. `CommandInv`: every probe wanted is launched before the wait, and an
alias times out only when the time is up.

**Settings and SetupTopology.** `PublishInv`: the dictionaries are empty until all aliases
are built and then filled at once. About one alias, what is on its broker and its calls
are compared without the state: `BrokerKeeps`, an entity keeps its arguments whoever
declares it next; `RecordStaysTrue` and `RecordsTheTaken`, a record is true of the broker
and stays so; `SoundIsTaken`, a sound setup's next call is accepted by any broker that
holds only what was there before and what the calls declare (`FromCalls`). `StepMoves`
shows that every step, of this command or of another host's, moves the brokers in that
way; `RegistryInv`, `CommandInv`, `ReportInv` and `SoundInv` carry this through the loop.
`RunsConverge` needs `FromCalls`: what an earlier run left is nothing new to the calls.

Only model-checked:

* liveness (`PublishReturns`, `StopEndsConsumers`, `MessagesAreSettled`,
  `EndsByDeadline`, `EndsPromptly`, `SignalsEndTheProcess`), which is out of the
  prover's reach; so is the fairness `StartConsumers` takes over from `Consumer`;
* the disagreements below, which are counterexamples.

## Disagreements met

Four are shown by runs and listed under `findings`: the consumer that dies
(`nack_on_dead_channel`), the consumer that goes deaf (`closed_channel`), the repeated
declaration (`declare_race`; `docs/content/reliability.md:284` advises against sharing a
producer between threads) and "no answer" (`no_answer`). Others, read only:

* `docs/content/reliability.md:281`: the consumer connection is "closed on session
  end"; `consumer.py:249-252` closes the channel only (`Cleanup` models that).
* `consumer.py:61-63`: a string queue is declared passively; `_declare_queue`
  declares it actively.
* `docs/content/configuration.md:61`: `RECONNECT_MAX_BACKOFF` is the cap of the
  delay; the first wait (`consumer.py:193`) is the initial delay as configured,
  which nothing compares with the maximum. No property states the cap: the model takes
  any two delays.
* `apps.py:168-169`: an incomplete address is an `ImproperlyConfigured`; a scalar address
  with only `HOST` or only `PORT` counts as given (172) and is then indexed by both keys
  (182), a bare `KeyError` (`NodesError`).
* `apps.py:33-34`: any invalid setting is an `ImproperlyConfigured`; a missing key is a
  `KeyError` (`AliasError`), and a value pika does not take a `TypeError` or `ValueError`
  from `connections.py:71` (`ManagerError`).
* `docs/content/management-commands.md:87`: `start_consumers` "blocks until a
  `SIGTERM` or `SIGINT` signal is received"; it also returns, successfully, when
  every consumer thread has died or had no handler (line 107 of the same page says
  so).
* `apps.py:151`: a timeout that is not a positive number is rejected; NaN is accepted,
  since `NaN <= 0` is false. `Usable` is what the docstring says, and
  `AcceptsWhatIsUsable` sets NaN aside (`NaNAside`). `--timeout nan`
  (`check_rabbitmq_connections.py:150`) is accepted too.

## Not modelled

Rendering, logging, the banner and colours; the seconds printed by the
healthcheck; the documentation site. The rest of a frozen dataclass is its fields.
Setup functions that call `exchange_bind` or delete things: `RecordingChannel`
forwards these without recording them. The failure to start a probe thread.

## Plan

1. `Delivery`: the at-least-once promise of `docs/content/reliability.md` as an
   abstract specification over `PublishContract` and a message's way through
   `Consumer`, with its refinement proved.
2. Proofs about that composition.
