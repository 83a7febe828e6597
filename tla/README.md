# kritis3m_scale in TLA+

kritis3m_scale is the management server of a fleet of nodes: it keeps versioned
configurations in PostgreSQL, and rolls a version out to the nodes over MQTT.
This directory models what is hard to get right in it: the roll-out over MQTT to
a fleet and to a single node, with its callbacks, channels and timeouts; the
activation that starts a roll-out and records its outcome; the configuration
store with the assembly of updates from it; the life of the server process with
its hello and log streams; and the commands of the command line with the answers
they get. TLC checks the models on small instances; TLAPS proves the main safety
properties for every number of nodes, calls and version sets.

## Inventory of the system

All of it runs in one process (`control/app.go`, `Serve`), whose parts talk
through gRPC on one server, MQTT and the database.

| part | code | state it keeps | operations | what makes it correct |
|---|---|---|---|---|
| fleet update coordinator | `control_plane/mqtt_client.go` 466-1018 | `fleetStatus` (nodes, last global state), `nodeChan`, `doneChan`, subscription | `UpdateFleet`, the callback on `+/control/state`, `processFleetUpdate` with its three broadcasts | nobody applies before all are ready, success only if everyone has applied and was acknowledged, an error rolls everybody back, the handler returns |
| single-node update | the same file, 186-334 | `streamChan`, `doneChan`, a 40 s timer | `UpdateNode`, its callback and its goroutine | the caller learns what the node said, in order, and the call returns |
| MQTT client factory | the same file, 40-123, 145-184 | four shared `client` records, one shared `client_config` | `GetClient`, `cleanup`, `SendCertificateRequest` | a node applies only what it accepted although users of an identity share its record; connections are closed |
| hello and log streams | the same file, 336-436; `southbound/core.go` | `messageChan` | `Hello`, `Log`, `HelloService`, `LogService` | entries arrive in order, a stream that ends is cleaned up, `last_seen` stays fresh |
| activation | `southbound/activate.go` | `done`, `finalState`, `lastError`; the rows of `transactions`, `transaction_log`, `version_transitions` | `ActivateFleet`, `ActivateNode` | an active transition is a deployed one; one is active; callers are answered |
| versioning store | `db/versioning.go`, `db/transaction.go`, `southbound/version_set.go` | `version_sets`, `version_transitions`, `transactions` | create, activate, disable, log | statuses move forward only |
| configuration store | `db/{node,group,proxy,endpoint,hwconfig,common}.go` and their services in `southbound/` | five tables keyed by a version set | create, get, list, update, delete | references stay inside a version set; an update changes what it names |
| update assembly | `db/control_plane.go` | none (reads) | `NodeUpdate`, `GetFleetUpdateOptimized` | exactly the nodes, groups and proxies of the version set or group |
| certificates | `southbound/cert_req.go`, `southbound/est_core.go`, `db/enroll.go`, `control_plane/estserver.go` | `enroll` | certificate request, enroll | pass-through |
| broker | `control_plane/broker.go` | an embedded MQTT broker | `Serve` | third-party code |
| life cycle | `control/app.go`, `db/startup.go`, `db/db.go` | contexts, servers | `Serve`, schema, pool | parts stop only when no handler needs them, an interrupted server stops |
| command line | `cmd/` | none | one gRPC call per command; `bootstrap` and `reset` work on the database | an update changes what it was given, an answer is true |

Interaction: the command line calls the southbound service; `ActivateFleet`
reads the nodes from the database and calls `UpdateFleet` through the
*network*, as a gRPC client of its own process; `UpdateFleet` publishes to the
nodes through the broker and streams what they say back; `ActivateFleet` turns
the stream into rows. What is hard is where these meet: callbacks of the MQTT
router that send on channels a handler closes, two goroutines on each call with
a deadline that may cut in anywhere, messages that arrive late or of an earlier
update, a connection that comes back without its subscription, and writes that
belong together but are transactions of their own.

## Modules

| module | models | extends |
|---|---|---|
| `Rollout` | what a roll-out promises: configure, all ready, apply, all done, acknowledge; or roll back | |
| `FleetUpdate` | `UpdateFleet`, `processFleetUpdate`, the callback, the MQTT connection and the nodes | |
| `FleetRollout` | the refinement mapping from `FleetUpdate` to `Rollout` | `FleetUpdate` |
| `FleetUpdateProofs`, `FleetRolloutProofs` | the proofs about both | |
| `Activation` | `ActivateFleet` and `ActivateNode`: handlers, receivers, the three tables | |
| `ActivationProofs` | the proofs about it | `Activation` |
| `ConfigStore` | the tables of the version sets and the operations of the services on them | |
| `FleetQuery` | the two queries that assemble updates, and what an activation does with the store | `ConfigStore` |
| `FleetQueryProofs` | the proofs about both | `FleetQuery` |
| `NodeUpdate` | `UpdateNode`, `SendCertificateRequest`, `GetClient` and `cleanup`: the calls that share the client record `update_node` | |
| `NodeUpdateProofs` | the proofs about it | `NodeUpdate` |
| `Server` | `Serve` from start to end, the broker and the EST server as parts of it, the handlers `Hello` and `Log` and the services that read them | |
| `ServerProofs` | the proofs about it | `Server` |
| `Commands` | the commands of the command line, the handlers and statements that answer them, bootstrap and reset | |
| `CommandsProofs` | the proofs about it | `Commands` |
| `MCFleetUpdate`, `MCActivation`, `MCFleetQuery`, `MCNodeUpdate`, `MCServer`, `MCCommands` | the instances for TLC | |

### FleetUpdate

*The handler* (`hpc`) is `UpdateFleet`: connect, subscribe, start the processor,
wait for `doneChan` or the context, unsubscribe and close `nodeChan`, cancel,
clean up. *The processor* (`ppc`, `todo`) is `processFleetUpdate`; each publish of a
broadcast is a step (`PublishConfig`, `SendApply`, `SendAck`, `SendRollback`)
because the context and the connection can fail between any two of them. It
holds `fleetStatus` (`nodeState`, `lastGlobal`) and takes reports off
`nodeChan`, whose capacity is a multiple of the fleet as in the code
(`BufPerNode`). *The callback* (`cb`) holds at most one report, because the MQTT
library runs one callback at a time; a callback that waits for `nodeChan` jams
the router and with it every acknowledgement (`Jammed`). A processor that waits for
such an acknowledgement takes no report off the channel, and nothing moves any more
(`Stuck`): only the context's five minutes end that (`Expire`, which a jam enables
also where `timeout` is not among the faults), and the handler that then closes the
channel makes the waiting callback panic. *The nodes* report what they reach,
possibly twice (`NodeRepeat`), and other devices under the same topic may report too
(`StrangerReport`); `noise` bounds both. Nodes handle what they were sent also after
the server has ended. Unknown, garbled and zero messages are kept, since the code
reacts to them.

`Faults` says what may fail: connecting, subscribing, a session lost and resumed
without its subscription, publishing, the timeout, a caller that hangs up, nodes
that reject, and reports of an earlier update that are still on their way
(`stale`).

### Activation

Each call has a handler (`pc`) and a receiver (`rpc`), the goroutine that reads
the gRPC stream and meets the handler on the unbuffered `done`. Every statement
is a step, because each runs in a transaction of its own under the call's
context: it fails if the context has ended and may fail otherwise (`db`). The
update runs elsewhere; of it the model keeps what it streams and how it ends
(`remote`, `stream`), which is what `FleetUpdate` and `UpdateNode` can do to a
caller. The process may end at any time, by a kill or by the panic of a send on
a closed channel: the rows stay, and calls not yet made are made after the
restart. `Base` is the transition of an earlier activation. Two facts about the
code shape the model: most error paths of the receivers leave without a signal on
`done`, so that the handler waits for its deadline, and by then no statement can
succeed; and `logTransactionFailure` never inserts a row (see *Findings*).

### ConfigStore and FleetQuery

A table is the set of its rows, and a row keeps its key, its references, its
version set and what an update carries of it. Every call of the southbound
service is one SQL statement in a transaction of its own, so it is one action,
guarded by the keys and foreign keys of the schema (`db/db.go`); a call that the
database refuses changes nothing and is no action. That leaves out calls that can
never succeed: updating a node or a group by name (the statement lacks quotes), or
a group's legacy configuration and a proxy's group (the columns do not exist). A
name that is not given is the empty name and not NULL, so a group without a
legacy configuration needs an endpoint configuration named `""`: it is one of
`ConfigNames`. `Hello` is the statement of the hello stream, for all rows of a
serial number; `Silence` is the passing of two minutes.

`FleetQuery` evaluates the joins of `GetFleetUpdateOptimized` and `NodeUpdate` over
these tables, with `Null` for a partner that a left join does not find and an error
where the code scans one into a plain string. An item of an update is made of bags,
because the joined rows repeat proxies and hardware configurations. Its actions are
the steps of an activation that touch the store: reading the update, inserting the
transition (`planned`), logging responses (`updating`). They run among the
operations of other callers, and several activations overlap; only that of one
activation the transition comes before the log is not kept. Left out: the columns
that are only shown, the `state` of a version set (no code decides anything by
it), groups and proxies with an empty name (the query skips them), and what a
caller is told. A query of two statements (`NodeUpdate`) is one step.

### NodeUpdate

The factory has one record per MQTT identity, and `UpdateNode` and
`SendCertificateRequest` share the record `update_node`. `GetClient` puts a new
connection into it, and every later `c.client` reads the record again: `rec` is
the call whose connection is in it, so a call may subscribe, publish and clean up
on the connection of another. That begins with dialing, in a goroutine of its own
that also reads the record (`Dial`): a call may dial the connection of another, or
find it dialed (`dial` is the connection a call waits for). The broker ends the
older session of an identity (`Admit`), whose client reconnects by itself, without
its subscriptions (`Reconnect`), and so two sessions may end each other in turn.
An update is its handler (`pc`), its goroutine (`gor`) and the callback that the
router of a connection runs for one report at a time (`cb`). The two channels are
unbuffered: a send and its receive are one step of both sides (`Receive`,
`FinishUnreadable`, `Finish`), and a callback whose reader has gone stays where it
is, with its router. Subscribing looks at its token before it waits, so a refusal
goes unnoticed (`Subscribe`). The library's `Disconnect(250)` is assumed to return
after its quiesce time even with a blocked callback.

### Server

`main` goes through `Serve` in the order of the code, deferred calls included; each
part it starts has a state of its own. A stream is a pipeline with one variable
per place: `inbox` (delivered), `cb` (in the callback), `chan` (the channel of `Log`;
that of `Hello` is unbuffered), `drain` and `batch` (the goroutine and what it still
has to send), `wire` (the gRPC stream), `journal` (handled by the service). `handed`
is the history of what the callback was given. A hello is a message of one
entry, a log message an array of entries. Faults: the EST server, the database at
the start or for one statement, the broker, the address in use, a broken gRPC
connection, a lost MQTT session. Two of the ways the process can die are in it:
`lis.Addr()` on a nil listener (app.go:111), and a hello when the server came up
without a database (core.go:176). The deferred calls cancel the context of the broker
(`CancelBroker`) and go on; the broker is closed by the goroutine that serves it
(`CloseBroker`), before or after the EST server shuts down, or not at all when the
process is faster.

### Commands

Each command of `cmd/cli` is a definition: the calls that its flags can make, as
records of an operation, the key it names its row by and the columns given. A
process makes one call and waits for its answer or its timeout; of an update the
call keeps which of its values are empty, where the handler drops those
(`Updates`; `Kept` is what is left). A handler is the statements it runs, one
transaction a step, and the answer. The six tables meet only in foreign keys,
whose refusals are always possible (`Refuse`), so a behaviour is about one table
and one row of it; the foreign keys themselves are `ConfigStore`'s. A value is the
command that gave it, so that a property can ask who changed a column. A panic in
a handler ends the process of the server, since it has no interceptor that
recovers. `ConfigStore` has the same operations as single steps over all the
tables; `Commands` adds what their callers give and are told.

What the code does here that a reader may not expect, and that the model keeps: an
index 0, an empty locality, and an empty name or description of a version set are
dropped, and the update is answered as done all the same (`DropsEmpty`);
`update proxy` resets the state and the addresses that were not given, and a
hardware configuration its device; a node by its name and a group by its name
cannot be updated (the condition lacks quotes), nor a group's legacy configuration
(no such column); `delete node` is always refused; `list proxies -v` asks for a name
that no proxy has; proxies by serial number cannot be read; listing version sets
ignores the state asked for; a failed request to a node is answered as done
(cert_req.go); `reset` drops the tables under a server at work; `bootstrap` is three
transactions, and after the first a second one is refused until a reset.

### Abstractions

Payloads, wording, timestamps and metadata are left out. MQTT delivers in order
per topic and with QoS 2 neither loses nor repeats what a connected, subscribed
client is owed. The version set of an activation is not kept; nothing reads it back.

## Runs

| run | instance | what it shows |
|---|---|---|
| `fleet_safety` | 2 nodes, 1 stranger, a `nodeChan` of 2, 1 unsolicited report, every fault but `stale` | the two-phase gates, the truth of what the caller is told, finality of the verdict, and the refinement of `Rollout` |
| `fleet_atomic` | 2 nodes that may reject, 4 repeated reports, which fill `nodeChan`, the callback and the router, a caller that may hang up | all or nothing at the end of an update that neither network nor caller disturbs, unless the deadline cuts a jammed loop short and the server dies of it; complete rollback |
| `fleet_live` | 1 node, 3 unsolicited reports, every fault | the handler returns and the processor ends |
| `activation_safety` | 2 activations of version sets that may overlap, every fault | the invariants on rows, and the legal moves of a status |
| `activation_live` | a group and a node activation, one after the other; the update may fail, the deadline comes | every call is answered, a success is on record, no receiver is left behind |
| `config_safety` | 2 version sets, 2 nodes, 2 endpoint names, 1 group name, 2 proxies, 1 hardware configuration, at most 2 rows in each table, 1 version set activated at a time (`MaxActivated`) | references, exact updates, what an activation can rely on, and the isolation of version sets |
| `node_calls` | 1 update and 1 certificate request on the shared record, 1 node of up to 2 reports, 1 session that breaks by itself, every fault | the caller is told what the node said and in that order, a node applies only after it accepted, what is left behind and what is not, every call returns |
| `server_streams` | 1 node, 2 log arrays and an unreadable payload, 2 log messages and 1 hello, a channel of 1, 1 fault while the server runs, every kind of it | order and completeness of the streams, no handler left when the broker closes or the EST server shuts down, what ends the hello service |
| `commands_all` | each of the six tables in turn, 3 processes of any command, at most 1 column given (2 for a hardware configuration) | answers are true, updates change what they were given, the three ways in which a command kills the server |
| `fleet_stale`, `config_group`, `server_shutdown` | the smallest instance that shows it | the findings below |

Why these bounds: the gates of a roll-out compare one node with another, so two
nodes are the smallest fleet where one is ahead; a channel as small as the fleet
fills with few unsolicited reports, which is the case a larger one would need
more of. With a channel of two, four reports
jam the router: two in the channel, one in the callback and one on its way. The four
repeated reports of `fleet_atomic` are as many, so that each of the four loops that
publish can be jammed, the one of the acknowledgements too, when every node has
reported all it had to. The other safety runs have fewer, because their properties do
not depend on a jam; their theorems hold for any number.
Two version activations are needed for one to replace, or overtake, another; a
third only lengthens the chain, and the proofs do not depend on the number.
In the store every property relates one row to another, of the same or of a
second version set: two version sets, two nodes and two proxies give each join a
wrong partner to find, and the second endpoint name is what renames need. The
product of two hardware configurations with the proxies is in the definition of
`UpdateIsExact`, and is exercised with two proxies.
In `node_calls` a second update would share what the certificate request shares:
the record, the session and the cleanup; a second report is what ordering needs. Its
node accepts the configuration and then applies it or fails to, or rejects it at
first, or sends a report that cannot be read (`Scripts`); an error that follows an
`APPLICABLE` before that is taken is what a wrong order needs.
In `server_streams` a channel of one fills with the second of two messages, as one
of three does with the fourth. In `commands_all` a lost update needs two writers
and a third process that reads or deletes between them. A second hardware
configuration or version set would be a second row (`OneRow`).
`activation_live` has no version call: it shares the code that waits with the
group call and continues with statements that cannot block. The node symmetry
(`Symmetry`) and the symmetry of the calls are used in safety runs only.

Fairness: `FairSpec` of `FleetUpdate` assumes that goroutines that can run do, that
the MQTT library delivers, and that the context's five minutes pass, where `timeout`
is not a fault only once the update is stuck; it assumes nothing of nodes, callers or
faults. `CooperativeSpec`, for `fleet_atomic` alone, adds that nodes handle the orders
they receive. `FairSpec` of `Activation` assumes the same of
handlers, receivers and each call's deadline, and nothing of the update: the
answer comes even if the update never ends. `Fairness` of `NodeUpdate` is weak for
what only waits (the client dials, connects and reconnects, timeouts pass, cleanup runs)
and strong for subscribing and publishing, because two sessions of one identity
flap: a publication waits for a session that comes again and again. `Fairness` of
`Server` is weak on every goroutine; it has no signals and no faults. Safety runs
of `Commands` need none.

Deadlock is checked in every run except where a configuration says otherwise: the
models stutter only when every call or handler has ended. The runs of
`NodeUpdate`, `Server` and `Commands` say otherwise, because a program at rest is
a legal end there: all calls returned, the server exited, or three commands done.

## Findings

* `fleet_stale`: the transaction of a report is not compared; a late report of an
  earlier update opens the apply gate (`mqtt_client.go:771`).
* `config_group`: an update for a group goes to every node of the version set and
  carries all groups: `groupName` is not used (`control_plane.go:303`, `:364`).
* `server_shutdown`: `GracefulStop` waits for the hello and log streams, whose
  contexts are cancelled only after it (`app.go:148`, `:47`): a signal does not end
  a server whose streams are open.

Known divergences, each an action of a model, without a run:

* `close(nodeChan)` races with a callback that sends on it, and the process
  panics (`mqtt_client.go:523`, `:552`, `:562`; `PushToClosedChan`). A node that
  repeats a report is enough.
* A receive from the closed `nodeChan` is taken for a failed node
  (`mqtt_client.go:606`; `Receive` of `FleetUpdate`).
* A caller that hangs up before the processor has taken a node's error off the
  channel ends it without a rollback (`mqtt_client.go:608`; `HandleReport`);
  `RollbackComplete` speaks of errors that were taken.
* An update jammed by repeated or unsolicited reports ends at its deadline with the
  server, and its nodes may be left neither acknowledged nor rolled back (the third
  case of `AllOrNothing`; `Stuck`, `Expire`).
* The same race on `done` (`activate.go:188`, `:433`; `SendOnClosedDone`).
* A failed activation leaves no record (`activate.go:466`; `LogTransactionFailure`).
* A node whose acknowledgement could not be published is told as `APPLIED`
  (`mqtt_client.go:291`; `Acknowledge`).
* After `UpdateNode` has returned, its callback may still be registered on a
  connection that has replaced its own, and take reports there that no one
  reads (`Unsubscribed`, `RouteReport`).
* A version set without a description, a group asked for without a name, and a
  certificate request for a version with a node that has not said hello end the
  server (`version_set.go:225`, `group.go:127`, `cert_req.go:72`).
  `CrashIsExplained` says that no other call of the command line does. Another
  client of the same service can also ask for an endpoint configuration without a
  query (`endpoint.go:110`), and the panics of the other models end the process as
  well: sends on closed channels (`FleetUpdate`, `Activation`), a nil listener and
  a missing database (`Server`).
* An empty value is dropped and the update answered with success: a name or a
  description of a version set (`version_set.go:107-112`, `:121`), a node's index 0 and
  its empty locality (`node.go:213-218`; `DropsEmpty`).
* An endpoint configuration updated by its id is changed and an error is answered
  (`endpoint.go:156`; `UpdateAgain`).

`OnlyIdleNodesBlock` holds, but what it says is worth knowing: one node that was
heard of lately and has no proxy makes every activation of its version set fail.

## Proofs

`FleetUpdateProofs` proves for any finite set of nodes, any strangers, any channel
size and any faults, reports of an earlier update included: `TypeCorrect`;
`SuccessConfirmed` and `VerdictIsFinal` (action property), which need no more of
the reports than that an order follows from where the processor is
(`OrdersCorrect`). `GatesHold` (nobody applies before all are ready) and
`NewsHold` (nobody is acknowledged before all have applied, and announcements are
true) hold as long as no report of an earlier update is on its way (`"stale"
\notin Faults`), and `fleet_stale` shows that the assumption is needed.
`FleetRolloutProofs` proves with it that `FleetUpdate` implements `Rollout`
(`PromiseKept`). The inductive invariant `IInv` follows the orders backwards: an
order sent is justified by where the processor is (`OrderInv`), that by the states
it recorded (`StatusInv`), those by reports it took off the queue, and a report in
`outbox`, in the callback or in `nodeChan` by what its node said (`QueueInv`,
`GateInv`). The gates alone are not inductive: a step of the processor needs to
know that the report it acts on was really made. `RollbackReachesAll` is about the
end of an update that a node's error stops: the processor does not leave under a
live context before it has ordered every node to roll back. It assumes that no
publish fails (`"publish" \notin Faults`); deadlines, callers that hang up, nodes
that reject, lost sessions, other devices and reports of an earlier update are
allowed, more than in the run `fleet_atomic`. It rests on two facts that are not
about reports at all: the handler waits, connected, for as long as the processor
works and the context lives (`WaitInv`), and the processor that noted an error has
no way out under that context but through the rollback loop, whose nodes still to
do are the only ones without the order (`ErrorInv`).

`ActivationProofs` proves for any calls and any faults: `ActivationTypes`,
`ActiveIsDeployed`, `RevokedIsReplaced`, `SuccessHasBacking`, `StatusesMove`,
`GapIsUnrecorded`, and
`AtMostOneActive`, whose property is conditional: no two calls overlap and no
statement fails under a live context. Its invariant has a part for what one call
knows of its update (`FleetUpdateInv`, `NodeUpdateInv`), one for the rows
(`RowInv`), and one that says that a call that is alone knows the active
transition (`AloneInv`, `OrderInv`). `GapMeansUnrecorded` is inductive next to
these: only the statement that disables the old transition can leave none active,
and the call that ran it has an update that ended well and a row that says
pending, until it writes it (`RowFrame`, `CallKeepsGap`).

`FleetQueryProofs` proves for any version sets, names and bounds: `StoreTypes`,
`ReferencesHold`, `IdleNodesBlock`, `UpdatedNodesStay`, `VersionsStayIsolated`,
`KeysStayUnique`, `UpdatesAreExact` and `ActivationsAgree`.
The invariant is the types together with the references: a row that is referenced
is not deleted or renamed, so the only thing to show of an operation is that
it leaves referenced keys in place (`NodeKeysStay`, `ConfigKeysStay`,
`GroupKeysStay`). With it a lookup of the query finds its partner (`RowsScan`), and
with `KeysStayUnique` there is no other. `UpdatesAreExact` counts: the rows of a node
are its hardware configurations times its proxies, so how often a row names one of
them is the number of the others (`RowsCount`), and the items are as many as the
nodes because two nodes of a version set that were heard of differ in their serial
number. Each count is a bijection between finite sets (`SameSize`), and the tables
are finite because rows come one at a time (`TablesFinite`). `ActivationsAgree` holds
because what an item says of groups depends only on which proxies its rows name
(`GroupsFromProxies`), and both queries find the same ones.

`NodeUpdateProofs` proves for any calls, nodes, bounds and faults: `UpdateTypesHold`;
`AppliedWasReported`, by following a report backwards from what was told through the
goroutine, the callback and the inbox to what the node published; `OkIsTheEnd`;
`IdleRecordIsClean`, whose invariant says of calls that have not overlapped that
the record holds the connection of the only call at work; and `ToldInOrder`. The
invariant of the last says that at most one connection runs the callback of an
update at a time, because only its own `Subscribe` registers it, once (`SrcInv`), and
that what was told is what was seen, less what the callback and the goroutine
hold (`FollowInv`).

`ServerProofs` proves `ServerTypes`, `StopsInOrder`, `HelloServiceSurvives`,
`StreamsInOrder` and `NothingIsLost` for any nodes, log arrays, channel size and
faults. `StopInOrder` says that once the broker is closed or the EST server shut
down, the broker's context was cancelled and no handler is at work. It is not
inductive: the broker may close long after the cancel, and that no handler is left
by then is kept only because a service dials while the server serves, and not
later. The invariant behind the last two (`OrderInv`) says that, while a stream is
up, what its callback was handed is what was received, then what is on the wire,
in the goroutine, on the channel and in the callback. To flatten a channel of
arrays would take an induction over data, so the invariant says instead at which
offset of `handed` each message on the channel begins (`Offsets`), and each step
of the pipeline moves one of these offsets (`MessageEnters`, `MessageQueues`,
`FirstIsTaken`, `MessageIsMet`, `EntryMoves`). It needs that a pipeline is empty
until its service dials, which it does once (`UnusedInv`), and that a goroutine
with nothing to send holds nothing (`IdleInv`).

`CommandsProofs` proves for any number of processes: `CommandTypes`,
`AnswersAreTrue`, `OnlyGivenChanges` and `CrashesAreExplained`. The invariant says
where a row comes from (`OriginInv`), that who has a value in it has had a
statement committed (`MarkInv`), and that what an answered update gave, less what
its handler drops, is there or can have been changed (`KeptInv`). `MarkInv` and
`KeptInv` need each other's ground: that a row with the first row's id is the one
that everybody named, and that a bootstrap that has still to write its version set
finds none (`CreatorInv`).

The only assumptions are those on the constants (`NodesAssumption` and its like),
which TLC evaluates in every run, and, where a theorem states it, the absence of a
kind of fault. TLC checked the invariants that strengthen a property on a small
instance first. Every safety invariant and action property that a run expects to
hold is a theorem. Only model-checked are the liveness properties, because the
prover has neither fairness nor ENABLED: `AllOrNothing`, `HandlerReturns` and
`ProcessorExits` of `FleetUpdate`, `EveryCallAnswered` and `ReceiversEnd` of
`Activation`, `HandlerReturns` of `NodeUpdate` and `Settles` of `Server`.

## Not modelled

* The composition of `Activation` with `FleetUpdate`: `remote` of `Activation` may do
  all that `FleetUpdate` does to its caller, and the product of the two is beyond
  what TLC enumerates in minutes.
* The two statements of `NodeUpdate` (control_plane.go) as two steps, and a failure
  between two rows of a result.
* `GetVersionFleetUpdate`, `GetGroupFleetUpdate`, `GetGroupUpdateOptimized`, the
  functions of `db/` that nothing calls, and `enroll`, a table that is written and
  read by no decision.
* The EST server and the MQTT broker, which are third-party, but for what `Serve`
  sees of them; output of the command line; configuration files and the
  conversions of types in `control/types`.
