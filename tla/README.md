# Casper Sidecar in TLA+

A verification development for the sidecar of the Casper node: it listens to the
event streams of one or more nodes, stores their events, serves them again on its
own event stream, and answers REST and JSON-RPC requests. The modules here model
the parts of it that are hard to test: several tasks and threads that share
channels, locks, a database and a ring buffer.

## Inventory

| Part | State | Operations | Interacts with |
|---|---|---|---|
| Listener (`listener`) | attempt counter, node metadata, last event id per filter, connection | fetch metadata, connect, read events, reconnect, give up | node (HTTP), inbound channel |
| Connection barrier (`connection_tasks.rs`) | two atomics, a `Notify` | register success or failure, wait | connections of one listener |
| Keep-alive monitor (`keep_alive_monitor.rs`) | time of the last tick, cancellation token | tick, check, cancel | connection |
| Pipeline (`event_sidecar/src/lib.rs`, `event_handling_service*`) | channels, version lock, newest version | consume, handle an event, announce a version, stop | listener, database, event bus, event stream server |
| Event store (`database/*`, `sql/*`) | tables, open transactions, schema version | save, migrate, read | pipeline, REST server |
| Event stream server (`event_stream_server*`) | event index, ring buffer, latest version, broadcast channel, one stream per client | broadcast, buffer, register, subscribe, replay, stream, lag, shut down | pipeline, clients |
| REST server, admin server | none of their own | read and format | event store, metrics |
| Node client (`rpc_sidecar/src/node_client.rs`) | connection, request id, reconnect notification | request, skip stale answers, reconnect, keep alive | node (binary port) |
| Block cache (`caching_node_client.rs`) | newest block | update on a block event, read, reset | event bus, node client |
| JSON-RPC and the RPC methods (`json_rpc`, `rpc_sidecar/src/rpcs*`) | none of their own | parse, dispatch, combine answers of the node | node client |
| Process (`sidecar`) | tasks of the components | prepare, run, stop at the first end or signal | all of them |

What makes the parts correct, and what is hard about them, is in the list of
hazards of `PROJECT.json`, each at its line of the source and with the properties
that would catch it.

## Modules

| Module | Models |
|---|---|
| `EventStream` | the event stream server: `EventStreamServer`, the task `http_server::run`, the handlers and response streams of `sse_server` |
| `EventStreamProofs` | theorems about the server of `EventStream` |
| `EventDeliveryProofs` | theorems about what `EventStream` delivers to a client |
| `MCEventStream` | small instances of it |
| `EventPipeline` | from the inbound channels of the listeners to `EventStreamServer::broadcast`: consumers, workers, version lock, saving, event bus, exit, crash and restart |
| `EventPipelineProofs` | theorems about `EventPipeline` |
| `OutboundFeed` | what the pipeline promises to the event stream server |
| `MCEventPipeline` | small instances of it |
| `NodeClient` | `FramedNodeClient`: the connection of the RPC server to the binary port, its lock, requests, timeouts, reconnection, keep-alive |
| `NodeClientProofs` | theorems about `NodeClient` |
| `MCNodeClient` | small instances of it |
| `Listener` | `EventListener` for one node: metadata, attempts, the connection, the registry of seen ids, the keep-alive monitor |
| `ListenerProofs` | theorems about `Listener` |
| `MCListener` | a small instance of it |
| `JsonRpc` | the JSON-RPC framework: what it makes of an HTTP request |
| `NodePort` | the questions that can be put to the node, and what the client makes of the error codes and answers |
| `RpcMethods` | every RPC method as the sequence of questions it asks, of which block |
| `AuctionBids` | the bids of `AuctionState::new`, with what their conversion to `Bid` leaves out |
| `AuctionBidsProofs` | theorems about `AuctionBids` |
| `RpcServer` | the RPC and the speculative server: `JsonRpc`, `NodePort` and `RpcMethods` with a node whose chain grows, and the cache of the latest block |
| `RpcServerProofs` | theorems about `RpcServer` |
| `MCRpcServer` | requests for it, and lists of bids for `AuctionBids` |
| `RestApi` | the REST routes: which tables a request reads, and the status of its answer |
| `Sidecar` | the process over several starts: configuration, preparation, migrations, REST requests while events are stored, the event index in its file, signals, crashes |
| `SidecarProofs` | theorems about `Sidecar` |
| `MCSidecar` | configurations and releases for it |

How they fit together. What `Listener` puts in its inbound channel is what `Deliver`
of `EventPipeline` allows; what `EventPipeline` sends out is an `OutboundFeed`, and
`EventStream` is driven by a producer of such a feed. `Sidecar` starts and ends these parts and keeps
what outlives them, the database and the file with the event index; inside it, an
event that is saved or that takes an id is one step. `RpcServer` uses of `NodeClient`
that every question returns (`RequestsReturn`) with its own answer (`OwnAnswer`) or
an error.

### EventStream

Three kinds of actor take steps: the producer (`Producer`: calls of `broadcast`
and the drop of the server), the server task (`ServerTask`) and every client
(`Handler`, then `Stream`, and `Disconnect`).

`published` holds every message ever handed to `broadcast`; the data channel is its
part after `handled`, and because the server task broadcasts everything it takes,
its part up to `handled` is also the log of the tokio broadcast channel. A receiver
of that channel is a position `pos[c]`. It has lagged when the log is longer than
the channel's capacity beyond it; the capacity is the power of two to which tokio
rounds the size the code asks for (`ChannelCapacity`).

`serve_sse_response_handler` does not await, but several worker threads run it while
the server task runs on another, so it is three actions: `Validate` (the check of
the limit and of the request), `SendSubscriberInfo` and `Subscribe`. At most
`Workers` handlers are between the first and the last at a time.
`RegisterNewSubscriber` is the whole of `register_new_subscriber`: the comment for
the legacy endpoints, the replay with the version announcements, and the version
alone when nothing is replayed. A response stream first takes what was put in the
channel of initial events (`StreamInitial`), and only when that channel is closed
and empty the broadcast channel (`StreamOngoing`), where ids that were replayed are
skipped. It ends with the Shutdown message, with an error when it has lagged, or
with its client.

Abstracted: an event is its kind, its id, whether it has a legacy form, whether it
came from a node, and its version if it announces one. The JSON text, the
HTTP headers and the error responses are left out; a request that is turned down
leaves no state behind and is no step. `replayed`, `reg` and `sub` are history that
only properties read.

### EventPipeline

Per connection a listener (`Connect`, `Deliver`, `Disconnect`, `GiveUp`), a consumer
(`Forward`, `Finish`) and a worker (`Take`, then one action per await of
`handle_single_event`): `StoreVersion` and `Announce` around the version lock;
`InsertEventLog`, `InsertEntity` and `Commit` in a transaction; `Notify` to the
event bus; `PassOn` to the outbound channel; `SaveFails` for every error that is
not a duplicate, with the case that the commit was done although its answer got
lost. `db` is chosen at the start: `sqlite` handles events in the consumer itself,
`postgresql` and `none` in a detached worker. `Crash` is a restart with nothing
left but the database.

The database is modelled from how the code uses it: rows of an open transaction are
invisible, a transaction that is dropped is rolled back, an insert waits for an open
transaction that inserts the same key (postgresql) or writes at all (sqlite). An
event is its key; the id a node gave it is left out, since the same event under the
same or another id is a duplicate either way. The listener is reduced to what it
pushes into its channel.

`OutboundFeed` is the interface between the two: versions strictly increase, an
event comes after a version at least as new as the one of its connection, the
sidecar's own Shutdown comes once. `EventPipeline` is checked to implement it
(`ImplementsFeed`), and `Producer` of `EventStream` produces no more than it allows,
except that it does not tie an event to the version of a connection.

### NodeClient

The tasks are the callers (handlers of JSON-RPC requests), `keepalive_loop` and
`reconnect_loop`. All of them share one connection behind a lock (`holder`, `queue`),
which the holder keeps over all the awaits of `send_request`; so one record, `call`,
is enough for the local variables. Its `step` is the await the holder is at:
`sending` and `receiving` in `send_request_internal`, `closing` at `close()`,
`connecting` in `connect_with_retries`; `try` is 2 after the reconnect, when the
request is sent once more. A failure (`Fail`) leads to the reconnect in the first
try and to the caller in the second.

The connection is what the node has not answered (`requests`) and what the client
has not read (`answers`). A message is its 16-bit id and its age, the number of ids
taken since; the age is history from which `returned` tells an own answer from a
foreign one. `unflushed` says that our side holds bytes back, which is what makes
`close()` wait. `OriginalId` is the id that `validate_response` finds, 0 when it
cannot read it.

The node is external. It answers the requests of a connection in their order and
repeats the id of each, unless it garbles the envelope or the copy of the request;
it may be slow, get stuck (bytes are accepted by its kernel and read by nobody), go
down and come back at any time. A caller may be dropped at any await (`Cancel`).

Time is abstracted to what it decides: a timeout may fire whenever its await has not
finished. For the one race of two timers that matters, `in_time` is how many refused attempts fit
in `client_access_timeout_secs`, a configuration chosen at the start (`AttemptsInTime`).

### Listener

Three tasks and a node: `stream_aggregated_events` (`Task`), its connection
(`Connection`: `Connect` to `StreamEnds`, one action per await of
`DefaultConnectionManager` and `SseConnection`), the registry of the last ids
(`Register`), and the two tasks of the monitor (`ObserveTick`, `CheckLastSeen`).
`filters_from_version` names a single filter, so a listener has one connection; the
barrier of `connection_tasks.rs` is built for one task and lets it pass at once, and
the two ways `do_connect` may use it make no difference.

The node is external: it numbers its events, keeps the last `NodeBuffer` of them,
sends its version first, then the kept events from the requested id on. `lost` is
history: what it had dropped when the listener connected. The time of the last byte
is abstracted to `none`, `recent` and `old`. A configuration without a network name
(`AnyNetwork`) takes a node of any network.

### RpcServer

A request is a record of what the framework and the handlers look at: path, method,
content type, length, the fields of the JSON object, the kind of its parameters.
`Route` of `JsonRpc` is the chain of filters up to a parsed call. A method is a plan,
a sequence of questions (`Plan` of `RpcMethods`); each says what becomes of a missing
answer, of one that cannot be used and of a refusal. `AskNode`, `AskFails` and
`GetBlockFromCache` take one question at a time, and the chain grows in between.

An answer is the height of the block it was read from. `floor`, `parts`, `asked` and
`verdicts` of a call are history for the properties. The three steps of
`cache_update_loop` are `RecvBlockAdded`, `RecvLagged` and `FetchBlock`. The nodes
that announce blocks to the event server need not be the node of the RPC server, so
announcements may be ahead of it or behind it. The reward of a validator is that of the
last block of an era; without an identifier it is that of the last finished era.

`AuctionBids` is the part of `AuctionState::new` that puts the bids together: three passes
over what the node returned, and `Bid::from_non_unified` for each validator, which is code
of `casper_types` and has delegators by public key only. The loop before them copies the
validators of each era (`auction_state.rs`, 125 to 138) and is left out.

### Sidecar

`Start` is `main` up to the validated configuration, `PrepareAtOnce`,
`PrepareAfterWait`, `PrepareFails` and `StartupTimesOut` the loop of `do_run` over the
components in their order, `Run` the start of the tasks. The first component that
needs the database builds it (`AcquireDatabase` to `StoreVersion`, one action per
statement of `MigrationManager`); the later ones share it. A migration and the row
that records it are separate transactions. `Return` drops the runtime and with it the
event indexer, which writes its file (`DropIndexer`, `WriteFails`); `Crash`, a panic
with its hook included, drops nothing. The database, the file and the history `given`
outlive the process; another start may be of another release.

A REST request is handled statement by statement (`Read`); `seen` is history, the
contents of the tables while it was handled. That a node reports a transaction as
processed or as expired and never as both is assumed of the node.

## Runs

| Run | Question | Size |
|---|---|---|
| `stream_replay` | what a client is sent, in which order and under which version, with ids that wrap around in the buffer | 1.7 M states, about 1 min |
| `stream_live` | how far can three clients exceed the limit of subscribers, do their streams advance, and end with the server? | 101 k states, about 90 s |
| `stream_limit` | is the limit of subscribers kept? No. | counterexample |
| `pipeline_safe` | what is stored and what is broadcast, across duplicates, failed saves, crash and restart | 2.5 M states, about 75 s |
| `pipeline_live` | no wait is for ever, and the sidecar stops | 194 k states, about 2 min |
| `client_calls` | whose answer does a request get, does every request return, and does the connection come back, or the server end? | 227 k states, about 75 s |
| `client_exhaustion` | does it end with the documented configuration? No. | counterexample |
| `stream_gap` | does a replay go on without a hole? No. | counterexample |
| `listener_follow` | is an event skipped over reconnects, is a silent connection ended, does a listener give up? | 350 k states, about 110 s |
| `rpc_calls` | what does an RPC request get, of which block, and does it get it? | 428 k states, about 2 min |
| `sidecar_lives` | what runs after a start, on which schema, what do REST clients read, which event ids are used? | 485 k states, about 45 s |
| `sidecar_errors` | is an error of the database reported? No. | counterexample |

Bounds. `stream_replay` has one client, because clients share nothing but the limit,
which `stream_live` checks with three clients on two threads, the fewest that could
exceed it further. Six ids and a buffer of two make the ids wrap
around between any two buffered events; five messages fill the buffer, overwrite
its oldest entry, change the version and let a client lag behind the channel of
capacity two. `stream_live` takes a buffer of one, the smallest, and two messages.
`pipeline_safe` has two nodes, one block, every channel of size one, four events
from the nodes together, one fault and one crash: two connections and the same block
from both, or one connection that comes back with a newer version, and a part of
them before the crash and the rest after it. The two nodes are interchangeable
(symmetry). With five events (13 M states) it also holds. `pipeline_live` has no
fault and no crash, because progress is only promised without them.

`stream_limit` needs two clients on two threads and a limit of one.

`client_calls` has one caller, which may be dropped, next to the keep-alive and the
reconnect loop: a holder, a request it does not know of, and one that waits. Three ids
wrap around while left-overs are on the connection; at most two answers are skipped; of
two attempts one or two fit in the timeout, so that both ways to give up happen. `TypeOK` and
`OwnAnswer` also hold with two callers and four ids (560 k states). `Cancel` has a bound:
fewer than `IdCount` (65536) callers in a row are dropped with nobody reading on, because
then an id would come round again while its first answer is still on its way.
`client_exhaustion` has the attempts of the documented configuration in miniature, one
more than fits in the timeout.

`listener_follow` has two events of which the node keeps one, so that it loses one and
that a reconnect asks for an event that is gone; channels of size one; two attempts;
and a node that changes twice between up, hung and down, with an older version, a
newer one or the wrong network. `NoGap` also holds with three events of which the node keeps two
(1.1 M states). `rpc_calls` has one client, since requests share nothing but the cache,
which the loop changes at any time; every method of both servers with every identifier
it takes, and a submission with each single flaw; a chain of two blocks that gets a
third; an event channel of two, so that the loop lags. Before it
starts, TLC evaluates the assumption `AuctionStateChecked` of `MCRpcServer`, which compares a
pure algorithm with its definition: all the lists of up to four bids of two validators, two
public keys and a purse, one more than is needed for a validator between two of its
delegators. `listener_follow` has a network name configured; it also passes without one
(525 k states).

`sidecar_lives` has four starts, which is a failed migration or a crash with a start
before and two after it; two faults; two releases of which the newer has one migration
more, in any order, so that an older release meets a newer schema; seven
configurations, the contradictory ones among them; four ids, of which at most three
are taken, so that they wrap around without being used up. `sidecar_errors` needs less.

Deadlock is not checked, except in `rpc_calls`, where the servers always go on: all nodes may be gone, all clients served and the process
exited, and then nothing is left to do.

Fairness. `EventStream`: the runtime polls the server task, whose `select!` picks
ready branches at random, so each of its two branches is weakly fair; an accepted
handler runs to its end; a stream is polled as long as its client reads. Clients
and producer are not fair. `EventPipeline`: tasks are polled (weak fairness), and
the mutex and the channels of tokio serve their waiters in the order of arrival, so
a worker that is again and again able to go on does go on (strong fairness of
`Work` and `SendShutdown`). Listeners are not fair. `NodeClient`: a task that holds the
connection or is first in the queue is polled, timers fire, `keepalive_loop` calls
again after its pause, and `reconnect_loop` runs when it is notified. The lock needs
no strong fairness since its queue is modelled. Nothing is assumed of callers and
node; what depends on the node says so (`<>[](node = "up")`), and so does what depends on
the callers: one that is dropped while it reconnects takes its attempts with it, so
`Recovers` and `ExhaustionExits` speak of runs in which callers stop being dropped at some
time (`CallersStay`). `Listener`: tasks are
polled, time passes, and the pipeline takes what it is sent while it runs; nothing is
assumed of the node, and `EventsArrive` speaks of a node that stays up. `RpcServer`: the
tasks of the requests and the cache loop are polled, and the node client returns
(`RequestsReturn` of `NodeClient`). `Sidecar`: the start goes on where it waits for
nothing, and the time limit of a component strikes (`Run`, `PrepareAtOnce`,
`StartupTimesOut`); nothing is assumed of the database or of the node.

## Findings

`stream_gap`: `serve_sse_response_handler` sends `NewSubscriberInfo` before it calls
`subscribe`. An event that the server task handles after the registration and before
the subscription is neither in the replay nor in the channel, so a client that asked
for the stream from some event onward misses one in the middle. `NoLossOutsideSeam`
shows that this is the only hole.

`sidecar_errors`: the two early returns of `get_transaction_aggregate_by_identifier`
for errors other than `NotFound` are guarded by `!matches!(DatabaseReadError::NotFound,
_err)`. `_err` is a fresh binding there and matches everything, so no error is ever
returned, and a client is told with status 200 that a transaction was neither processed
nor expired. `AggregateIsSnapshot` shows that without such an error the answer is what
the tables held at one moment, although they are read without a transaction.

`client_exhaustion`: `send_request` gives up reconnecting either because its attempts
are used up, and then wakes the reconnect loop, whose failure ends the RPC server, or
because `client_access_timeout_secs` have passed, and then wakes nobody. With the
documented configuration (10 s; pauses of 1, 2, 4, 8 s; 30 attempts) the timeout comes
first each time, so the server does not end however long the node is away, although
the comment in `keepalive_loop` relies on that. `ExhaustionExitsInTime` of `client_calls` shows
that it does end when the attempts fit in the timeout.

`stream_limit`: `validate` compares the number of receivers with
`max_concurrent_subscribers`, and the handler becomes a receiver later
(`sse_server.rs`, 472 and 435). Handlers on several threads can pass the check together,
although the configuration speaks of the maximum that is permitted at any one time.
`OvershootBounded` of `stream_live` shows that the excess is less than the number of
worker threads.

Other disagreements between text and code, met while modelling. The models follow the
code, and no run is spent on them:

- `send_api_version_if_necessary` (`http_server.rs:197`) announces the latest version
  only if no event was replayed. When the last replayed event is of an older version
  than the latest one, the client is not told the newer one. `VersionAnnounced` shows
  that this, and a version change in the gap of `stream_gap`, are the only cases.
- `state_get_auction_info_v2.rs:114` asks for the registry in the state of the block,
  under a comment that says it is always the latest one because old blocks lack it.
  With a block older than the registry the method fails; `state_get_auction_info`
  does not.
- `disable_event_persistence` is described (`src/README.md:289`) as turning storage off
  for the SSE server, but only `validate` reads it: with a database configured, events
  are stored (`event_sidecar/src/lib.rs:189`). `sidecar_lives` has such a
  configuration.
- `main.rs` sets the number of blocking threads from `max_thread_count`, not from
  `max_blocking_thread_count`.
- `component.rs` has a log message for a process with the speculative server only,
  which `validate` does not let start.

Two more observations that no documentation contradicts: an event that is broadcast
after the subscription and before the registration, and that the client did not ask
to be replayed, is delivered after the replayed ones (`DeliveredInOrder` states the
exception); and an event that was committed but not sent when the process died is a
duplicate afterwards and is never sent (`StoredIsPublished` holds only without a
crash).

Another one is documented: the description of `state_get_auction_info` in `docs.rs:120` calls
its conversion lossy. `OnlyPursesLost` says what is lost, the delegators that are purses.

## Theorems

`EventStreamProofs` proves for every set of clients, buffer length, number of ids,
set of payloads and bound:

- `TypeCorrect`: `Spec => []TypeOK`.
- `SubscribersBounded`: `Spec => []OvershootBounded`. The invariant behind it counts
  the handlers too: while `k` clients are between check and subscription, no more
  than the limit and the worker threads allow can be subscribed.
- `RingBufferIsWindow`: `Spec => []BufferIsWindow`, by the inductive invariant
  `WindowInv`. `BufferIsWindow` alone is not inductive: that a pushed event continues
  the window needs that published messages know their position
  (`PublishedNumbered`), and that its version is the one in force needs that the
  server task's `latest` is (`LatestInForce`).
- `ReplayExact`: `Spec => []ReplayIsExact`. The ids of a window follow one another
  (`IdsFollow`, also part of `WindowInv`), so the k-th buffered id is the first one
  plus k - 1, modulo the number of ids; near the wrap-around adding the buffer's
  length makes these ids increase, elsewhere they do so by themselves
  (`BeforeIsOlder`), so `skip_while` stops at exactly the named event.

The assumption on the constants, `ConstantsAssumption`, is evaluated in every run.
Its one essential part is `IdCount >= 3 * BufferLen`: the zone around the transition
is two buffers wide, and with fewer ids it would meet itself. The code has 2^32 ids
and a buffer length that is 5000 in its configuration.

`EventDeliveryProofs` proves for every set of clients, versions, payloads and requests,
every buffer length and every interleaving of the handlers, the server task and the
streams:

- `OrderOfDelivery`: `Spec => []DeliveredInOrder`, by the inductive invariant
  `StreamInv`. The property speaks of what was delivered, which says nothing about what
  comes next, so the invariant follows one client through both of its channels. A client
  that waits for its registration has nothing in them, and none is registered twice
  (`Registration`, `NewcomersDistinct`). `Course` says that the initial channel holds
  replayed events in the order of publication, that all that was delivered is older than
  those, and that each replayed event is still in the channel or its id was noted: when
  the channel is empty, an event of the broadcast channel whose id was not noted was not
  replayed (`FreshNotReplayed`).
- `LossOnlyInSeam`: `Spec => [](MaxPublished <= IdCount => NoLossOutsideSeam)`, by
  `LossInv`: what was replayed is pending, sent or not served by the endpoint, and so is
  what the receiver has passed since the subscription; each noted id is the id of a
  replayed event. That an event with a noted id *is* that replayed one needs that no id
  was given twice, which is what the condition says and `IdsApart` carries. It cannot be
  left out: `initial_stream_ids` is never cleared (`sse_server.rs`, 558 to 605), so a
  connection that outlives 2^32 events takes a new event for the replayed one with its
  id; in an instance with `MaxPublished > IdCount` TLC finds such a client.
- `VersionBeforeEvent`: `Spec => []VersionAnnounced`, by `VersionInv`. `Chained` says
  that each replayed event waits behind its own version, or behind an event of the same
  version; `UpToNow` that a client will have been told, at the end of its initial
  channel, the version in force at its registration, and from its first broadcast event
  on the one in force at its receiver; `Ruled` that all that comes from a node is
  published under some version.

The lemmas that these proofs share say what one action makes of one client
(`Registered`, `Takes`, `Reads`), and that every other step only extends the log
(`LogStep`, `StepGrows`).

`NodeClientProofs` proves for every set of callers, number of ids (at least two),
limit of skipped answers, and number of attempts:

- `TypeCorrect`: `Spec => []TypeOK`, which includes that nothing on a connection is
  older than `IdCount`.
- `AnswersAreOwn`: `Spec => []OwnAnswer`. That an answer with the expected id is the
  expected answer needs that the ids on the connection are those of their ages and
  that ages do not exceed `IdCount`: the inductive invariant `AnswerInv` adds
  `ConnectionInOrder` (every message has the id taken `age` ids ago, older ones come
  first, answers before requests) and `LeftOversBounded` (whoever starts to send finds
  only messages younger than `IdCount`; a second try starts on an empty connection).
  Reading in order makes the left-overs younger than the answer just read, which is
  why a request that gets its answer leaves a clean connection, and a failed one is
  followed by a new connection.
- `LockIsKeptBriefly`: `Spec => LockIsGivenBack`, an action property. `CallRank` puts the
  retries, attempts, states and skipped answers that the holder of the connection has left
  into one number, which `RankBounded` bounds; every step of the holder gives the lock back
  or lowers the rank, and no other step changes the rank or the holder.

The assumption on the constants, `NodeClientAssumption`, is evaluated in every run of
the module.

`EventPipelineProofs` proves for every set of nodes, of events and of versions, every
size of a channel, and with or without a database:

- `TypeCorrect`: `Spec => []TypeOK`. `TypeInv` adds where in a worker which messages can
  be, so that the guards of its steps are known to be about the right kind.
- `LogMatches`: `Spec => []LogMatchesRows`. The rows of an open transaction are not in
  the database; the invariant `StoreInv` says that nobody else's transaction has them
  either (`TransactionsApart`), so a commit adds as many rows as it logs.
- `NeverPublishedTwice` (`PublishedOnce`) and `StoredBeforePublished`
  (`PublishedIsStored`), by `PublishInv`: an event that a worker carries from its commit
  to `broadcast` is in the database, was not passed on before, and no other worker
  carries it.
- `NothingStoredIsLost` (`StoredIsPublished`), by `AccountInv`: in the first life of the
  process everything in the database was passed on, is carried by a worker, or its
  commit was reported as failed.
- `ShutdownCloses` (`ShutdownClosesFeed`), by `EndInv` and `FollowInv`. Where the consumers
  handle the events themselves, one that has ended has left nothing in its channel or its
  worker, so the Shutdown is last (`EndInv`). Detached workers go on after it; what they
  publish then and what they still have in queue and hand is together no more than they
  had when the consumers ended (`FollowInv`).
- `FeedRefinement`: `Spec => Feed!Spec`, the implementation of `OutboundFeed`. `LockInv`
  says that while the version lock is free the newest version was passed on, and while
  it is held only by its holder can it still be; `CoverInv` follows the messages of one
  node from its connection through channel, queue and worker, and says that each comes
  after a version at least as new as its own; `FeedInv` is what both say of the messages
  that were passed on.
- `NoCircularWait`: `Spec => []WaitsEnd`. A worker waits for the version lock, for the
  transactions of others, or for room in the outbound channel. Who holds the lock waits for
  the channel at most (`LockInv`). With postgresql a statement waits for a transaction that
  has inserted the same key, whose worker is about to commit (`StoreInv`). With sqlite it
  waits for the only writer (`OneWriter`, which the guards of both inserts keep), and that
  one does not wait. So whoever waits, waits for a worker that is `Ready` or for the
  broadcasting task. In the instance of `pipeline_safe`, TLC confirms that `Ready(s)` is
  `ENABLED Work(s)`.
- `HandlingIsShort`: `Spec => HandlingGetsOn`, an action property: each step of a worker
  lowers `StepRank`, which is at most five, and keeps its event; no other step moves it.

`PipelineAssumption` is evaluated in both runs. It says among others that the hashes of
blocks and transactions are not pairs of a node and a second, which is how the module
writes the keys of a node's own Shutdown, and that there is a second at which to save it.

`ListenerProofs` proves for every number of attempts, every size of the channels and
every buffer of the node:

- `TypeCorrect`: `Spec => []TypeOK`.
- `NeverGap`: `Spec => []NoGap`. `NoGap` speaks of what was sent; the next connection
  starts from an id that came to it through the registry's channel, late and in steps.
  `GapInv` therefore says of every place such an id can be (the registry, its channel, the
  connection, the event being handled) that all before it was sent or had left the
  buffer of the node.
- `AttemptsAreCounted`: `Spec => AttemptsRunOut`, an action property. Each step of the loop
  goes on in its round (`RoundRank`) or to the next attempt, and counts anew only when the
  node answers with another version or network; the end of a listener is final.

`SidecarProofs` proves for every set of configurations and releases, any number of ids
and any number of starts and crashes:

- `TypeCorrect`: `Spec => []TypeOK`.
- `RunsWhatIsConfigured` (`ServersReady`). `MigrationInv` says that versions are recorded
  from below, and that while `Database::build` runs the versions that are not pending
  are applied and lie below the pending ones.
- `AggregatesAreSnapshots` (`AggregateIsSnapshot`). A read of three tables is followed by
  `AnswerInv`: what the steps so far have found is what some state since the request
  held; that the last step completes it needs `OneOutcome`, that no transaction is both
  processed and expired.
- `IdsNeverRepeat` (`IdsContinue`), by `IdInv`: the ids given since the index was last
  lost are the ones just before the index, or before the number in the file when the
  process is off, also where they wrap.

`SidecarAssumption` is evaluated in both runs: a release has the migrations of the ones
before it and newer ones, and fewer events are published than there are ids (2^32 in
the code), without which ids would have to repeat.

`RpcServerProofs` proves for every set of clients and requests, every chain, every
capacity of the event bus and every bound:

- `TypeCorrect`: `Spec => []TypeOK`.
- `OneBlockPerResult` (`OneBlock`). The lemma `PlanArranged` says what the plans of all
  methods have in common: one question, or questions of which the first reads the header
  that the others are pinned to, or those of `state_get_entity`. The invariant of a call,
  `CallInv`, follows such a plan question by question.
- `NeverBehind` (`NotBehind`). Besides the floor of a call that runs (`FloorReached`), it
  needs what the cache may yet take. `AnnouncementKept` says where the newest block
  announced is: last in the channel, being fetched, or in the cache, unless the cache is
  empty; `FloorKept` that nothing in those three places is below the floor of a running
  call.
- `SubmissionsAreTruthful` (`SubmitTruthful`) and `OnlyCallsReachTheNode`
  (`OnlyCallsRun`), from the parts `Submission` and `Called` of `CallInv`.
- `MethodsGetOn`: `Spec => AnswersBringOn`, an action property. An answer ends the request,
  shortens the list of questions, or replaces it by the last question, for the available
  range; `TodoRank` counts it so. That the step after a missing value exists is part of
  `CallInv`. Blocks, announcements, the cache loop and other clients leave the list alone.

`RpcAssumption` is evaluated in the run of the module; it says that the requests have
one of the forms of `HttpRequests`, which are all that `JsonRpc` tells apart.

`AuctionBidsProofs` proves for every set of validators and delegators and every `MaxBids`:

- `StakingIsComplete` (`NoBidLost`): the three passes compute `StakingOf`, which is stated
  without them. A fold of the community modules is the value of a recursive function over
  sets. That such a function exists, and has at each index the value that the loop has
  after as many iterations, is shown by an induction over the set of indices for which it
  fails (`Induction`, `IterationExists`, `PassTurns`), since the induction theorems of the
  library cannot be instantiated. The loop invariants are `Inserted` for the two passes
  that insert bids and `Joined` for the one in which delegators join; that one unified and
  one validator bid at most exist of a validator (`NodeBidsShape`) makes the last insert
  the only one.
- `AuctionStateIsComplete` (`OnlyPursesLost`): the bids of the result are those of all the
  validators with a bid, and of their delegators exactly the purses are missing.

`BidsAssumption` is evaluated in the run of `RpcServer`.

Only model-checked: liveness, which the proof system cannot treat. What it rests on is
proved as far as it is about single steps: `LockIsKeptBriefly` for `RequestsReturn`,
`NoCircularWait` and `HandlingIsShort` for `HandlingEnds`, `AttemptsAreCounted` for
`AbsentNodeEndsListener`, `MethodsGetOn` for `RequestsAnswered`. That fair tasks then take
these steps is left to TLC.

## Plan

The modules planned at first are written, except the barrier of the connections (see
below), and every safety invariant of the passing runs is a theorem.

## Not modelled

- The barrier of `connection_tasks.rs`: with one filter it is built for one task, whose
  registration lets it pass. In this program it has no behaviour to model.
- Metrics, the admin page, and the test tools.
- The formatting of JSON, the OpenAPI and OpenRPC documents, and the translation of
  payloads to the legacy format (`types/src/legacy_sse_data`): conversions of data
  without shared state. `EventStream` keeps whether an event has a legacy form.
- CORS: its headers, and the rejection of a request from an origin that is not allowed
  (`json_rpc/src/filters.rs`, 172 to 175).
- The limits of rate and concurrency of the REST and event servers, which `tower` and
  `warp` enforce; in `RpcServer` a limiter may refuse any request.
- The checks of Merkle proofs and the decoding of the values that the node returns; an
  answer that cannot be used is one outcome (`odd`).
- Real time: a timeout may fire whenever its await has not finished, so what depends on
  one delay being shorter than another (the 200 ms between the sidecar's Shutdown and
  its exit) is not stated.
