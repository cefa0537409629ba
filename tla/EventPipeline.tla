---------------------------- MODULE EventPipeline ----------------------------
(***************************************************************************)
(* The inside of the SSE component: from the events that the listeners     *)
(* push into their inbound channels to the messages handed to              *)
(* EventStreamServer::broadcast.                                           *)
(*                                                                         *)
(* Every connected node s has a listener, a consumer (sse_processor) and a *)
(* worker that runs handle_single_event.  With sqlite the consumer is the  *)
(* worker; with postgresql, or without a database, the consumer forwards   *)
(* to a queue that a detached task works off.  The workers share the       *)
(* ApiVersionManager and its lock, the database, the event bus of the      *)
(* sidecar and the outbound channel.  The process may crash at any time    *)
(* and start again with the database it left.                              *)
(***************************************************************************)
EXTENDS Integers, Sequences, FiniteSets

CONSTANTS
    Sources,       \* the configured connections, one node each
    Databases,     \* storage the sidecar may run with: "sqlite", "postgresql", "none"
    Versions,      \* protocol versions a node may announce
    Blocks,        \* keys of BlockAdded events
    Others,        \* keys of the other events that have a table with a unique key
    Seconds,       \* unix timestamps a Shutdown may be saved at
    InboundSize,   \* inbound_channel_size
    QueueSize,     \* DEFAULT_CHANNEL_SIZE, the queue of the detached worker
    OutboundSize,  \* outbound_channel_size
    MaxSent,       \* bound: events the listeners push
    MaxFaults,     \* bound: saves that fail for another reason than a duplicate
    MaxCrashes     \* bound: crashes of the process

None == 0          \* no version, no holder of the lock, no node
NoKey == <<>>      \* an event that has no key of its own

ASSUME PipelineAssumption ==
    /\ IsFiniteSet(Sources) /\ None \notin Sources
    /\ Databases \subseteq {"sqlite", "postgresql", "none"}
    /\ Versions \subseteq Nat \ {0}
    /\ Blocks \cap Others = {} /\ NoKey \notin Blocks \cup Others
    /\ Seconds # {}
    /\ (Blocks \cup Others) \cap (Sources \X Seconds) = {}   \* rows of different tables
    /\ {InboundSize, QueueSize, OutboundSize} \subseteq Nat \ {0}
    /\ {MaxSent, MaxFaults, MaxCrashes} \subseteq Nat

VARIABLES
    db,         \* the configured database
    log,        \* table event_log: [source, key] of the committed rows
    rows,       \* the entity tables: the committed keys
    tx,         \* what each worker's open transaction has inserted: [log, rows]
    link,       \* version of the node's connection, None when not connected
    ended,      \* the listener has given up and dropped its sender
    inbound,    \* inbound channel of each connection
    consumer,   \* sse_processor is running
    queue,      \* queue of the detached worker
    worker,     \* where handle_single_event is, and the event it handles
    lock,       \* holder of the mutex of ApiVersionManager
    newest,     \* newest_protocol_version
    bus,        \* SidecarEvent::BlockAdded sent so far
    outbound,   \* outbound channel
    open,       \* the receiver of the outbound channel is alive
    out,        \* messages handed to broadcast() in this life of the process
    phase,      \* "running", "stopping" (Shutdown sent, sleeping), "exited"
    sent,       \* events pushed by the listeners
    faults,     \* saves that failed
    crashes,    \* crashes of the process
    told,       \* history: keys handed to broadcast() in earlier lives
    unsure      \* history: keys whose commit was reported as failed but done

storage == <<db, log, rows>>
bounds == <<sent, faults, crashes>>
history == <<told, unsure>>
vars == <<storage, tx, link, ended, inbound, consumer, queue, worker, lock, newest,
          bus, outbound, open, out, phase, bounds, history>>

Keys == Blocks \cup Others
ShutdownKeys == Sources \X Seconds
Kinds == {"ApiVersion", "BlockAdded", "Other", "Shutdown", "SidecarShutdown"}
Messages == [kind : Kinds, key : Keys \cup {NoKey}, ver : Nat, source : Sources \cup {None}]
Idle == [kind |-> "Other", key |-> NoKey, ver |-> None, source |-> None]
NoRows == [log |-> {}, rows |-> {}]

HasDatabase == db # "none"
MultiThreaded == db # "sqlite"
Running == phase # "exited"

-----------------------------------------------------------------------------
\* The listener of a node, seen from its inbound channel.

Message(s, kind, key, ver) == [kind |-> kind, key |-> key, ver |-> ver, source |-> s]

Send(s, m) ==
    /\ Running /\ ~ended[s]
    /\ sent < MaxSent
    /\ Len(inbound[s]) < InboundSize
    /\ inbound' = [inbound EXCEPT ![s] = Append(@, m)]
    /\ sent' = sent + 1
    /\ UNCHANGED <<storage, tx, ended, consumer, queue, worker, lock, newest, bus,
                   outbound, open, out, phase, faults, crashes, history>>

\* The first event of every connection must be an ApiVersion.
Connect(s, v) ==
    /\ link[s] = None
    /\ link' = [link EXCEPT ![s] = v]
    /\ Send(s, Message(s, "ApiVersion", NoKey, v))

\* Any later event carries the version of its connection, even after the node has
\* announced another one.  A node that is asked to start from the last id seen
\* sends that event again.
Deliver(s) ==
    /\ link[s] # None
    /\ \/ \E k \in Blocks : Send(s, Message(s, "BlockAdded", k, link[s]))
       \/ \E k \in Others : Send(s, Message(s, "Other", k, link[s]))
       \/ Send(s, Message(s, "Shutdown", NoKey, link[s]))
       \/ \E v \in Versions : Send(s, Message(s, "ApiVersion", NoKey, v))
    /\ UNCHANGED link

Disconnect(s) ==
    /\ Running /\ ~ended[s] /\ link[s] # None
    /\ link' = [link EXCEPT ![s] = None]
    /\ UNCHANGED <<storage, tx, ended, inbound, consumer, queue, worker, lock, newest,
                   bus, outbound, open, out, phase, bounds, history>>

\* The attempts are exhausted, or the node's version or network is not acceptable.
GiveUp(s) ==
    /\ Running /\ ~ended[s] /\ link[s] = None
    /\ ended' = [ended EXCEPT ![s] = TRUE]
    /\ UNCHANGED <<storage, tx, link, inbound, consumer, queue, worker, lock, newest,
                   bus, outbound, open, out, phase, bounds, history>>

-----------------------------------------------------------------------------
\* The consumer: sse_processor.

\* Fault: the queue of the worker has no bound.
ForwardUnbounded(s) ==
    /\ Running /\ MultiThreaded
    /\ consumer[s] /\ inbound[s] # <<>>
    /\ queue' = [queue EXCEPT ![s] = Append(@, Head(inbound[s]))]
    /\ inbound' = [inbound EXCEPT ![s] = Tail(@)]
    /\ UNCHANGED <<storage, tx, link, ended, consumer, worker, lock, newest, bus,
                   outbound, open, out, phase, bounds, history>>

\* start_multi_threaded_events_consumer forwards to the queue of the worker.
Forward(s) ==
    /\ Running /\ MultiThreaded
    /\ consumer[s] /\ inbound[s] # <<>> /\ Len(queue[s]) < QueueSize
    /\ queue' = [queue EXCEPT ![s] = Append(@, Head(inbound[s]))]
    /\ inbound' = [inbound EXCEPT ![s] = Tail(@)]
    /\ UNCHANGED <<storage, tx, link, ended, consumer, worker, lock, newest, bus,
                   outbound, open, out, phase, bounds, history>>

\* Fault: the consumer does not wait for the event that is being handled.
FinishEarly(s) ==
    /\ Running
    /\ consumer[s] /\ ended[s] /\ inbound[s] = <<>>
    /\ consumer' = [consumer EXCEPT ![s] = FALSE]
    /\ UNCHANGED <<storage, tx, link, ended, inbound, queue, worker, lock, newest, bus,
                   outbound, open, out, phase, bounds, history>>

\* The inbound channel is closed and drained.  A single-threaded consumer has then
\* also handled everything; a multi-threaded one leaves the queue to the worker.
Finish(s) ==
    /\ Running
    /\ consumer[s] /\ ended[s] /\ inbound[s] = <<>>
    /\ MultiThreaded \/ worker[s].at = "idle"
    /\ consumer' = [consumer EXCEPT ![s] = FALSE]
    /\ UNCHANGED <<storage, tx, link, ended, inbound, queue, worker, lock, newest, bus,
                   outbound, open, out, phase, bounds, history>>

-----------------------------------------------------------------------------
\* The worker: handle_single_event.

\* DbSavingEventHandlingService saves every event before anything else.
DbSavingStep == "saving"

\* NoDbEventHandlingService takes every event for new.
NoDbStep(m) == IF m.kind = "BlockAdded" THEN "notifying" ELSE "sending"

\* Where handling a message starts.
FirstStep(m) ==
    IF m.kind = "ApiVersion" THEN "locking" ELSE IF HasDatabase THEN DbSavingStep ELSE NoDbStep(m)

\* The channel the worker receives from.
Waiting(s) == IF MultiThreaded THEN queue[s] ELSE inbound[s]

Take(s) ==
    /\ Running
    /\ worker[s].at = "idle" /\ Waiting(s) # <<>>
    /\ LET m == Head(Waiting(s)) IN
       worker' = [worker EXCEPT ![s] = [at |-> FirstStep(m), event |-> m]]
    /\ queue' = IF MultiThreaded THEN [queue EXCEPT ![s] = Tail(@)] ELSE queue
    /\ inbound' = IF MultiThreaded THEN inbound ELSE [inbound EXCEPT ![s] = Tail(@)]
    /\ UNCHANGED <<storage, tx, link, ended, consumer, lock, newest, bus, outbound, open,
                   out, phase, bounds, history>>

Goto(s, step) == worker' = [worker EXCEPT ![s].at = step]
Done(s) == worker' = [worker EXCEPT ![s] = [at |-> "idle", event |-> Idle]]

\* ApiVersionManager::store_version returns true.
IsNewer(v) == newest = None \/ v > newest

\* Fault: the lock is not held while the version is sent.
StoreUnlocked(s) ==
    /\ Running
    /\ worker[s].at = "locking" /\ lock = None
    /\ LET v == worker[s].event.ver IN
       IF IsNewer(v) THEN newest' = v /\ Goto(s, "announcing") ELSE UNCHANGED newest /\ Done(s)
    /\ UNCHANGED <<storage, tx, link, ended, inbound, consumer, queue, lock, bus, outbound,
                   open, out, phase, bounds, history>>

\* Fault: a version that is not newer leaves the lock taken.
StoreKeepingLock(s) ==
    /\ Running
    /\ worker[s].at = "locking" /\ lock = None
    /\ lock' = s
    /\ LET v == worker[s].event.ver IN
       IF IsNewer(v) THEN newest' = v /\ Goto(s, "announcing") ELSE UNCHANGED newest /\ Done(s)
    /\ UNCHANGED <<storage, tx, link, ended, inbound, consumer, queue, bus, outbound,
                   open, out, phase, bounds, history>>

\* handle_api_version takes the lock and stores the version; a version that is not
\* newer releases the lock at once.
StoreVersion(s) ==
    /\ Running
    /\ worker[s].at = "locking" /\ lock = None
    /\ LET v == worker[s].event.ver IN
       IF IsNewer(v)
       THEN newest' = v /\ lock' = s /\ Goto(s, "announcing")
       ELSE UNCHANGED <<newest, lock>> /\ Done(s)
    /\ UNCHANGED <<storage, tx, link, ended, inbound, consumer, queue, bus, outbound,
                   open, out, phase, bounds, history>>

\* Fault: try_send, which drops the message when the channel is full.
TrySendOutbound(m) ==
    outbound' = IF open /\ Len(outbound) < OutboundSize THEN Append(outbound, m) ELSE outbound

\* sender.send(m).await: waits for room, fails when the receiver is gone.
SendOutbound(m) ==
    IF open
    THEN Len(outbound) < OutboundSize /\ outbound' = Append(outbound, m)
    ELSE UNCHANGED outbound

\* A newer version is sent while the lock is held.
Announce(s) ==
    /\ Running
    /\ worker[s].at = "announcing"
    /\ SendOutbound(worker[s].event)
    /\ lock' = None
    /\ Done(s)
    /\ UNCHANGED <<storage, tx, link, ended, inbound, consumer, queue, newest, bus, open,
                   out, phase, bounds, history>>

-----------------------------------------------------------------------------
\* Saving an event: one transaction with a row of event_log and a row of the
\* table of the entity.

\* The keys under which the rows of an event may be saved: a Shutdown is saved
\* under the address of its node and the current second.
RowKeys(s) ==
    IF worker[s].event.kind = "Shutdown" THEN {<<s, t>> : t \in Seconds}
                                         ELSE {worker[s].event.key}

\* A statement waits for the open transactions of others: for any that writes with
\* sqlite, for one that inserts the same key with postgresql.
MayInsert(s, key) ==
    \A r \in Sources \ {s} :
        IF db = "sqlite" THEN tx[r] = NoRows ELSE key \notin tx[r].rows

Rollback(s) == tx' = [tx EXCEPT ![s] = NoRows]

\* Fault: every duplicate goes on like a Shutdown.
DuplicatePassedOn(s) == Rollback(s) /\ Goto(s, "sending")

\* The save returns DatabaseWriteError::UniqueConstraint: the transaction is
\* dropped, the event goes no further, except a Shutdown.
Duplicate(s) ==
    /\ Rollback(s)
    /\ IF worker[s].event.kind = "Shutdown" THEN Goto(s, "sending") ELSE Done(s)

InsertEventLog(s) ==
    /\ Running
    /\ worker[s].at = "saving"
    /\ \E key \in RowKeys(s) :
          /\ db = "sqlite" => MayInsert(s, key)
          /\ IF [source |-> s, key |-> key] \in log
             THEN Duplicate(s)
             ELSE /\ tx' = [tx EXCEPT ![s].log = {[source |-> s, key |-> key]}]
                  /\ Goto(s, "inserting")
    /\ UNCHANGED <<storage, link, ended, inbound, consumer, queue, lock, newest, bus,
                   outbound, open, out, phase, bounds, history>>

\* Fault: the row of event_log stays although the entity is a duplicate.
InsertEntityKeepingLog(s) ==
    /\ Running
    /\ worker[s].at = "inserting"
    /\ \E key \in RowKeys(s) :
          /\ MayInsert(s, key)
          /\ IF key \in rows
             THEN Duplicate(s) /\ log' = log \cup tx[s].log
             ELSE tx' = [tx EXCEPT ![s].rows = {key}] /\ Goto(s, "committing") /\ UNCHANGED log
    /\ UNCHANGED <<db, rows, link, ended, inbound, consumer, queue, lock, newest, bus,
                   outbound, open, out, phase, bounds, history>>

InsertEntity(s) ==
    /\ Running
    /\ worker[s].at = "inserting"
    /\ \E key \in RowKeys(s) :
          /\ MayInsert(s, key)
          /\ IF key \in rows
             THEN Duplicate(s)
             ELSE tx' = [tx EXCEPT ![s].rows = {key}] /\ Goto(s, "committing")
    /\ UNCHANGED <<storage, link, ended, inbound, consumer, queue, lock, newest, bus,
                   outbound, open, out, phase, bounds, history>>

AfterSave(s) == IF worker[s].event.kind = "BlockAdded" THEN "notifying" ELSE "sending"

Commit(s) ==
    /\ Running
    /\ worker[s].at = "committing"
    /\ log' = log \cup tx[s].log
    /\ rows' = rows \cup tx[s].rows
    /\ Rollback(s)
    /\ Goto(s, AfterSave(s))
    /\ UNCHANGED <<db, link, ended, inbound, consumer, queue, lock, newest, bus, outbound,
                   open, out, phase, bounds, history>>

\* Fault: an event that could not be saved is passed on.
FailedPassedOn(s) ==
    /\ Running
    /\ worker[s].at \in {"saving", "inserting", "committing"}
    /\ faults < MaxFaults
    /\ faults' = faults + 1
    /\ Rollback(s)
    /\ Goto(s, "sending")
    /\ UNCHANGED <<storage, link, ended, inbound, consumer, queue, lock, newest, bus, outbound,
                   open, out, phase, sent, crashes, history>>

\* Any other error: the transaction is rolled back and the event is dropped.  A
\* commit may also be done although its answer is lost.
SaveFails(s) ==
    /\ Running
    /\ worker[s].at \in {"saving", "inserting", "committing"}
    /\ faults < MaxFaults
    /\ faults' = faults + 1
    /\ \/ UNCHANGED <<log, rows, unsure>>
       \/ /\ worker[s].at = "committing"
          /\ log' = log \cup tx[s].log
          /\ rows' = rows \cup tx[s].rows
          /\ unsure' = unsure \cup tx[s].rows
    /\ Rollback(s)
    /\ Done(s)
    /\ UNCHANGED <<db, link, ended, inbound, consumer, queue, lock, newest, bus, outbound,
                   open, out, phase, sent, crashes, told>>

\* A block that is new goes to the event bus of the sidecar first.
Notify(s) ==
    /\ Running
    /\ worker[s].at = "notifying"
    /\ bus' = Append(bus, worker[s].event.key)
    /\ Goto(s, "sending")
    /\ UNCHANGED <<storage, tx, link, ended, inbound, consumer, queue, lock, newest,
                   outbound, open, out, phase, bounds, history>>

\* handle_database_save_result passes the event on.
PassOn(s) ==
    /\ Running
    /\ worker[s].at = "sending"
    /\ SendOutbound(worker[s].event)
    /\ Done(s)
    /\ UNCHANGED <<storage, tx, link, ended, inbound, consumer, queue, lock, newest, bus,
                   open, out, phase, bounds, history>>

-----------------------------------------------------------------------------
\* The broadcasting task and the end of the process.

Broadcast ==
    /\ Running /\ open /\ outbound # <<>>
    /\ out' = Append(out, Head(outbound))
    /\ outbound' = Tail(outbound)
    /\ UNCHANGED <<storage, tx, link, ended, inbound, consumer, queue, worker, lock,
                   newest, bus, open, phase, bounds, history>>

\* EventStreamServer::new fails: the receiver is dropped before it receives anything.
StartFails ==
    /\ Running /\ open /\ out = <<>>
    /\ open' = FALSE
    /\ outbound' = <<>>
    /\ UNCHANGED <<storage, tx, link, ended, inbound, consumer, queue, worker, lock,
                   newest, bus, out, phase, bounds, history>>

\* All the processors have ended: the sidecar's own Shutdown is sent.
SendShutdown ==
    /\ phase = "running"
    /\ \A s \in Sources : ~consumer[s]
    /\ SendOutbound([kind |-> "SidecarShutdown", key |-> NoKey, ver |-> None, source |-> None])
    /\ phase' = "stopping"
    /\ UNCHANGED <<storage, tx, link, ended, inbound, consumer, queue, worker, lock,
                   newest, bus, open, out, bounds, history>>

\* try_join returns the first error: the sleep of 200 ms is over, or the server
\* did not start.  Whatever is still on its way is dropped.
Exit ==
    /\ phase = "stopping" \/ (phase = "running" /\ ~open)
    /\ phase' = "exited"
    /\ tx' = [s \in Sources |-> NoRows]
    /\ UNCHANGED <<storage, link, ended, inbound, consumer, queue, worker, lock, newest,
                   bus, outbound, open, out, bounds, history>>

KeysOf(msgs) == {msgs[i].key : i \in {j \in 1 .. Len(msgs) : msgs[j].key \in Keys}}

Volatile ==
    [tx |-> [s \in Sources |-> NoRows],
     link |-> [s \in Sources |-> None],
     ended |-> [s \in Sources |-> FALSE],
     channel |-> [s \in Sources |-> <<>>],
     consumer |-> [s \in Sources |-> TRUE],
     worker |-> [s \in Sources |-> [at |-> "idle", event |-> Idle]]]

\* The process dies and is started again: only the database is left.
Crash ==
    /\ crashes < MaxCrashes
    /\ crashes' = crashes + 1
    /\ told' = told \cup KeysOf(out)
    /\ tx' = Volatile.tx /\ link' = Volatile.link /\ ended' = Volatile.ended
    /\ inbound' = Volatile.channel /\ queue' = Volatile.channel
    /\ consumer' = Volatile.consumer /\ worker' = Volatile.worker
    /\ lock' = None /\ newest' = None
    /\ bus' = <<>> /\ outbound' = <<>> /\ out' = <<>>
    /\ open' = TRUE /\ phase' = "running"
    /\ UNCHANGED <<storage, sent, faults, unsure>>

-----------------------------------------------------------------------------
Init ==
    /\ db \in Databases
    /\ log = {} /\ rows = {}
    /\ tx = Volatile.tx /\ link = Volatile.link /\ ended = Volatile.ended
    /\ inbound = Volatile.channel /\ queue = Volatile.channel
    /\ consumer = Volatile.consumer /\ worker = Volatile.worker
    /\ lock = None /\ newest = None
    /\ bus = <<>> /\ outbound = <<>> /\ out = <<>>
    /\ open = TRUE /\ phase = "running"
    /\ sent = 0 /\ faults = 0 /\ crashes = 0
    /\ told = {} /\ unsure = {}

Listener(s) == (\E v \in Versions : Connect(s, v)) \/ Deliver(s) \/ Disconnect(s) \/ GiveUp(s)
Save(s) == InsertEventLog(s) \/ InsertEntity(s) \/ Commit(s) \/ Notify(s)
Work(s) == StoreVersion(s) \/ Announce(s) \/ Save(s) \/ PassOn(s)

Next ==
    \/ \E s \in Sources : Listener(s) \/ Forward(s) \/ Finish(s) \/ Take(s) \/ Work(s) \/ SaveFails(s)
    \/ Broadcast \/ StartFails \/ SendShutdown \/ Exit \/ Crash

Spec == Init /\ [][Next]_vars

\* The runtime polls every task; the lock and the channels of tokio serve their
\* waiters in order, so a waiter is not passed over for ever.
Fairness ==
    /\ \A s \in Sources : WF_vars(Forward(s)) /\ WF_vars(Finish(s)) /\ WF_vars(Take(s)) /\ SF_vars(Work(s))
    /\ WF_vars(Broadcast) /\ SF_vars(SendShutdown) /\ WF_vars(Exit)

FairSpec == Spec /\ Fairness
-----------------------------------------------------------------------------
\* The variables hold values of their Rust types, and no channel exceeds its size.
TypeOK ==
    /\ db \in {"sqlite", "postgresql", "none"}
    /\ log \subseteq [source : Sources, key : Keys \cup ShutdownKeys]
    /\ rows \subseteq Keys \cup ShutdownKeys
    /\ tx \in [Sources -> [log : SUBSET [source : Sources, key : Keys \cup ShutdownKeys],
                           rows : SUBSET (Keys \cup ShutdownKeys)]]
    /\ link \in [Sources -> Versions \cup {None}]
    /\ ended \in [Sources -> BOOLEAN] /\ consumer \in [Sources -> BOOLEAN]
    /\ inbound \in [Sources -> Seq(Messages)] /\ queue \in [Sources -> Seq(Messages)]
    /\ outbound \in Seq(Messages) /\ out \in Seq(Messages) /\ bus \in Seq(Blocks)
    /\ worker \in [Sources -> [at : {"idle", "locking", "announcing", "saving", "inserting",
                                     "committing", "notifying", "sending"},
                               event : Messages]]
    /\ lock \in Sources \cup {None} /\ newest \in Nat /\ open \in BOOLEAN
    /\ phase \in {"running", "stopping", "exited"}
    /\ \A s \in Sources : Len(inbound[s]) <= InboundSize /\ Len(queue[s]) <= QueueSize
    /\ Len(outbound) <= OutboundSize
    /\ told \subseteq Keys /\ unsure \subseteq Keys \cup ShutdownKeys

\* The processors implement OutboundFeed: versions strictly increase, every event
\* follows a version at least as new as that of its connection although several
\* workers announce versions concurrently, and the sidecar's end comes once.
Feed == INSTANCE OutboundFeed WITH feed <- out, over <- (phase = "exited")
ImplementsFeed == Feed!FeedSpec

\* With a database no event is broadcast twice, whichever nodes report it and
\* however often, nor again after a crash.
PublishedOnce ==
    HasDatabase =>
        \A i, j \in 1 .. Len(out) :
            out[i].key \in Keys =>
                /\ out[i].key \notin told
                /\ out[i].key = out[j].key => i = j

\* What is handed to broadcast() or to the event bus is in the database by then.
PublishedIsStored ==
    HasDatabase =>
        /\ KeysOf(out) \cup KeysOf(outbound) \cup told \subseteq rows
        /\ \A i \in 1 .. Len(bus) : bus[i] \in rows

\* The keys of the events that workers have saved and not passed on yet.
InFlight == {worker[s].event.key : s \in {r \in Sources :
                                            worker[r].at \in {"notifying", "sending"}}}

\* What is in the database has been passed on or is being passed on, unless the
\* process crashed or ended in between or the commit was reported as failed: a
\* stored event is a duplicate for ever, so one that is not passed on is lost.
StoredIsPublished ==
    HasDatabase /\ crashes = 0 /\ open =>
        rows \cap Keys \subseteq KeysOf(out) \cup KeysOf(outbound) \cup InFlight \cup unsure

\* A row of an entity and its row of event_log come and go together, and event_log
\* has one row for every entity, from the first node that reported it.
LogMatchesRows ==
    \A k \in Keys :
        /\ k \in rows <=> \E s \in Sources : [source |-> s, key |-> k] \in log
        /\ \A r, s \in Sources : {[source |-> r, key |-> k], [source |-> s, key |-> k]} \subseteq log => r = s

\* Messages of node s that were broadcast after the sidecar's own Shutdown.
Followers(s) ==
    {i \in 1 .. Len(out) : out[i].source = s /\ \E j \in 1 .. i - 1 : out[j].kind = "SidecarShutdown"}

\* What a consumer that has ended leaves behind: a full queue and the event at hand
\* of the detached worker, and nothing where it handles the events itself.
LeftToWorker == IF MultiThreaded THEN QueueSize + 1 ELSE 0

\* start_sse_processors sends the sidecar's own Shutdown when all the consumers have
\* ended.  It is the last message with sqlite; with detached workers it is followed by
\* what they had left, and by nothing that a node sends later.
ShutdownClosesFeed == \A s \in Sources : Cardinality(Followers(s)) <= LeftToWorker

\* Handling an event ends, although workers wait for one another at the lock, in
\* the database and at the outbound channel.
HandlingEnds == \A s \in Sources : worker[s].at # "idle" ~> worker[s].at = "idle" \/ phase = "exited"

\* When every listener has given up, the process exits.
SidecarStops == (\A s \in Sources : ended[s]) ~> (phase = "exited" \/ \E s \in Sources : ~ended[s])
=============================================================================
