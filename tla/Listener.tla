------------------------------ MODULE Listener ------------------------------
(***************************************************************************)
(* EventListener: follows the event stream of one node.  It asks the node  *)
(* for its version, connects, reads, and starts over when the connection   *)
(* is lost, until its attempts are used up.                                *)
(*                                                                         *)
(* A listener has one connection, since filters_from_version names one     *)
(* filter; the barrier between the connections of a listener (a total of   *)
(* one) and the choice between partial and full connection make no         *)
(* difference then.                                                        *)
(*                                                                         *)
(* The node keeps its last events, sends the version first and then the    *)
(* kept events from the requested id on.  It may go down and come back,    *)
(* with another version, and may hang: connected, and silent.              *)
(***************************************************************************)
EXTENDS Integers, Sequences, FiniteSets

CONSTANTS
    MaxAttempts,     \* max_connection_attempts
    Metadata,        \* what nodes may say of themselves: [version, network]
    MinimalVersion,  \* MINIMAL_NODE_VERSION
    NetworkName,     \* network_name of the configuration, or AnyNetwork without one
    RegistrySize,    \* capacity of the channel of seen ids, 10
    InboundSize,     \* capacity of the channel to the pipeline
    TickQueueSize,   \* capacity of the channel of ticks, 10
    NodeBuffer,      \* events that the node keeps
    MaxEvents,       \* bound: events of the node
    MaxChanges       \* bound: how often the node changes its mood

NoMetadata == [version |-> -1, network |-> ""]  \* NodeMetadata::default
NoId == -1                                      \* nothing in last_event_id_for_filter
AnyNetwork == ""                                \* network_name is None

ASSUME ListenerAssumption ==
    /\ MaxAttempts \in Nat \ {0} /\ MinimalVersion \in Nat
    /\ \A m \in Metadata : m.version \in Nat
    /\ {RegistrySize, InboundSize, TickQueueSize, NodeBuffer} \subseteq Nat \ {0}
    /\ MaxEvents \in Nat /\ MaxChanges \in Nat

VARIABLES
    node,             \* "up", "hung" or "down"
    metadata,         \* of the node
    log,              \* bodies of the node's events; event i has the id i - 1
    changes,          \* how often the node has changed
    listener,         \* where stream_aggregated_events is
    current_attempt,
    node_metadata,
    connection,       \* where start_handling is
    retry_count,
    link,             \* the stream of bytes: "none", "open", "broken"
    pos,              \* the id the node sends next
    event,            \* the id that is being handled
    seen,             \* the channel to the registry of the last ids
    last_event_id,    \* last_event_id_for_filter
    inbound,          \* messages that the pipeline has not taken
    open,             \* the pipeline still takes messages
    ticks,            \* ticks that the keep-alive monitor has not counted
    last_seen,        \* last_message_seen_at: "none", "recent", "old"
    cancelled,        \* the cancellation token
    delivered,        \* history: ids sent to the pipeline
    lost              \* history: ids that the node had dropped when we connected

nodeVars == <<node, metadata, log, changes>>
taskVars == <<listener, current_attempt, node_metadata>>
connVars == <<connection, retry_count, link, pos, event>>
registryVars == <<seen, last_event_id>>
monitorVars == <<ticks, last_seen, cancelled>>
historyVars == <<delivered, lost>>
vars == <<nodeVars, taskVars, connVars, registryVars, inbound, open, monitorVars, historyVars>>

EventIds == 0 .. MaxEvents - 1
Bodies == {"event", "unreadable"}

TypeOK ==
    /\ node \in {"up", "hung", "down"}
    /\ metadata \in Metadata
    /\ log \in Seq(Bodies) /\ Len(log) <= MaxEvents
    /\ changes \in 0 .. MaxChanges
    /\ listener \in {"fetching", "building", "waiting", "exhausted", "failed"}
    /\ current_attempt \in 1 .. MaxAttempts + 1
    /\ node_metadata \in Metadata \cup {NoMetadata}
    /\ connection \in {"none", "connecting", "first", "announcing", "reading", "reporting", "handling"}
    /\ retry_count \in 0 .. MaxAttempts
    /\ link \in {"none", "open", "broken"}
    /\ pos \in 0 .. MaxEvents
    /\ event \in EventIds \cup {NoId}
    /\ seen \in Seq(EventIds) /\ Len(seen) <= RegistrySize
    /\ last_event_id \in EventIds \cup {NoId}
    /\ inbound \in 0 .. InboundSize
    /\ open \in BOOLEAN
    /\ ticks \in 0 .. TickQueueSize
    /\ last_seen \in {"none", "recent", "old"}
    /\ cancelled \in BOOLEAN
    /\ delivered \subseteq EventIds
    /\ lost \subseteq EventIds

Init ==
    /\ node = "up" /\ metadata \in Metadata /\ log = <<>> /\ changes = 0
    /\ listener = "fetching" /\ current_attempt = 1 /\ node_metadata = NoMetadata
    /\ connection = "none" /\ retry_count = 0 /\ link = "none" /\ pos = 0 /\ event = NoId
    /\ seen = <<>> /\ last_event_id = NoId
    /\ inbound = 0 /\ open = TRUE
    /\ ticks = 0 /\ last_seen = "none" /\ cancelled = FALSE
    /\ delivered = {} /\ lost = {}

-----------------------------------------------------------------------------
\* stream_aggregated_events.

\* Fault: a failed fetch is not counted.
RetryUncounted ==
    /\ listener' = "fetching"
    /\ UNCHANGED current_attempt

\* Fault: the loop does not look at its bound.
RetryForever ==
    /\ listener' = "fetching"
    /\ current_attempt' = current_attempt + 1

\* The loop goes on, or has used up its attempts.
NextAttempt ==
    /\ current_attempt' = current_attempt + 1
    /\ listener' = IF current_attempt + 1 <= MaxAttempts THEN "fetching" ELSE "exhausted"

IsAcceptable(m) == m.version >= MinimalVersion /\ NetworkName \in {AnyNetwork, m.network}

\* get_metadata with an answer of the node: another version or network than last time
\* restarts the counter, one that is too old or not ours ends the listener.
FetchMetadata ==
    /\ listener = "fetching" /\ node = "up"
    /\ \/ /\ IsAcceptable(metadata)
          /\ node_metadata' = metadata
          /\ current_attempt' = IF metadata = node_metadata THEN current_attempt ELSE 1
          /\ listener' = "building"
       \/ /\ ~IsAcceptable(metadata)
          /\ listener' = "failed"
          /\ UNCHANGED <<current_attempt, node_metadata>>
    /\ UNCHANGED <<nodeVars, connVars, registryVars, inbound, open, monitorVars, historyVars>>

\* The request is refused, or its answer makes no sense.  A node that hangs keeps
\* it waiting: it has no timeout.
FetchFails ==
    /\ listener = "fetching" /\ node # "hung"
    /\ NextAttempt
    /\ UNCHANGED <<nodeVars, node_metadata, connVars, registryVars, inbound, open, monitorVars,
                   historyVars>>

\* Fault: the event seen last is not read again.
StartAfterLast == last_event_id + 1

\* Fault: without a last id, the connection asks for no particular start.
StartLive == IF last_event_id = NoId THEN Len(log) ELSE last_event_id

\* build_connections, start_connections: the last id seen by the registry, or 0, is
\* where the connection will start.
StartFrom == IF last_event_id = NoId THEN 0 ELSE last_event_id

StartConnections ==
    /\ listener = "building"
    /\ listener' = "waiting"
    /\ connection' = "connecting" /\ retry_count' = 0
    /\ pos' = StartFrom
    /\ UNCHANGED <<nodeVars, current_attempt, node_metadata, link, event, registryVars, inbound,
                   open, monitorVars, historyVars>>

\* The connection returns an error: its stream and monitor are dropped, do_connect
\* returns, and the loop goes on.
ConnectionEnds ==
    /\ connection' = "none" /\ link' = "none" /\ pos' = 0 /\ event' = NoId /\ retry_count' = 0
    /\ ticks' = 0 /\ last_seen' = "none" /\ cancelled' = FALSE
    /\ NextAttempt
    /\ UNCHANGED node_metadata

-----------------------------------------------------------------------------
\* DefaultConnectionManager and SseConnection.

\* The node answers, with a stream that begins at the requested id or at the oldest
\* event that it still has.  The monitor starts.
Connect ==
    /\ connection = "connecting" /\ node = "up"
    /\ LET oldest == IF Len(log) > NodeBuffer THEN Len(log) - NodeBuffer ELSE 0
       IN /\ pos' = IF pos < oldest THEN oldest ELSE pos
          /\ lost' = lost \cup pos .. oldest - 1
    /\ connection' = "first" /\ link' = "open" /\ retry_count' = 0
    /\ UNCHANGED <<nodeVars, taskVars, event, registryVars, inbound, open, monitorVars, delivered>>

\* The node refuses; after max_attempts + 1 times the connection gives up.
ConnectFails ==
    /\ connection = "connecting" /\ node # "hung"
    /\ \/ retry_count < MaxAttempts /\ retry_count' = retry_count + 1
          /\ UNCHANGED <<taskVars, connection, link, pos, event, monitorVars>>
       \/ retry_count = MaxAttempts /\ ConnectionEnds
    /\ UNCHANGED <<nodeVars, registryVars, inbound, open, historyVars>>

\* Bytes arrive.  The tick is dropped when the monitor is behind.
Tick == ticks' = IF ticks < TickQueueSize THEN ticks + 1 ELSE ticks

Flowing == link = "open" /\ node = "up"

\* consume_api_version, up to the send of the version.
ReadVersion ==
    /\ connection = "first" /\ Flowing
    /\ connection' = "announcing"
    /\ Tick
    /\ UNCHANGED <<nodeVars, taskVars, retry_count, link, pos, event, registryVars, inbound, open,
                   last_seen, cancelled, historyVars>>

\* The version is sent to the pipeline; nobody else has to connect, so reading begins.
AnnounceVersion ==
    /\ connection = "announcing" /\ open /\ inbound < InboundSize
    /\ inbound' = inbound + 1
    /\ connection' = "reading"
    /\ UNCHANGED <<nodeVars, taskVars, retry_count, link, pos, event, registryVars, open,
                   monitorVars, historyVars>>

\* handle_stream reads an event.
ReadEvent ==
    /\ connection = "reading" /\ Flowing /\ pos < Len(log)
    /\ connection' = "reporting"
    /\ event' = pos /\ pos' = pos + 1
    /\ Tick
    /\ UNCHANGED <<nodeVars, taskVars, retry_count, link, registryVars, inbound, open, last_seen,
                   cancelled, historyVars>>

\* The comment that the node sends from time to time.
ReadComment ==
    /\ connection \in {"first", "reading"} /\ Flowing
    /\ Tick
    /\ UNCHANGED <<nodeVars, taskVars, connVars, registryVars, inbound, open, last_seen, cancelled,
                   historyVars>>

\* The id is reported before the event is handled.
ReportId ==
    /\ connection = "reporting" /\ Len(seen) < RegistrySize
    /\ seen' = Append(seen, event)
    /\ connection' = "handling"
    /\ UNCHANGED <<nodeVars, taskVars, retry_count, link, pos, event, last_event_id, inbound, open,
                   monitorVars, historyVars>>

\* handle_event: the event is sent to the pipeline, or cannot be read.
HandleEvent ==
    /\ connection = "handling"
    /\ \/ /\ log[event + 1] = "event" /\ open /\ inbound < InboundSize
          /\ inbound' = inbound + 1
          /\ delivered' = delivered \cup {event}
          /\ connection' = "reading" /\ event' = NoId
          /\ UNCHANGED <<taskVars, retry_count, link, pos, monitorVars>>
       \/ /\ log[event + 1] = "unreadable"
          /\ ConnectionEnds
          /\ UNCHANGED <<inbound, delivered>>
    /\ UNCHANGED <<nodeVars, registryVars, open, lost>>

\* The pipeline has ended and takes nothing any more.
SendFails ==
    /\ ~open
    /\ \/ connection = "announcing"
       \/ connection = "handling" /\ log[event + 1] = "event"
    /\ ConnectionEnds
    /\ UNCHANGED <<nodeVars, registryVars, inbound, open, historyVars>>

\* The stream ends, fails, or was silent for too long.  The first message may also
\* be something else than a version.
StreamEnds ==
    /\ \/ connection \in {"first", "reading"} /\ (link = "broken" \/ cancelled)
       \/ connection = "first" /\ Flowing
    /\ ConnectionEnds
    /\ UNCHANGED <<nodeVars, registryVars, inbound, open, historyVars>>

-----------------------------------------------------------------------------
\* The registry of the last ids.

Register ==
    /\ seen # <<>>
    /\ last_event_id' = Head(seen)
    /\ seen' = Tail(seen)
    /\ UNCHANGED <<nodeVars, taskVars, connVars, inbound, open, monitorVars, historyVars>>

-----------------------------------------------------------------------------
\* KeepAliveMonitor of the current connection.

ObserveTick ==
    /\ ticks > 0
    /\ ticks' = ticks - 1
    /\ last_seen' = "recent"
    /\ UNCHANGED <<nodeVars, taskVars, connVars, registryVars, inbound, open, cancelled,
                   historyVars>>

\* Fault: before the first byte there is nothing to check.
CheckAfterFirst ==
    /\ link # "none" /\ ~cancelled
    /\ last_seen = "old" /\ cancelled' = TRUE
    /\ UNCHANGED <<nodeVars, taskVars, connVars, registryVars, inbound, open, ticks, last_seen,
                   historyVars>>

\* The first check without a byte starts the clock.
CheckLastSeen ==
    /\ link # "none" /\ ~cancelled
    /\ \/ last_seen = "none" /\ last_seen' = "recent" /\ UNCHANGED cancelled
       \/ last_seen = "old" /\ cancelled' = TRUE /\ UNCHANGED last_seen
    /\ UNCHANGED <<nodeVars, taskVars, connVars, registryVars, inbound, open, ticks, historyVars>>

\* no_message_timeout passes since the last byte.
Elapse ==
    /\ link # "none" /\ last_seen = "recent"
    /\ last_seen' = "old"
    /\ UNCHANGED <<nodeVars, taskVars, connVars, registryVars, inbound, open, ticks, cancelled,
                   historyVars>>

-----------------------------------------------------------------------------
\* The node and the pipeline.

restVars == <<taskVars, registryVars, inbound, open, monitorVars, historyVars>>

Produce ==
    /\ node = "up" /\ Len(log) < MaxEvents
    /\ \E body \in Bodies : log' = Append(log, body)
    /\ UNCHANGED <<node, metadata, changes, connVars, restVars>>

Change == changes < MaxChanges /\ changes' = changes + 1

\* A node that goes down breaks the connection, and may come back with another version.
GoDown ==
    /\ node # "down" /\ Change
    /\ node' = "down"
    /\ link' = IF link = "open" THEN "broken" ELSE link
    /\ UNCHANGED <<metadata, log, connection, retry_count, pos, event, restVars>>

ComeUp ==
    /\ node # "up" /\ Change
    /\ node' = "up"
    /\ IF node = "down" THEN metadata' \in Metadata ELSE UNCHANGED metadata
    /\ UNCHANGED <<log, connVars, restVars>>

Hang ==
    /\ node = "up" /\ Change
    /\ node' = "hung"
    /\ UNCHANGED <<metadata, log, connVars, restVars>>

Consume ==
    /\ open /\ inbound > 0
    /\ inbound' = inbound - 1
    /\ UNCHANGED <<nodeVars, taskVars, connVars, registryVars, open, monitorVars, historyVars>>

\* The pipeline ends.
Close ==
    /\ open
    /\ open' = FALSE
    /\ UNCHANGED <<nodeVars, taskVars, connVars, registryVars, inbound, monitorVars, historyVars>>

-----------------------------------------------------------------------------
Task == FetchMetadata \/ FetchFails \/ StartConnections

Connection ==
    \/ Connect \/ ConnectFails \/ ReadVersion \/ AnnounceVersion
    \/ ReadEvent \/ ReportId \/ HandleEvent \/ SendFails \/ StreamEnds

Next ==
    \/ Task \/ Connection \/ ReadComment
    \/ Register
    \/ ObserveTick \/ CheckLastSeen \/ Elapse
    \/ Produce \/ GoDown \/ ComeUp \/ Hang
    \/ Consume \/ Close

Spec == Init /\ [][Next]_vars

\* The runtime polls every task that can go on, time passes, and the pipeline takes
\* what it is sent while it runs.  Nothing is assumed of the node.
FairSpec ==
    /\ Spec
    /\ WF_vars(Task) /\ WF_vars(Connection)
    /\ WF_vars(Register)
    /\ WF_vars(ObserveTick) /\ WF_vars(CheckLastSeen) /\ WF_vars(Elapse)
    /\ WF_vars(Consume)

-----------------------------------------------------------------------------
Ended == listener \in {"exhausted", "failed"}

\* An event is sent to the pipeline only after all the earlier ones, over any number
\* of reconnects and however late the registry is: the id to start from never runs
\* ahead of what was handled.  Only what the node itself has dropped is missing.
NoGap == \A i \in delivered : \A j \in 0 .. i - 1 : j \in delivered \cup lost

\* A listener whose node stays away stops: only the end of the listeners stops the
\* sidecar.
AbsentNodeEndsListener == <>[](node = "down") => <>Ended

\* A connection on which nothing arrives is given up, also when not even the first
\* message came.
SilentConnectionEnds == <>[](node = "hung") => <>[](connection \notin {"first", "reading"})

\* While node and pipeline go on, every event is read sooner or later, unless the
\* listener uses up its attempts.
EventsArrive ==
    \A i \in EventIds :
        (Len(log) > i) ~> (i \in delivered \cup lost \/ Ended \/ ~open \/ node # "up")
=============================================================================
