----------------------------- MODULE EventStream -----------------------------
(***************************************************************************)
(* The outbound event stream of the sidecar: EventStreamServer, the        *)
(* http_server task that owns the ring buffer, and the handlers and        *)
(* streams of sse_server that serve the subscribed clients.                *)
(*                                                                         *)
(* Three kinds of actor run concurrently on the tokio runtime:             *)
(*  - the producer, which calls EventStreamServer::broadcast and finally   *)
(*    drops the EventStreamServer;                                         *)
(*  - the http_server::run task, which selects between the data channel    *)
(*    and the channel of new subscribers;                                  *)
(*  - one request handler and then one response stream for every client.   *)
(* A handler runs without awaiting, but on its own worker thread, so the   *)
(* server task can run between any two of its statements.                  *)
(*                                                                         *)
(* Every message handed to broadcast() is kept in `published`; `handled`   *)
(* says how many of them the server task has taken off its channel.  It    *)
(* broadcasts each one it takes, so the first `handled` messages of        *)
(* `published` are also the log of the tokio broadcast channel.            *)
(***************************************************************************)
EXTENDS Integers, Sequences, FiniteSets

CONSTANTS
    Clients,          \* requests to the event stream, each served once
    IdCount,          \* number of event ids: 2^32 in the code
    FirstIndices,     \* indices the EventIndexer may start from
    BufferLen,        \* config.event_stream_buffer_length
    MaxSubscribers,   \* config.max_concurrent_subscribers
    Workers,          \* worker threads of the runtime
    EnableLegacy,     \* enable_legacy_filters
    Payloads,         \* events that reach the server: [kind, legacy]
    Versions,         \* protocol versions a node may announce
    Requests,         \* requests of the clients: [start, endpoint]
    MaxPublished      \* bound: messages handed to broadcast()

NoId == -1            \* Option::None for an event id and for start_from
NoVersion == 0        \* Option::None for a protocol version
Ids == 0 .. IdCount - 1

\* The kinds of SseData that carry data of a node.
DataKinds == {"BlockAdded", "TransactionAccepted", "TransactionProcessed",
              "TransactionExpired", "Fault", "FinalitySignature", "Step"}

EndpointPaths == {"events", "main", "deploys", "sigs"}

\* get_filter: the kinds that each endpoint serves.
EventFilter(endpoint) ==
    CASE endpoint = "events"  -> DataKinds \cup {"ApiVersion"}
      [] endpoint = "main"    -> {"ApiVersion", "BlockAdded", "TransactionProcessed",
                                  "TransactionExpired", "Fault", "Step"}
      [] endpoint = "deploys" -> {"ApiVersion", "TransactionAccepted"}
      [] endpoint = "sigs"    -> {"ApiVersion", "FinalitySignature"}

IsLegacyFilter(endpoint) == endpoint # "events"

\* path_to_filter and get_filter: the legacy paths exist only when enabled.
KnownEndpoints == IF EnableLegacy THEN EndpointPaths ELSE {"events"}

Events == [serial  : Nat,                   \* position in `published`, 0: made by the server
           id      : Ids \cup {NoId},
           kind    : DataKinds \cup {"ApiVersion", "Shutdown", "Comment"},
           legacy  : BOOLEAN,               \* LegacySseData::from gives Some
           inbound : BOOLEAN,               \* inbound_filter is Some
           ver     : Nat]                   \* the version an ApiVersion announces

ASSUME ConstantsAssumption ==
    /\ IsFiniteSet(Clients)
    /\ BufferLen \in Nat \ {0}
    /\ IdCount \in Nat /\ IdCount >= 3 * BufferLen
    /\ FirstIndices \subseteq Ids
    /\ MaxSubscribers \in Nat \ {0}
    /\ Workers \in Nat \ {0}
    /\ EnableLegacy \in BOOLEAN
    /\ Payloads \subseteq [kind : DataKinds \cup {"Shutdown"}, legacy : BOOLEAN]
    /\ Versions \subseteq Nat \ {0}
    /\ Requests \subseteq [start : Ids \cup {NoId}, endpoint : KnownEndpoints]
    /\ MaxPublished \in Nat

VARIABLES
    index,        \* EventIndexer.index: the id of the next event
    published,    \* every message handed to broadcast(), oldest first
    handled,      \* how many of them the server task has handled
    server,       \* "running", "closing", "draining", "stopped"
    latest,       \* latest_protocol_version
    buffer,       \* the WheelBuf of (protocol version, event)
    newcomers,    \* channel of NewSubscriberInfo
    pc,           \* where the handler or the stream of each client is
    request,      \* what each client asked for
    initial,      \* initial_events channel: what is sent per buffered event
    initialOpen,  \* its sender is alive
    initialIds,   \* initial_stream_ids
    pos,          \* position of the broadcast receiver
    delivered,    \* events written to the client's response
    replayed,     \* history: serials put in the initial channel
    reg,          \* history: `handled` at registration, or NoId
    sub           \* history: `pos` at subscription

serverVars == <<index, published, handled, server, latest, buffer>>
clientVars == <<pc, request, initial, initialOpen, initialIds, pos, delivered>>
history == <<replayed, reg, sub>>
vars == <<serverVars, newcomers, clientVars, history>>

-----------------------------------------------------------------------------
\* The tokio broadcast channel.

GetBroadcastChannelSize == (BufferLen * 120) \div 100

\* tokio rounds the capacity of a broadcast channel up to a power of two.
ChannelCapacity ==
    CHOOSE p \in {2 ^ k : k \in 0 .. GetBroadcastChannelSize} :
        /\ p >= GetBroadcastChannelSize
        /\ \A q \in {2 ^ k : k \in 0 .. GetBroadcastChannelSize} :
               q >= GetBroadcastChannelSize => p <= q

\* Messages broadcast so far; the final one is BroadcastChannelMessage::Shutdown.
ShutdownSent == server \in {"draining", "stopped"}
LogLen == IF ShutdownSent THEN handled + 1 ELSE handled

\* The receivers: every stream that has not ended holds one.
Subscribed == {c \in Clients : pc[c] = "streaming"}

Lagged(c) == LogLen - (pos[c] - 1) > ChannelCapacity

-----------------------------------------------------------------------------
\* What a response stream makes of an event.

ShouldSkipEvent(event, endpoint) ==
    IF event.kind = "Comment"
    THEN ~IsLegacyFilter(endpoint)
    ELSE event.kind # "Shutdown" /\ event.kind \notin EventFilter(endpoint)

ShouldSendShutdown(event) == event.inbound

\* filter_map_server_sent_event gives Some.
Passes(event, endpoint) ==
    /\ ~ShouldSkipEvent(event, endpoint)
    /\ event.kind = "Shutdown" => ShouldSendShutdown(event)
    /\ event.kind \in DataKinds /\ IsLegacyFilter(endpoint) => event.legacy

\* The response of client c after its stream has yielded `event`.
Written(c, event) ==
    IF Passes(event, request[c].endpoint)
    THEN Append(delivered[c], event)
    ELSE delivered[c]

-----------------------------------------------------------------------------
\* The producer: EventStreamServer.

\* Fault: the index does not wrap around.
IndexPlusOne == index + 1

\* EventIndexer::next_index wraps around.
NextIndex == IF index + 1 = IdCount THEN 0 ELSE index + 1

InitialEvent(version) ==
    [serial |-> 0, id |-> NoId, kind |-> "ApiVersion", legacy |-> TRUE,
     inbound |-> FALSE, ver |-> version]

LegacyCommentEvent ==
    [serial |-> 0, id |-> NoId, kind |-> "Comment", legacy |-> TRUE,
     inbound |-> FALSE, ver |-> NoVersion]

\* broadcast(SseData::ApiVersion(version), Some(filter)).
BroadcastApiVersion(version) ==
    /\ server = "running"
    /\ Len(published) < MaxPublished
    /\ published' = Append(published,
           [serial |-> Len(published) + 1, id |-> NoId, kind |-> "ApiVersion",
            legacy |-> TRUE, inbound |-> TRUE, ver |-> version])
    /\ UNCHANGED <<index, handled, server, latest, buffer, newcomers, clientVars, history>>

\* broadcast(data, inbound_filter) for any other SseData.
Broadcast(payload, inbound) ==
    /\ server = "running"
    /\ Len(published) < MaxPublished
    /\ index' = NextIndex
    /\ published' = Append(published,
           [serial |-> Len(published) + 1, id |-> index, kind |-> payload.kind,
            legacy |-> payload.legacy, inbound |-> inbound, ver |-> NoVersion])
    /\ UNCHANGED <<handled, server, latest, buffer, newcomers, clientVars, history>>

\* The EventStreamServer is dropped, and the sender of the data channel with it.
DropServer ==
    /\ server = "running"
    /\ server' = "closing"
    /\ UNCHANGED <<index, published, handled, latest, buffer, newcomers, clientVars, history>>

\* What the processors feed to broadcast(): api versions that are strictly newer
\* than every one before, data once a version is known, one Shutdown of the
\* sidecar itself (no inbound filter) when all the nodes are gone, and the drop
\* of the server after that.
Announced == {published[i].ver : i \in {j \in 1 .. Len(published) :
                                          published[j].kind = "ApiVersion"}}
SidecarShutdown == \E i \in 1 .. Len(published) :
                      published[i].kind = "Shutdown" /\ ~published[i].inbound

Producer ==
    \/ \E v \in Versions : (\A w \in Announced : v > w) /\ BroadcastApiVersion(v)
    \/ \E p \in Payloads : Announced # {} /\ Broadcast(p, TRUE)
    \/ ~SidecarShutdown /\ Broadcast([kind |-> "Shutdown", legacy |-> FALSE], FALSE)
    \/ SidecarShutdown /\ DropServer

-----------------------------------------------------------------------------
\* The server task: http_server::run.

\* Fault: a full buffer keeps the old entries and drops the new one.
PushUntilFull(entry) ==
    IF Len(buffer) = BufferLen THEN buffer ELSE Append(buffer, entry)

\* WheelBuf::push overwrites the oldest entry when the buffer is full.
Push(entry) ==
    IF Len(buffer) = BufferLen THEN Append(Tail(buffer), entry) ELSE Append(buffer, entry)

HandleIncomingData ==
    /\ server \in {"running", "closing"}
    /\ handled < Len(published)
    /\ LET event == published[handled + 1] IN
       /\ latest' = IF event.kind = "ApiVersion" THEN event.ver ELSE latest
       /\ buffer' = IF event.kind = "ApiVersion" \/ latest = NoVersion
                    THEN buffer
                    ELSE Push([ver |-> latest, event |-> event])
    /\ handled' = handled + 1
    /\ UNCHANGED <<index, published, server, newcomers, clientVars, history>>

\* The ids of the buffered events are shifted past the wrapping transition when
\* the oldest one is near it.
WrappingAdd(a, b) == IF a + b >= IdCount THEN a + b - IdCount ELSE a + b

\* Fault: only the ids below the wrapping transition count as near it.
InUpperZone(buf) == buf # <<>> /\ buf[1].event.id > IdCount - BufferLen

InWraparoundZone(buf) ==
    /\ buf # <<>>
    /\ \/ buf[1].event.id > IdCount - 1 - BufferLen
       \/ buf[1].event.id < BufferLen

IsBefore(buf, id, start) ==
    IF InWraparoundZone(buf)
    THEN WrappingAdd(id, BufferLen) < WrappingAdd(start, BufferLen)
    ELSE id < start

\* skip_while: the position of the first buffered event that is not before start.
FirstReplayed(buf, start) ==
    CHOOSE i \in 1 .. Len(buf) + 1 :
        /\ \A j \in 1 .. i - 1 : IsBefore(buf, buf[j].event.id, start)
        /\ i <= Len(buf) => ~IsBefore(buf, buf[i].event.id, start)

\* The buffered entries that a subscriber starting from `start` is sent.
Replay(buf, start) ==
    IF start = NoId THEN <<>> ELSE SubSeq(buf, FirstReplayed(buf, start), Len(buf))

\* Fault: only the first version is announced.
SentForFirst(entries, i) ==
    IF i = 1
    THEN <<InitialEvent(entries[i].ver), entries[i].event>>
    ELSE <<entries[i].event>>

\* What the loop of register_new_subscriber sends for the i-th of these entries.
SentFor(entries, i) ==
    IF i = 1 \/ entries[i].ver # entries[i - 1].ver
    THEN <<InitialEvent(entries[i].ver), entries[i].event>>
    ELSE <<entries[i].event>>

SendApiVersionIfNecessary(entries, version) ==
    IF entries = <<>> /\ version # NoVersion THEN <<<<InitialEvent(version)>>>> ELSE <<>>

InitialEvents(entries, version) ==
    (IF EnableLegacy THEN <<<<LegacyCommentEvent>>>> ELSE <<>>)
        \o [i \in 1 .. Len(entries) |-> SentFor(entries, i)]
        \o SendApiVersionIfNecessary(entries, version)

\* Fault: the sender of the initial events is kept alive.
RegisterAndHold ==
    /\ server \in {"running", "closing"}
    /\ newcomers # <<>>
    /\ newcomers' = Tail(newcomers)
    /\ UNCHANGED <<serverVars, clientVars, history>>

RegisterNewSubscriber ==
    /\ server \in {"running", "closing"}
    /\ newcomers # <<>>
    /\ LET c == Head(newcomers)
           entries == IF pc[c] = "closed" THEN <<>> ELSE Replay(buffer, request[c].start)
       IN /\ initial' = [initial EXCEPT ![c] =
                            IF pc[c] = "closed" THEN <<>> ELSE InitialEvents(entries, latest)]
          /\ initialOpen' = [initialOpen EXCEPT ![c] = FALSE]
          /\ replayed' = [replayed EXCEPT ![c] =
                             {entries[i].event.serial : i \in 1 .. Len(entries)}]
          /\ reg' = [reg EXCEPT ![c] = IF pc[c] = "closed" THEN NoId ELSE handled]
    /\ newcomers' = Tail(newcomers)
    /\ UNCHANGED <<serverVars, pc, request, initialIds, pos, delivered, sub>>

\* The data channel is closed and drained: the loop ends and the streams are told.
BroadcastShutdown ==
    /\ server = "closing"
    /\ handled = Len(published)
    /\ server' = "draining"
    /\ UNCHANGED <<index, published, handled, latest, buffer, newcomers, clientVars, history>>

\* The server is told to stop accepting, and run() returns, dropping the receiver
\* of new subscribers with everything still in it.
ServerShutdown ==
    /\ server = "draining"
    /\ server' = "stopped"
    /\ newcomers' = <<>>
    /\ initialOpen' = [c \in Clients |->
                          initialOpen[c] /\ \A i \in 1 .. Len(newcomers) : newcomers[i] # c]
    /\ UNCHANGED <<index, published, handled, latest, buffer, pc, request, initial,
                   initialIds, pos, delivered, history>>

-----------------------------------------------------------------------------
\* A client: serve_sse_response_handler and then stream_to_client.

InHandler == {c \in Clients : pc[c] \in {"validated", "announced"}}

\* Fault: one subscriber too many.
ValidateOneMore(c, r) ==
    /\ pc[c] = "idle"
    /\ server # "stopped"
    /\ Cardinality(InHandler) < Workers
    /\ Cardinality(Subscribed) <= MaxSubscribers
    /\ request' = [request EXCEPT ![c] = r]
    /\ pc' = [pc EXCEPT ![c] = "validated"]
    /\ UNCHANGED <<serverVars, newcomers, initial, initialOpen, initialIds, pos, delivered, history>>

\* A request that the handler turns down (503, 404 or 422) leaves no state behind,
\* so only accepted ones are steps.
Validate(c, r) ==
    /\ pc[c] = "idle"
    /\ server # "stopped"
    /\ Cardinality(InHandler) < Workers
    /\ Cardinality(Subscribed) < MaxSubscribers
    /\ request' = [request EXCEPT ![c] = r]
    /\ pc' = [pc EXCEPT ![c] = "validated"]
    /\ UNCHANGED <<serverVars, newcomers, initial, initialOpen, initialIds, pos, delivered, history>>

\* new_subscriber_info_sender.send fails once the server task is gone.
SendSubscriberInfo(c) ==
    /\ pc[c] = "validated"
    /\ pc' = [pc EXCEPT ![c] = "announced"]
    /\ newcomers' = IF server = "stopped" THEN newcomers ELSE Append(newcomers, c)
    /\ initialOpen' = [initialOpen EXCEPT ![c] = server # "stopped"]
    /\ UNCHANGED <<serverVars, request, initial, initialIds, pos, delivered, history>>

Subscribe(c) ==
    /\ pc[c] = "announced"
    /\ pc' = [pc EXCEPT ![c] = "streaming"]
    /\ pos' = [pos EXCEPT ![c] = LogLen + 1]
    /\ sub' = [sub EXCEPT ![c] = LogLen + 1]
    /\ UNCHANGED <<serverVars, newcomers, request, initial, initialOpen, initialIds,
                   delivered, replayed, reg>>

\* One event of the initial stream.
StreamInitial(c) ==
    /\ pc[c] = "streaming"
    /\ initial[c] # <<>>
    /\ LET sent == Head(initial[c])
           event == Head(sent)
       IN /\ initial' = [initial EXCEPT ![c] = IF Len(sent) = 1
                                               THEN Tail(@)
                                               ELSE <<Tail(sent)>> \o Tail(@)]
          /\ initialIds' = [initialIds EXCEPT ![c] =
                               IF event.id = NoId THEN @ ELSE @ \cup {event.id}]
          /\ delivered' = [delivered EXCEPT ![c] = Written(c, event)]
    /\ UNCHANGED <<serverVars, newcomers, pc, request, initialOpen, pos, history>>

\* The ongoing stream is chained after the end of the initial one.
InitialDone(c) == pc[c] = "streaming" /\ initial[c] = <<>> /\ ~initialOpen[c]

\* Fault: no event is ever a duplicate.
NeverDuplicate(c, event) == FALSE

\* handle_sse_event: skip what the initial stream has already delivered.
IsDuplicate(c, event) == event.id # NoId /\ event.id \in initialIds[c]

StreamOngoing(c) ==
    /\ InitialDone(c)
    /\ ~Lagged(c)
    /\ pos[c] <= handled
    /\ LET event == published[pos[c]] IN
       delivered' = [delivered EXCEPT ![c] =
                        IF IsDuplicate(c, event) THEN @ ELSE Written(c, event)]
    /\ pos' = [pos EXCEPT ![c] = @ + 1]
    /\ UNCHANGED <<serverVars, newcomers, pc, request, initial, initialOpen, initialIds, history>>

\* The stream ends on the Shutdown message, with an error when the receiver has
\* lagged, or when the client goes away.  All that belongs to it is dropped, and
\* its history with it: what was delivered is judged while the stream lives.
EndStream(c) ==
    /\ pc[c] = "streaming"
    /\ pc' = [pc EXCEPT ![c] = "closed"]
    /\ initial' = [initial EXCEPT ![c] = <<>>]
    /\ initialIds' = [initialIds EXCEPT ![c] = {}]
    /\ pos' = [pos EXCEPT ![c] = 1]
    /\ delivered' = [delivered EXCEPT ![c] = <<>>]
    /\ replayed' = [replayed EXCEPT ![c] = {}]
    /\ reg' = [reg EXCEPT ![c] = NoId]
    /\ sub' = [sub EXCEPT ![c] = 1]
    /\ UNCHANGED <<serverVars, newcomers, request, initialOpen>>

\* Fault: the Shutdown message is skipped like any other.
StreamPastShutdown(c) ==
    /\ InitialDone(c) /\ ShutdownSent /\ pos[c] = LogLen
    /\ pos' = [pos EXCEPT ![c] = @ + 1]
    /\ UNCHANGED <<serverVars, newcomers, pc, request, initial, initialOpen, initialIds,
                   delivered, history>>

\* Fault: a stream that has lagged goes on with the oldest message still there.
StreamAfterLag(c) ==
    /\ InitialDone(c) /\ Lagged(c)
    /\ pos' = [pos EXCEPT ![c] = LogLen - ChannelCapacity + 1]
    /\ UNCHANGED <<serverVars, newcomers, pc, request, initial, initialOpen, initialIds,
                   delivered, history>>

StreamShutdown(c) == InitialDone(c) /\ ShutdownSent /\ pos[c] = LogLen /\ EndStream(c)
StreamLagged(c) == InitialDone(c) /\ Lagged(c) /\ EndStream(c)
Disconnect(c) == EndStream(c)

-----------------------------------------------------------------------------
Init ==
    /\ index \in FirstIndices
    /\ published = <<>>
    /\ handled = 0
    /\ server = "running"
    /\ latest = NoVersion
    /\ buffer = <<>>
    /\ newcomers = <<>>
    /\ pc = [c \in Clients |-> "idle"]
    /\ request = [c \in Clients |-> [start |-> NoId, endpoint |-> "events"]]
    /\ initial = [c \in Clients |-> <<>>]
    /\ initialOpen = [c \in Clients |-> FALSE]
    /\ initialIds = [c \in Clients |-> {}]
    /\ pos = [c \in Clients |-> 1]
    /\ delivered = [c \in Clients |-> <<>>]
    /\ replayed = [c \in Clients |-> {}]
    /\ reg = [c \in Clients |-> NoId]
    /\ sub = [c \in Clients |-> 1]

ServerTask == HandleIncomingData \/ RegisterNewSubscriber \/ BroadcastShutdown \/ ServerShutdown
Handler(c) == (\E r \in Requests : Validate(c, r)) \/ SendSubscriberInfo(c) \/ Subscribe(c)
Stream(c) == StreamInitial(c) \/ StreamOngoing(c) \/ StreamShutdown(c) \/ StreamLagged(c)

Next ==
    \/ Producer
    \/ ServerTask
    \/ \E c \in Clients : Handler(c) \/ Stream(c) \/ Disconnect(c)

Spec == Init /\ [][Next]_vars

\* The runtime keeps polling the server task (select! picks its branches at
\* random), a handler that has been accepted, and every stream whose client
\* reads.  Nothing obliges a client to connect, or the producer to produce.
Fairness ==
    /\ WF_vars(HandleIncomingData)
    /\ WF_vars(RegisterNewSubscriber)
    /\ WF_vars(BroadcastShutdown)
    /\ WF_vars(ServerShutdown)
    /\ \A c \in Clients : WF_vars(SendSubscriberInfo(c) \/ Subscribe(c)) /\ WF_vars(Stream(c))

FairSpec == Spec /\ Fairness
-----------------------------------------------------------------------------
\* The variables hold the values their Rust types allow.
TypeOK ==
    /\ index \in Ids
    /\ published \in Seq(Events)
    /\ handled \in 0 .. Len(published)
    /\ server \in {"running", "closing", "draining", "stopped"}
    /\ latest \in Nat
    /\ buffer \in Seq([ver : Nat, event : Events])
    /\ Len(buffer) <= BufferLen
    /\ newcomers \in Seq(Clients)
    /\ pc \in [Clients -> {"idle", "validated", "announced", "streaming", "closed"}]
    /\ request \in [Clients -> [start : Ids \cup {NoId}, endpoint : EndpointPaths]]
    /\ initial \in [Clients -> Seq(Seq(Events) \ {<<>>})]
    /\ initialOpen \in [Clients -> BOOLEAN]
    /\ initialIds \in [Clients -> SUBSET Ids]
    /\ pos \in [Clients -> Nat \ {0}]
    /\ delivered \in [Clients -> Seq(Events)]
    /\ replayed \in [Clients -> SUBSET Nat]
    /\ reg \in [Clients -> Nat \cup {NoId}]
    /\ sub \in [Clients -> Nat \ {0}]

IsData(event) == event.kind \notin {"ApiVersion", "Comment"}

\* Only api versions were published strictly between positions i and j.
NoDataBetween(i, j) == \A k \in 1 .. Len(published) : i < k /\ k < j => ~IsData(published[k])

\* The version v was the latest one announced before position i.
InForce(v, i) ==
    \E j \in 1 .. Len(published) :
        /\ j < i
        /\ published[j].kind = "ApiVersion" /\ published[j].ver = v
        /\ \A k \in 1 .. Len(published) : j < k /\ k < i => IsData(published[k])

\* Every published event knows its position, and only api versions have no id.
PublishedNumbered ==
    \A i \in 1 .. Len(published) :
        /\ published[i].serial = i
        /\ published[i].kind # "Comment"
        /\ IsData(published[i]) => published[i].id \in Ids
        /\ published[i].kind = "ApiVersion" => published[i].ver # NoVersion

\* The ring buffer of http_server is a window of the published events: without a
\* gap, in order, up to the last one handled, and each entry carries the version
\* that was in force when the event was published.
BufferIsWindow ==
    /\ \A k \in 1 .. Len(buffer) :
           LET e == buffer[k].event IN
           /\ e.serial \in 1 .. handled
           /\ published[e.serial] = e
           /\ IsData(e)
           /\ InForce(buffer[k].ver, e.serial)
    /\ \A k \in 1 .. Len(buffer) - 1 :
           /\ buffer[k].event.serial < buffer[k + 1].event.serial
           /\ NoDataBetween(buffer[k].event.serial, buffer[k + 1].event.serial)
    /\ buffer # <<>> => NoDataBetween(buffer[Len(buffer)].event.serial, handled + 1)

\* The id that follows another one.
Following(id) == IF id + 1 = IdCount THEN 0 ELSE id + 1

\* The ids of successive events follow one another, and the index is the next one.
IdsFollow ==
    /\ \A i, j \in 1 .. Len(published) :
           i < j /\ IsData(published[i]) /\ IsData(published[j]) /\ NoDataBetween(i, j)
               => published[j].id = Following(published[i].id)
    /\ \A i \in 1 .. Len(published) :
           IsData(published[i]) /\ NoDataBetween(i, Len(published) + 1)
               => index = Following(published[i].id)

\* The server task knows the version in force, and buffers nothing before there is one.
LatestInForce ==
    IF latest = NoVersion THEN buffer = <<>> ELSE InForce(latest, handled + 1)

\* The inductive invariant behind BufferIsWindow and ReplayIsExact.
WindowInv == TypeOK /\ PublishedNumbered /\ IdsFollow /\ LatestInForce /\ BufferIsWindow

\* register_new_subscriber replays from exactly the event whose id the client
\* names, whichever buffered one it is, and replays nothing to a client that asks
\* for the event after the newest: also when the buffered ids wrap around.
ReplayIsExact ==
    buffer # <<>> =>
        /\ \A k \in 1 .. Len(buffer) : FirstReplayed(buffer, buffer[k].event.id) = k
        /\ FirstReplayed(buffer, Following(buffer[Len(buffer)].event.id)) = Len(buffer) + 1

\* The data events a client has been sent.
DataSent(c) == {delivered[c][i].serial : i \in {j \in 1 .. Len(delivered[c]) :
                                                  IsData(delivered[c][j])}}

\* No client is sent an event twice, although the replayed events and the broadcast
\* ones reach it through two channels, and events come in the order of publication.
\* One case is out of order: an event broadcast after the subscription but before
\* the registration that is not among the replayed ones comes after them.
DeliveredInOrder ==
    \A c \in Clients : \A i, j \in 1 .. Len(delivered[c]) :
        LET d == delivered[c][i].serial
            e == delivered[c][j].serial
        IN i < j /\ IsData(delivered[c][i]) /\ IsData(delivered[c][j])
             => \/ d < e
                \/ /\ d # e
                   /\ d \in replayed[c]
                   /\ e \in (sub[c] .. reg[c]) \ replayed[c]

\* From the first replayed event on, or from its registration if nothing is
\* replayed, a client has been sent everything its endpoint serves up to where its
\* stream is, except what the server handled after it registered the client and
\* before the client's handler subscribed to the broadcast channel.
NoLossOutsideSeam ==
    \A c \in Clients : InitialDone(c) /\ reg[c] # NoId =>
        \A i \in replayed[c] \cup (reg[c] + 1 .. pos[c] - 1) :
            \/ i \in DataSent(c)
            \/ i > Len(published)                  \* the Shutdown message
            \/ ~IsData(published[i])
            \/ ~Passes(published[i], request[c].endpoint)
            \/ i < sub[c] /\ i \notin replayed[c]

\* The version that a client has been told before its j-th event.
ToldBefore(c, v, j) ==
    \E i \in 1 .. j - 1 :
        /\ delivered[c][i].kind = "ApiVersion" /\ delivered[c][i].ver = v
        /\ \A k \in i + 1 .. j - 1 : delivered[c][k].kind # "ApiVersion"

\* The last event replayed to c has the version that was in force at registration.
ReplayUpToDate(c) ==
    \A i \in replayed[c] : \A v \in Versions :
        (\A k \in replayed[c] : k <= i) /\ InForce(v, i) => InForce(v, reg[c] + 1)

\* No api version was handled between the registration of c and its subscription,
\* whichever of the two came first.
QuietSeam(c) ==
    \A i \in 1 .. Len(published) :
        (reg[c] < i /\ i < sub[c]) \/ (sub[c] <= i /\ i <= reg[c]) => IsData(published[i])

\* Every replayed event comes after an ApiVersion event with its own version, and
\* so does every later one, unless the version changed between the registration
\* and the subscription or after the last replayed event.
VersionAnnounced ==
    \A c \in Clients : \A j \in 1 .. Len(delivered[c]) :
        LET e == delivered[c][j] IN
        IsData(e) /\ (e.serial \in replayed[c] \/ (QuietSeam(c) /\ ReplayUpToDate(c)))
            => \E v \in Versions : InForce(v, e.serial) /\ ToldBefore(c, v, j)

\* What USAGE.md promises to a client that names an event to start from: the event
\* stream from that event onward, with no event missing.  The code does not keep
\* it: what is handled between the registration and the subscription is lost.
ReplayedOnward ==
    \A c \in Clients : InitialDone(c) /\ replayed[c] # {} =>
        \A i \in reg[c] + 1 .. pos[c] - 1 :
            \/ i \in DataSent(c)
            \/ i > Len(published)
            \/ ~IsData(published[i])
            \/ ~Passes(published[i], request[c].endpoint)

\* What the README and the config promise of max_concurrent_subscribers: no more
\* subscribers than that at any one time.  The code does not keep it: validate()
\* counts the receivers before the handler subscribes, so that handlers on several
\* worker threads pass the check together.
SubscribersPermitted == Cardinality(Subscribed) <= MaxSubscribers

\* How far the maximum is overrun: every other worker thread may admit one client
\* more while a handler is between its check and its subscription, and no more.
OvershootBounded == Cardinality(Subscribed) <= MaxSubscribers + Workers - 1

\* Once the EventStreamServer is dropped, the stream of every client that is
\* subscribed ends.
StreamsEnd ==
    \A c \in Clients : (server = "closing" /\ pc[c] = "streaming") ~> pc[c] = "closed"

\* Whatever is broadcast to a subscribed client is eventually taken off the
\* channel by its stream, unless the stream ends.
StreamsAdvance ==
    \A c \in Clients : \A i \in 1 .. MaxPublished :
        (pc[c] = "streaming" /\ pos[c] = i /\ i <= handled)
            ~> (pos[c] > i \/ pc[c] = "closed")
=============================================================================
