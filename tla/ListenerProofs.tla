---------------------------- MODULE ListenerProofs ----------------------------
(***************************************************************************)
(* What holds of a listener for every number of attempts, every size of    *)
(* its channels and any events of its node: it skips no event, however its *)
(* connections end and however late the registry of the ids is.            *)
(***************************************************************************)
EXTENDS Listener, TLAPS, SequenceTheorems

-----------------------------------------------------------------------------
\* The inductive invariant.

\* A connection belongs to a round of the loop, which has an attempt left, and an
\* event that is being handled is one of the node's.
InRound ==
    /\ connection # "none" => listener = "waiting"
    /\ listener \in {"fetching", "building", "waiting"} => current_attempt <= MaxAttempts
    /\ connection \in {"reporting", "handling"} => event \in EventIds /\ event < Len(log) /\ pos = event + 1

TypeInv == TypeOK /\ InRound

\* Every event before id n was sent to the pipeline, or dropped by the node.
Handled(n) == \A j \in 0 .. n - 1 : j \in delivered \cup lost

\* Wherever an id may become the start of a connection, everything before it is
\* handled: in the registry, in the channel to it, at the connection.
StartsHandled ==
    /\ Handled(last_event_id)
    /\ \A k \in 1 .. Len(seen) : Handled(seen[k])
    /\ connection \in {"connecting", "first", "announcing", "reading"} => Handled(pos)
    /\ connection \in {"reporting", "handling"} => Handled(event)

GapInv == TypeInv /\ StartsHandled /\ NoGap

-----------------------------------------------------------------------------
\* Types.

LEMMA Sizes ==
    /\ MaxAttempts \in Nat /\ MaxAttempts >= 1 /\ MaxEvents \in Nat /\ MaxChanges \in Nat
    /\ RegistrySize \in Nat /\ InboundSize \in Nat /\ TickQueueSize \in Nat /\ NodeBuffer \in Nat
BY ListenerAssumption

\* Where the tasks of the listener are after its connection has ended.
LEMMA ConnectionEndsTypes ==
    ASSUME TypeInv, connection # "none", ConnectionEnds
    PROVE  /\ listener' \in {"fetching", "exhausted"} /\ current_attempt' \in 1 .. MaxAttempts + 1
           /\ listener' = "fetching" => current_attempt' <= MaxAttempts
           /\ node_metadata' \in Metadata \cup {NoMetadata}
           /\ connection' = "none" /\ link' = "none" /\ pos' = 0 /\ event' = NoId /\ retry_count' = 0
           /\ ticks' = 0 /\ last_seen' = "none" /\ cancelled' = FALSE
<1>1. current_attempt \in 1 .. MaxAttempts
    BY Sizes DEF TypeInv, TypeOK, InRound
<1>2. /\ listener' \in {"fetching", "exhausted"} /\ current_attempt' \in 1 .. MaxAttempts + 1
      /\ listener' = "fetching" => current_attempt' <= MaxAttempts
    BY <1>1, Sizes DEF ConnectionEnds, NextAttempt
<1> QED BY <1>2 DEF ConnectionEnds, TypeInv, TypeOK

LEMMA EndKeepsTypes ==
    ASSUME TypeInv, connection # "none", ConnectionEnds,
           UNCHANGED <<nodeVars, registryVars, inbound, open, historyVars>>
    PROVE  TypeInv'
<1>1. /\ listener' \in {"fetching", "exhausted"} /\ current_attempt' \in 1 .. MaxAttempts + 1
      /\ listener' = "fetching" => current_attempt' <= MaxAttempts
      /\ node_metadata' \in Metadata \cup {NoMetadata}
      /\ connection' = "none" /\ link' = "none" /\ pos' = 0 /\ event' = NoId /\ retry_count' = 0
      /\ ticks' = 0 /\ last_seen' = "none" /\ cancelled' = FALSE
    BY ConnectionEndsTypes
<1>2. retry_count' \in 0 .. MaxAttempts /\ pos' \in 0 .. MaxEvents /\ ticks' \in 0 .. TickQueueSize
    BY <1>1, Sizes
<1>3. TypeOK'
    BY <1>1, <1>2 DEF TypeInv, TypeOK, nodeVars, registryVars, historyVars
<1>4. InRound'
    BY <1>1 DEF InRound
<1> QED BY <1>3, <1>4 DEF TypeInv

LEMMA TaskKeepsTypes ==
    ASSUME TypeInv, Task
    PROVE  TypeInv'
<1>1. CASE FetchMetadata
  <2>1. /\ listener' \in {"building", "failed"} /\ current_attempt' \in 1 .. MaxAttempts + 1
        /\ current_attempt' <= MaxAttempts /\ node_metadata' \in Metadata \cup {NoMetadata}
      BY <1>1, Sizes DEF FetchMetadata, TypeInv, TypeOK, InRound
  <2>2. UNCHANGED <<nodeVars, connVars, registryVars, inbound, open, monitorVars, historyVars>> /\ connection = "none"
      BY <1>1 DEF FetchMetadata, TypeInv, InRound
  <2> QED BY <2>1, <2>2 DEF TypeInv, TypeOK, InRound, nodeVars, connVars, registryVars, monitorVars, historyVars
<1>2. CASE FetchFails
  <2>1. current_attempt \in 1 .. MaxAttempts /\ connection = "none"
      BY <1>2, Sizes DEF FetchFails, TypeInv, TypeOK, InRound
  <2>2. /\ listener' \in {"fetching", "exhausted"} /\ current_attempt' \in 1 .. MaxAttempts + 1
        /\ listener' = "fetching" => current_attempt' <= MaxAttempts
      BY <1>2, <2>1, Sizes DEF FetchFails, NextAttempt
  <2>3. UNCHANGED <<nodeVars, node_metadata, connVars, registryVars, inbound, open, monitorVars, historyVars>>
      BY <1>2 DEF FetchFails
  <2> QED BY <2>1, <2>2, <2>3 DEF TypeInv, TypeOK, InRound, nodeVars, connVars, registryVars, monitorVars, historyVars
<1>3. CASE StartConnections
  <2>1. /\ listener' = "waiting" /\ connection' = "connecting" /\ retry_count' \in 0 .. MaxAttempts
        /\ current_attempt <= MaxAttempts
      BY <1>3, Sizes DEF StartConnections, TypeInv, InRound
  <2>2. pos' \in 0 .. MaxEvents
      BY <1>3, Sizes DEF StartConnections, StartFrom, TypeInv, TypeOK, EventIds, NoId
  <2>3. UNCHANGED <<nodeVars, current_attempt, node_metadata, link, event, registryVars, inbound, open, monitorVars, historyVars>>
      BY <1>3 DEF StartConnections
  <2> QED BY <2>1, <2>2, <2>3 DEF TypeInv, TypeOK, InRound, nodeVars, registryVars, monitorVars, historyVars
<1> QED BY <1>1, <1>2, <1>3 DEF Task

LEMMA TickType ==
    ASSUME TypeOK, Tick PROVE ticks' \in 0 .. TickQueueSize
BY Sizes DEF TypeOK, Tick

\* The oldest event that the node still has.
Oldest == IF Len(log) > NodeBuffer THEN Len(log) - NodeBuffer ELSE 0

LEMMA ConnectStart ==
    ASSUME TypeOK, Connect
    PROVE  /\ Oldest \in 0 .. MaxEvents /\ pos \in 0 .. MaxEvents /\ pos' \in 0 .. MaxEvents
           /\ pos' = (IF pos < Oldest THEN Oldest ELSE pos)
           /\ lost' = lost \cup pos .. Oldest - 1 /\ lost' \subseteq EventIds
<1>1. Len(log) \in Nat /\ Len(log) <= MaxEvents /\ pos \in 0 .. MaxEvents /\ lost \subseteq EventIds
    BY DEF TypeOK
<1>2. Oldest \in 0 .. MaxEvents
    BY <1>1, Sizes DEF Oldest
<1>3. pos' = (IF pos < Oldest THEN Oldest ELSE pos) /\ lost' = lost \cup pos .. Oldest - 1
    BY DEF Connect, Oldest
<1> HIDE DEF Oldest
<1> QED BY <1>1, <1>2, <1>3, Sizes DEF EventIds

LEMMA ConnectKeepsTypes ==
    ASSUME TypeInv, Connect \/ ConnectFails
    PROVE  TypeInv'
<1>1. CASE Connect
  <2>1. pos' \in 0 .. MaxEvents /\ lost' \subseteq EventIds /\ retry_count' \in 0 .. MaxAttempts
      BY <1>1, ConnectStart, Sizes DEF TypeInv, Connect
  <2> QED BY <1>1, <2>1 DEF Connect, TypeInv, TypeOK, InRound, nodeVars, taskVars, registryVars, monitorVars
<1>2. CASE ConnectFails /\ retry_count < MaxAttempts /\ retry_count' = retry_count + 1
            /\ UNCHANGED <<taskVars, connection, link, pos, event, monitorVars>>
  <2>1. retry_count' \in 0 .. MaxAttempts
      BY <1>2, Sizes DEF TypeInv, TypeOK
  <2> QED BY <1>2, <2>1 DEF ConnectFails, TypeInv, TypeOK, InRound, nodeVars, taskVars, registryVars, monitorVars, historyVars
<1>3. CASE ConnectFails /\ ConnectionEnds
    BY <1>3, EndKeepsTypes DEF ConnectFails
<1> QED BY <1>1, <1>2, <1>3 DEF ConnectFails

LEMMA ReadKeepsTypes ==
    ASSUME TypeInv, ReadVersion \/ AnnounceVersion \/ ReadEvent \/ ReadComment \/ ReportId
    PROVE  TypeInv'
<1>0. TypeOK
    BY DEF TypeInv
<1>1. CASE ReadVersion
    BY <1>0, <1>1, TickType DEF ReadVersion, TypeInv, TypeOK, InRound, nodeVars, taskVars, registryVars, historyVars
<1>2. CASE AnnounceVersion
  <2>1. inbound' \in 0 .. InboundSize
      BY <1>2, Sizes DEF AnnounceVersion, TypeInv, TypeOK
  <2> QED BY <1>2, <2>1 DEF AnnounceVersion, TypeInv, TypeOK, InRound, nodeVars, taskVars, registryVars, monitorVars, historyVars
<1>3. CASE ReadEvent
  <2>1. pos \in 0 .. MaxEvents /\ Len(log) \in Nat /\ Len(log) <= MaxEvents /\ pos < Len(log)
      BY <1>3 DEF ReadEvent, TypeInv, TypeOK
  <2>2. event' \in EventIds /\ event' < Len(log) /\ pos' = event' + 1 /\ pos' \in 0 .. MaxEvents
      BY <1>3, <2>1, Sizes DEF ReadEvent, EventIds
  <2>3. ticks' \in 0 .. TickQueueSize
      BY <1>0, <1>3, TickType DEF ReadEvent
  <2> QED BY <1>3, <2>2, <2>3 DEF ReadEvent, TypeInv, TypeOK, InRound, nodeVars, taskVars, registryVars, historyVars
<1>4. CASE ReadComment
    BY <1>0, <1>4, TickType DEF ReadComment, TypeInv, TypeOK, InRound, nodeVars, taskVars, connVars, registryVars, historyVars
<1>5. CASE ReportId
  <2>1. seen \in Seq(EventIds) /\ event \in EventIds
      BY <1>5 DEF ReportId, TypeInv, TypeOK, InRound
  <2>2. seen' \in Seq(EventIds) /\ Len(seen') <= RegistrySize
      BY <1>5, <2>1, AppendProperties, Sizes DEF ReportId
  <2> QED BY <1>5, <2>2 DEF ReportId, TypeInv, TypeOK, InRound, nodeVars, taskVars, monitorVars, historyVars
<1> QED BY <1>1, <1>2, <1>3, <1>4, <1>5

LEMMA HandleKeepsTypes ==
    ASSUME TypeInv, HandleEvent \/ SendFails \/ StreamEnds
    PROVE  TypeInv'
<1>1. CASE HandleEvent /\ ConnectionEnds /\ UNCHANGED <<inbound, delivered>>
    BY <1>1, EndKeepsTypes DEF HandleEvent, historyVars
<1>2. CASE HandleEvent /\ inbound < InboundSize /\ inbound' = inbound + 1 /\ delivered' = delivered \cup {event}
            /\ connection' = "reading" /\ event' = NoId /\ UNCHANGED <<taskVars, retry_count, link, pos, monitorVars>>
  <2>1. inbound' \in 0 .. InboundSize
      BY <1>2, Sizes DEF TypeInv, TypeOK
  <2>2. delivered' \subseteq EventIds
      BY <1>2 DEF HandleEvent, TypeInv, TypeOK, InRound
  <2> QED BY <1>2, <2>1, <2>2 DEF HandleEvent, TypeInv, TypeOK, InRound, nodeVars, taskVars, registryVars, monitorVars
<1>3. CASE SendFails
    BY <1>3, EndKeepsTypes DEF SendFails
<1>4. CASE StreamEnds
    BY <1>4, EndKeepsTypes DEF StreamEnds
<1> QED BY <1>1, <1>2, <1>3, <1>4 DEF HandleEvent

LEMMA MonitorKeepsTypes ==
    ASSUME TypeInv, Register \/ ObserveTick \/ CheckLastSeen \/ Elapse
    PROVE  TypeInv'
<1>1. CASE Register
  <2>1. seen \in Seq(EventIds) /\ seen # <<>>
      BY <1>1 DEF Register, TypeInv, TypeOK
  <2>2. seen' \in Seq(EventIds) /\ Len(seen') <= Len(seen) /\ last_event_id' \in EventIds
      BY <1>1, <2>1, HeadTailProperties DEF Register
  <2>3. Len(seen') <= RegistrySize
      BY <2>1, <2>2, Sizes DEF TypeInv, TypeOK
  <2> QED BY <1>1, <2>2, <2>3 DEF Register, TypeInv, TypeOK, InRound, nodeVars, taskVars, connVars, monitorVars, historyVars
<1>2. CASE ObserveTick
  <2>1. ticks' \in 0 .. TickQueueSize
      BY <1>2, Sizes DEF ObserveTick, TypeInv, TypeOK
  <2> QED BY <1>2, <2>1 DEF ObserveTick, TypeInv, TypeOK, InRound, nodeVars, taskVars, connVars, registryVars, historyVars
<1>3. CASE CheckLastSeen
  <2>1. cancelled' \in BOOLEAN
      BY <1>3 DEF CheckLastSeen, TypeInv, TypeOK
  <2> QED BY <1>3, <2>1 DEF CheckLastSeen, TypeInv, TypeOK, InRound, nodeVars, taskVars, connVars, registryVars, historyVars
<1>4. CASE Elapse
    BY <1>4 DEF Elapse, TypeInv, TypeOK, InRound, nodeVars, taskVars, connVars, registryVars, historyVars
<1> QED BY <1>1, <1>2, <1>3, <1>4

LEMMA NodeKeepsTypes ==
    ASSUME TypeInv, Produce \/ GoDown \/ ComeUp \/ Hang
    PROVE  TypeInv'
<1>1. CASE Produce
  <2>1. log \in Seq(Bodies) /\ Len(log) < MaxEvents
      BY <1>1 DEF Produce, TypeInv, TypeOK
  <2>2. log' \in Seq(Bodies) /\ Len(log') = Len(log) + 1
      BY <1>1, <2>1, AppendProperties DEF Produce
  <2>3. Len(log') <= MaxEvents /\ \A i \in EventIds : i < Len(log) => i < Len(log')
      BY <2>1, <2>2, Sizes DEF EventIds
  <2> QED BY <1>1, <2>2, <2>3 DEF Produce, TypeInv, TypeOK, InRound, connVars, restVars, taskVars, registryVars,
                                  monitorVars, historyVars
<1>2. CASE GoDown \/ ComeUp \/ Hang
  <2>1. changes' \in 0 .. MaxChanges /\ node' \in {"up", "hung", "down"} /\ metadata' \in Metadata
        /\ link' \in {"none", "open", "broken"}
      BY <1>2, Sizes DEF GoDown, ComeUp, Hang, Change, TypeInv, TypeOK, connVars
  <2>2. UNCHANGED <<log, connection, retry_count, pos, event, restVars>>
      BY <1>2 DEF GoDown, ComeUp, Hang, connVars
  <2> QED BY <2>1, <2>2 DEF TypeInv, TypeOK, InRound, restVars, taskVars, registryVars, monitorVars, historyVars
<1> QED BY <1>1, <1>2

LEMMA PipelineKeepsTypes ==
    ASSUME TypeInv, Consume \/ Close
    PROVE  TypeInv'
<1>1. inbound' \in 0 .. InboundSize
    BY Sizes DEF Consume, Close, TypeInv, TypeOK
<1>2. open' \in BOOLEAN
    BY DEF Consume, Close, TypeInv, TypeOK
<1> QED BY <1>1, <1>2 DEF Consume, Close, TypeInv, TypeOK, InRound, nodeVars, taskVars, connVars, registryVars,
                          monitorVars, historyVars

LEMMA TypeInvInit ==
    Init => TypeInv
<1> SUFFICES ASSUME Init PROVE TypeInv
    OBVIOUS
<1>1. /\ changes \in 0 .. MaxChanges /\ current_attempt \in 1 .. MaxAttempts + 1 /\ current_attempt <= MaxAttempts
      /\ retry_count \in 0 .. MaxAttempts /\ pos \in 0 .. MaxEvents /\ inbound \in 0 .. InboundSize
      /\ ticks \in 0 .. TickQueueSize
    BY Sizes DEF Init
<1>2. /\ log \in Seq(Bodies) /\ Len(log) <= MaxEvents
      /\ seen \in Seq(EventIds) /\ Len(seen) <= RegistrySize
  <2>1. log = <<>> /\ seen = <<>>
      BY DEF Init
  <2>2. Len(log) = 0 /\ Len(seen) = 0 /\ log \in Seq(Bodies) /\ seen \in Seq(EventIds)
      BY <2>1
  <2> QED BY <2>2, Sizes
<1>3. TypeOK
    BY <1>1, <1>2 DEF Init, TypeOK
<1>4. InRound
    BY <1>1 DEF Init, InRound
<1> QED BY <1>3, <1>4 DEF TypeInv

LEMMA TypeInvStep ==
    TypeInv /\ [Next]_vars => TypeInv'
<1> SUFFICES ASSUME TypeInv, [Next]_vars PROVE TypeInv'
    OBVIOUS
<1>1. CASE UNCHANGED vars
    BY <1>1 DEF vars, TypeInv, TypeOK, InRound, nodeVars, taskVars, connVars, registryVars, monitorVars, historyVars
<1> QED BY <1>1, TaskKeepsTypes, ConnectKeepsTypes, ReadKeepsTypes, HandleKeepsTypes, MonitorKeepsTypes,
           NodeKeepsTypes, PipelineKeepsTypes DEF Next, Connection

\* Every variable keeps its type: the counters of attempts and retries stay within
\* their bounds, and no channel exceeds its capacity.
THEOREM TypeCorrect ==
    Spec => []TypeOK
<1>1. TypeInv => TypeOK
    BY DEF TypeInv
<1> QED BY <1>1, TypeInvInit, TypeInvStep, PTL DEF Spec

-----------------------------------------------------------------------------
\* No event is skipped.

\* Steps that send nothing and move no id.
LEMMA IdsUntouched ==
    ASSUME GapInv, UNCHANGED <<registryVars, delivered, lost, pos, event>>,
           \/ connection' = connection
           \/ {connection, connection'} \subseteq {"connecting", "first", "announcing", "reading"}
           \/ {connection, connection'} \subseteq {"reporting", "handling"}
           \/ connection' = "none"
    PROVE  StartsHandled' /\ NoGap'
BY DEF GapInv, StartsHandled, NoGap, Handled, registryVars

LEMMA EndKeepsIds ==
    ASSUME GapInv, ConnectionEnds, UNCHANGED <<registryVars, delivered, lost>>
    PROVE  StartsHandled' /\ NoGap'
BY DEF GapInv, ConnectionEnds, StartsHandled, NoGap, Handled, registryVars

LEMMA GapInvStep ==
    GapInv /\ [Next]_vars => GapInv'
<1> SUFFICES ASSUME GapInv, [Next]_vars PROVE StartsHandled' /\ NoGap'
    BY TypeInvStep DEF GapInv
<1>0. TypeInv /\ TypeOK /\ pos \in 0 .. MaxEvents /\ Len(seen) \in Nat
    BY DEF GapInv, TypeInv, TypeOK
<1>1. CASE FetchMetadata \/ FetchFails \/ ReadVersion \/ AnnounceVersion \/ ReadComment
            \/ ObserveTick \/ CheckLastSeen \/ Elapse \/ Produce \/ GoDown \/ ComeUp \/ Hang \/ Consume \/ Close
            \/ UNCHANGED vars
    BY <1>1, IdsUntouched DEF FetchMetadata, FetchFails, ReadVersion, AnnounceVersion, ReadComment, ObserveTick,
          CheckLastSeen, Elapse, Produce, GoDown, ComeUp, Hang, Consume, Close, vars, nodeVars, taskVars, connVars,
          registryVars, monitorVars, historyVars, restVars
<1>2. CASE StartConnections
  <2>1. Handled(pos)'
    <3>1. Handled(pos') /\ UNCHANGED <<delivered, lost>>
        BY <1>2 DEF StartConnections, StartFrom, GapInv, StartsHandled, Handled, historyVars
    <3> QED BY <3>1 DEF Handled
  <2> QED BY <1>2, <2>1 DEF StartConnections, GapInv, StartsHandled, NoGap, Handled, registryVars, historyVars
<1>3. CASE Connect
  <2>1. Oldest \in 0 .. MaxEvents /\ pos' = (IF pos < Oldest THEN Oldest ELSE pos) /\ lost' = lost \cup pos .. Oldest - 1
        /\ connection = "connecting" /\ connection' = "first" /\ UNCHANGED <<seen, last_event_id, delivered>>
      BY <1>0, <1>3, ConnectStart DEF Connect, registryVars
  <2> HIDE DEF Oldest
  <2>2. Handled(pos)
      BY <2>1 DEF GapInv, StartsHandled
  <2>3. \A j \in 0 .. pos' - 1 : j \in delivered' \cup lost'
      BY <1>0, <2>1, <2>2, Sizes DEF Handled
  <2>4. \A n : Handled(n) => Handled(n)'
      BY <2>1 DEF Handled
  <2> QED BY <2>1, <2>3 DEF GapInv, StartsHandled, NoGap, Handled
<1>4. CASE ReadEvent
  <2>1. Handled(pos) /\ event' = pos /\ connection' = "reporting" /\ UNCHANGED <<seen, last_event_id, delivered, lost>>
      BY <1>4 DEF ReadEvent, GapInv, StartsHandled, registryVars, historyVars
  <2> QED BY <2>1 DEF GapInv, StartsHandled, NoGap, Handled
<1>5. CASE ReportId
  <2>1. /\ Handled(event) /\ seen' = Append(seen, event) /\ connection' = "handling"
        /\ UNCHANGED <<event, last_event_id, delivered, lost>>
      BY <1>5 DEF ReportId, GapInv, StartsHandled, historyVars
  <2>2. seen \in Seq(EventIds) /\ event \in EventIds
      BY <1>0, <1>5 DEF ReportId, TypeInv, TypeOK, InRound
  <2>3. /\ Len(seen') = Len(seen) + 1 /\ seen'[Len(seen) + 1] = event
        /\ \A k \in 1 .. Len(seen) : seen'[k] = seen[k]
      BY <2>1, <2>2, AppendProperties
  <2>4. \A k \in 1 .. Len(seen') : Handled(seen'[k])
    <3> SUFFICES ASSUME NEW k \in 1 .. Len(seen') PROVE Handled(seen'[k])
        OBVIOUS
    <3>1. k \in 1 .. Len(seen) \/ k = Len(seen) + 1
        BY <1>0, <2>3
    <3> QED BY <2>1, <2>3, <3>1 DEF GapInv, StartsHandled
  <2> QED BY <2>1, <2>4 DEF GapInv, StartsHandled, NoGap, Handled
<1>6. CASE HandleEvent /\ delivered' = delivered \cup {event} /\ connection' = "reading" /\ UNCHANGED <<pos, lost>>
  <2>1. event \in EventIds /\ pos = event + 1 /\ Handled(event) /\ UNCHANGED <<seen, last_event_id>>
      BY <1>6 DEF HandleEvent, GapInv, TypeInv, InRound, StartsHandled, registryVars
  <2>2. \A j \in 0 .. pos - 1 : j \in delivered' \cup lost
      BY <1>6, <2>1, Sizes DEF Handled, EventIds
  <2>3. NoGap'
      BY <1>6, <2>1 DEF GapInv, NoGap, Handled
  <2> QED BY <1>6, <2>1, <2>2, <2>3 DEF GapInv, StartsHandled, Handled
<1>7. CASE (ConnectFails \/ HandleEvent \/ SendFails \/ StreamEnds) /\ ConnectionEnds /\ UNCHANGED <<delivered, lost>>
    BY <1>7, EndKeepsIds DEF ConnectFails, HandleEvent, SendFails, StreamEnds
<1>8. CASE ConnectFails /\ UNCHANGED <<connection, pos, event>>
    BY <1>8, IdsUntouched DEF ConnectFails, historyVars
<1>9. CASE Register
  <2>1. seen \in Seq(EventIds) /\ seen # <<>>
      BY <1>9 DEF Register, GapInv, TypeInv, TypeOK
  <2>2. /\ last_event_id' = seen[1] /\ 1 \in 1 .. Len(seen) /\ Len(seen') = Len(seen) - 1
        /\ \A k \in 1 .. Len(seen') : seen'[k] = seen[k + 1]
        /\ UNCHANGED <<connection, pos, event, delivered, lost>>
      BY <1>9, <2>1, HeadTailProperties, EmptySeq DEF Register, connVars, historyVars
  <2>3. \A k \in 1 .. Len(seen') : k + 1 \in 1 .. Len(seen)
      BY <1>0, <2>2
  <2> QED BY <2>2, <2>3 DEF GapInv, StartsHandled, NoGap, Handled
<1> QED BY <1>1, <1>2, <1>3, <1>4, <1>5, <1>6, <1>7, <1>8, <1>9
        DEF Next, Task, Connection, ConnectFails, HandleEvent, SendFails, StreamEnds, historyVars

\* No event is skipped: one is sent to the pipeline only after all the earlier ones
\* that the node still had, for any number of reconnects, any size of the registry's
\* channel and any delay of the registry.
THEOREM NeverGap ==
    Spec => []NoGap
<1>1. Init => GapInv
  <2> SUFFICES ASSUME Init PROVE StartsHandled /\ NoGap
      BY TypeInvInit DEF GapInv
  <2>1. last_event_id = -1 /\ Len(seen) = 0 /\ connection = "none" /\ delivered = {}
      BY DEF Init, NoId
  <2>2. Handled(last_event_id)
      BY <2>1 DEF Handled
  <2> QED BY <2>1, <2>2 DEF StartsHandled, NoGap
<1>2. GapInv => NoGap
    BY DEF GapInv
<1> QED BY <1>1, <1>2, GapInvStep, PTL DEF Spec

-----------------------------------------------------------------------------
\* The attempts run out.

\* The rest of a round of the loop.
RoundRank(stage) ==
    CASE stage = "fetching" -> 3
      [] stage = "building" -> 2
      [] stage = "waiting" -> 1
      [] OTHER -> 0

\* The loop goes on in its round, or to a higher attempt, or starts counting again.
RoundGoesOn ==
    \/ UNCHANGED taskVars
    \/ UNCHANGED <<current_attempt, node_metadata>> /\ RoundRank(listener') < RoundRank(listener)
    \/ current_attempt' = current_attempt + 1 /\ current_attempt' <= MaxAttempts + 1 /\ UNCHANGED node_metadata
    \/ current_attempt' = 1 /\ node = "up" /\ node_metadata' = metadata /\ metadata # node_metadata

\* The loop of the listener only goes on in its round or to a higher attempt, of which
\* there are MaxAttempts; it starts counting again only when the node answers with
\* another version or network than before.  A listener that has ended stays so, and
\* sends nothing to the pipeline.  AbsentNodeEndsListener rests on it.
AttemptsRunOut ==
    [][RoundGoesOn /\ (Ended => UNCHANGED <<listener, connection, delivered, lost>>)]_vars

LEMMA RoundsCounted ==
    ASSUME TypeInv, Next
    PROVE  RoundGoesOn
<1>1. ASSUME NextAttempt, listener \in {"fetching", "waiting"}, UNCHANGED node_metadata PROVE RoundGoesOn
    <2>1. current_attempt \in 1 .. MaxAttempts
        BY <1>1, Sizes DEF TypeInv, TypeOK, InRound
    <2> QED BY <1>1, <2>1, Sizes DEF NextAttempt, RoundGoesOn
<1>2. CASE FetchMetadata
    BY <1>2 DEF FetchMetadata, RoundGoesOn, RoundRank
<1>3. CASE FetchFails
    BY <1>1, <1>3 DEF FetchFails
<1>4. CASE StartConnections
    BY <1>4 DEF StartConnections, RoundGoesOn, RoundRank
<1>5. ASSUME ConnectionEnds, connection # "none" PROVE RoundGoesOn
    BY <1>1, <1>5 DEF ConnectionEnds, TypeInv, InRound
<1>6. CASE ConnectFails \/ HandleEvent \/ SendFails \/ StreamEnds
    <2>1. connection # "none" /\ (ConnectionEnds \/ UNCHANGED taskVars)
        BY <1>6 DEF ConnectFails, HandleEvent, SendFails, StreamEnds
    <2> QED BY <1>5, <2>1 DEF RoundGoesOn
<1>7. CASE UNCHANGED taskVars
    BY <1>7 DEF RoundGoesOn
<1>8. \/ FetchMetadata \/ FetchFails \/ StartConnections \/ ConnectFails \/ HandleEvent \/ SendFails \/ StreamEnds
      \/ UNCHANGED taskVars
    BY DEF Next, Task, Connection, Connect, ReadVersion, AnnounceVersion, ReadEvent, ReportId, ReadComment, Register,
           ObserveTick, CheckLastSeen, Elapse, Produce, GoDown, ComeUp, Hang, Consume, Close, restVars
<1> QED BY <1>2, <1>3, <1>4, <1>6, <1>7, <1>8

LEMMA EndIsFinal ==
    ASSUME TypeInv, Ended, Next
    PROVE  UNCHANGED <<listener, connection, delivered, lost>>
<1>1. listener \notin {"fetching", "building", "waiting"} /\ connection = "none"
    BY DEF Ended, TypeInv, InRound
<1>2. ~Task /\ ~Connection
    BY <1>1 DEF Task, FetchMetadata, FetchFails, StartConnections, Connection, Connect, ConnectFails, ReadVersion,
                AnnounceVersion, ReadEvent, ReportId, HandleEvent, SendFails, StreamEnds
<1> QED BY <1>2 DEF Next, ReadComment, Register, ObserveTick, CheckLastSeen, Elapse, Produce, GoDown, ComeUp, Hang,
                Consume, Close, restVars, taskVars, connVars, historyVars

\* A listener cannot try for ever without an answer of its node that is new to it, and
\* its end is final, for every number of attempts.
THEOREM AttemptsAreCounted ==
    Spec => AttemptsRunOut
<1>1. TypeInv /\ [Next]_vars =>
        [RoundGoesOn /\ (Ended => UNCHANGED <<listener, connection, delivered, lost>>)]_vars
    BY RoundsCounted, EndIsFinal
<1> QED BY <1>1, TypeInvInit, TypeInvStep, PTL DEF Spec, AttemptsRunOut
=============================================================================
