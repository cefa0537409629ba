-------------------------- MODULE EventStreamProofs --------------------------
(***************************************************************************)
(* What holds of the event stream for every number of clients and events,  *)
(* every buffer length and every id space at least twice as large.         *)
(***************************************************************************)
EXTENDS EventStream, TLAPS, FiniteSetTheorems, SequenceTheorems, WellFoundedInduction

-----------------------------------------------------------------------------
\* Facts about numbers and sequences.

\* Every nonempty set of naturals has a least element: where skip_while stops.
LEMMA LeastExists ==
    ASSUME NEW T \in SUBSET Nat, T # {}
    PROVE  \E x \in T : \A y \in T : x <= y
<1> DEFINE R == {ss \in Nat \X Nat : ss[1] < ss[2]}
<1>1. IsWellFoundedOn(R, Nat)
    BY NatLessThanWellFounded DEF OpToRel
<1>2. PICK x \in T : \A y \in T : ~(<<y, x>> \in R)
    BY <1>1, WFMin
<1>3. ASSUME NEW y \in T PROVE x <= y
  <2>1. <<y, x>> \in Nat \X Nat /\ <<y, x>>[1] = y /\ <<y, x>>[2] = x
      OBVIOUS
  <2>2. ~(y < x)
      BY <1>2, <2>1
  <2> QED BY <2>2
<1> QED BY <1>3

Entries == [ver : Nat, event : Events]

\* skip_while stops somewhere, at most one past the end of the buffer.
LEMMA FirstReplayedSpec ==
    ASSUME NEW buf \in Seq(Entries), NEW start
    PROVE  /\ FirstReplayed(buf, start) \in 1 .. Len(buf) + 1
           /\ \A j \in 1 .. FirstReplayed(buf, start) - 1 : IsBefore(buf, buf[j].event.id, start)
           /\ FirstReplayed(buf, start) <= Len(buf)
                => ~IsBefore(buf, buf[FirstReplayed(buf, start)].event.id, start)
<1> DEFINE Stop(i) == i <= Len(buf) => ~IsBefore(buf, buf[i].event.id, start)
           T == {i \in 1 .. Len(buf) + 1 : Stop(i)}
<1>0. Len(buf) \in Nat
    OBVIOUS
<1>1. Len(buf) + 1 \in T
    BY <1>0
<1>2. PICK x \in T : \A y \in T : x <= y
  <2> HIDE DEF Stop
  <2>1. T \in SUBSET Nat
      BY <1>0
  <2> QED BY <1>1, <2>1, LeastExists
<1>3. ASSUME NEW j \in 1 .. x - 1 PROVE IsBefore(buf, buf[j].event.id, start)
    BY <1>0, <1>2
<1>4. x \in 1 .. Len(buf) + 1 /\ Stop(x)
    BY <1>2
<1> QED BY <1>3, <1>4 DEF FirstReplayed

\* Whatever a subscriber is sent first are nonempty groups of events.
LEMMA ReplayType ==
    ASSUME NEW buf \in Seq(Entries), NEW start
    PROVE  Replay(buf, start) \in Seq(Entries)
<1>1. CASE start = NoId
    BY <1>1 DEF Replay
<1>2. CASE start # NoId
  <2> DEFINE n == FirstReplayed(buf, start)
  <2>1. n \in 1 .. Len(buf) + 1
      BY FirstReplayedSpec
  <2> HIDE DEF n
  <2>2. SubSeq(buf, n, Len(buf)) \in Seq(Entries)
      BY <2>1, SubSeqProperties
  <2> QED BY <1>2, <2>2 DEF Replay, n
<1> QED BY <1>1, <1>2

Groups == Seq(Events) \ {<<>>}

LEMMA InitialEventType ==
    ASSUME NEW v \in Nat
    PROVE  InitialEvent(v) \in Events /\ LegacyCommentEvent \in Events
BY DEF InitialEvent, LegacyCommentEvent, Events, NoId, NoVersion

LEMMA InitialEventsType ==
    ASSUME NEW entries \in Seq(Entries), NEW version \in Nat
    PROVE  InitialEvents(entries, version) \in Seq(Groups)
<1> DEFINE A == IF EnableLegacy THEN <<<<LegacyCommentEvent>>>> ELSE <<>>
           B == [i \in 1 .. Len(entries) |-> SentFor(entries, i)]
           C == SendApiVersionIfNecessary(entries, version)
<1>1. A \in Seq(Groups)
  <2>1. <<LegacyCommentEvent>> \in Groups
      BY InitialEventType DEF Groups
  <2> QED BY <2>1
<1>2. B \in Seq(Groups)
  <2>1. ASSUME NEW i \in 1 .. Len(entries) PROVE SentFor(entries, i) \in Groups
    <3>1. entries[i] \in Entries
        BY ElementOfSeq
    <3>2. entries[i].event \in Events /\ entries[i].ver \in Nat
        BY <3>1 DEF Entries
    <3>3. InitialEvent(entries[i].ver) \in Events
        BY <3>2, InitialEventType
    <3>4. <<InitialEvent(entries[i].ver), entries[i].event>> \in Groups /\ <<entries[i].event>> \in Groups
        BY <3>2, <3>3 DEF Groups
    <3> QED BY <3>4 DEF SentFor
  <2>2. Len(entries) \in Nat
      OBVIOUS
  <2> QED BY <2>1, <2>2, IsASeq
<1>3. C \in Seq(Groups)
  <2>1. <<InitialEvent(version)>> \in Groups
      BY InitialEventType DEF Groups
  <2> QED BY <2>1 DEF SendApiVersionIfNecessary
<1>4. InitialEvents(entries, version) = (A \o B) \o C
    BY DEF InitialEvents
<1> HIDE DEF A, B, C
<1> QED BY <1>1, <1>2, <1>3, <1>4, ConcatProperties


-----------------------------------------------------------------------------
\* Type correctness.

LEMMA PayloadType ==
    ASSUME NEW p, p \in Payloads \/ p = [kind |-> "Shutdown", legacy |-> FALSE]
    PROVE  p.kind \in DataKinds \cup {"Shutdown"} /\ p.legacy \in BOOLEAN
<1>1. CASE p \in Payloads
  <2>1. p \in [kind : DataKinds \cup {"Shutdown"}, legacy : BOOLEAN]
      BY <1>1, ConstantsAssumption
  <2> QED BY <2>1
<1>2. CASE p = [kind |-> "Shutdown", legacy |-> FALSE]
    BY <1>2
<1> QED BY <1>1, <1>2

LEMMA BroadcastType ==
    ASSUME TypeOK, NEW p, p.kind \in DataKinds \cup {"Shutdown"}, p.legacy \in BOOLEAN,
           NEW inbound \in BOOLEAN, Broadcast(p, inbound)
    PROVE  TypeOK'
<1> DEFINE e == [serial |-> Len(published) + 1, id |-> index, kind |-> p.kind,
                 legacy |-> p.legacy, inbound |-> inbound, ver |-> NoVersion]
<1>1. e \in Events
    BY DEF TypeOK, Events, NoVersion
<1>2. published' = Append(published, e)
    BY DEF Broadcast
<1> HIDE DEF e
<1>3. published' \in Seq(Events) /\ Len(published') = Len(published) + 1
    BY <1>1, <1>2 DEF TypeOK
<1>4. index' \in Ids
    BY ConstantsAssumption DEF Broadcast, NextIndex, TypeOK, Ids
<1> QED BY <1>3, <1>4 DEF TypeOK, Broadcast, clientVars, history

LEMMA BroadcastApiVersionType ==
    ASSUME TypeOK, NEW v \in Versions, BroadcastApiVersion(v)
    PROVE  TypeOK'
<1> DEFINE e == [serial |-> Len(published) + 1, id |-> NoId, kind |-> "ApiVersion",
                 legacy |-> TRUE, inbound |-> TRUE, ver |-> v]
<1>1. e \in Events
    BY ConstantsAssumption DEF TypeOK, Events
<1>2. published' = Append(published, e)
    BY DEF BroadcastApiVersion
<1> HIDE DEF e
<1>3. published' \in Seq(Events) /\ Len(published') = Len(published) + 1
    BY <1>1, <1>2 DEF TypeOK
<1> QED BY <1>3 DEF TypeOK, BroadcastApiVersion, clientVars, history

LEMMA ProducerType ==
    ASSUME TypeOK, Producer
    PROVE  TypeOK'
<1>1. ASSUME NEW v \in Versions, BroadcastApiVersion(v) PROVE TypeOK'
    BY <1>1, BroadcastApiVersionType
<1>2. ASSUME NEW p \in Payloads, Broadcast(p, TRUE) PROVE TypeOK'
    BY <1>2, PayloadType, BroadcastType
<1>3. CASE Broadcast([kind |-> "Shutdown", legacy |-> FALSE], FALSE)
    BY <1>3, PayloadType, BroadcastType
<1>4. CASE DropServer
    BY <1>4 DEF DropServer, TypeOK, clientVars, history
<1> QED BY <1>1, <1>2, <1>3, <1>4 DEF Producer

\* A push keeps the length of the buffer and the newest entry comes last.
LEMMA PushType ==
    ASSUME TypeOK, NEW x \in Entries
    PROVE  Push(x) \in Seq(Entries) /\ Len(Push(x)) <= BufferLen
<1>0. buffer \in Seq(Entries) /\ Len(buffer) <= BufferLen /\ BufferLen \in Nat \ {0}
    BY ConstantsAssumption DEF TypeOK, Entries
<1>1. CASE Len(buffer) = BufferLen
  <2>1. buffer # <<>>
      BY <1>0, <1>1
  <2>2. Tail(buffer) \in Seq(Entries) /\ Len(Tail(buffer)) = Len(buffer) - 1
      BY <1>0, <2>1, HeadTailProperties
  <2> QED BY <1>0, <1>1, <2>2, AppendProperties DEF Push
<1>2. CASE Len(buffer) # BufferLen
    BY <1>0, <1>2, AppendProperties DEF Push
<1> QED BY <1>1, <1>2

LEMMA ServerTaskType ==
    ASSUME TypeOK, ServerTask
    PROVE  TypeOK'
<1>0. buffer \in Seq(Entries) /\ latest \in Nat /\ published \in Seq(Events)
    BY DEF TypeOK, Entries
<1>1. CASE HandleIncomingData
  <2> DEFINE e == published[handled + 1]
             x == [ver |-> latest, event |-> e]
  <2>1. e \in Events
      BY <1>1 DEF HandleIncomingData, TypeOK
  <2>2. x \in Entries
      BY <1>0, <2>1 DEF Entries
  <2>3. buffer' = buffer \/ buffer' = Push(x)
      BY <1>1 DEF HandleIncomingData
  <2>4. latest' \in Nat
      BY <1>0, <1>1, <2>1 DEF HandleIncomingData, Events
  <2> HIDE DEF x, e
  <2>5. buffer' \in Seq(Entries) /\ Len(buffer') <= BufferLen
      BY <1>0, <2>2, <2>3, PushType DEF TypeOK
  <2>6. handled' \in 0 .. Len(published)
      BY <1>1 DEF HandleIncomingData, TypeOK
  <2> QED BY <1>1, <2>4, <2>5, <2>6 DEF HandleIncomingData, TypeOK, Entries, clientVars, history
<1>2. CASE RegisterNewSubscriber
  <2> DEFINE c == Head(newcomers)
             entries == IF pc[c] = "closed" THEN <<>> ELSE Replay(buffer, request[c].start)
             first == IF pc[c] = "closed" THEN <<>> ELSE InitialEvents(entries, latest)
             serials == {entries[i].event.serial : i \in 1 .. Len(entries)}
  <2>1. c \in Clients /\ newcomers' \in Seq(Clients)
      BY <1>2 DEF RegisterNewSubscriber, TypeOK
  <2>2. entries \in Seq(Entries)
      BY <1>0, ReplayType
  <2>3. serials \in SUBSET Nat
    <3> HIDE DEF entries
    <3>1. ASSUME NEW i \in 1 .. Len(entries) PROVE entries[i].event.serial \in Nat
      <4>1. entries[i] \in Entries
          BY <2>2, ElementOfSeq
      <4>2. entries[i].event \in Events
          BY <4>1 DEF Entries
      <4> QED BY <4>2 DEF Events
    <3> QED BY <3>1
  <2>4. first \in Seq(Groups)
    <3> HIDE DEF entries
    <3> QED BY <1>0, <2>2, InitialEventsType
  <2>5. /\ initial' = [initial EXCEPT ![c] = first]
        /\ replayed' = [replayed EXCEPT ![c] = serials]
        /\ initialOpen' = [initialOpen EXCEPT ![c] = FALSE]
        /\ reg' = [reg EXCEPT ![c] = IF pc[c] = "closed" THEN NoId ELSE handled]
      BY <1>2 DEF RegisterNewSubscriber
  <2> HIDE DEF c, entries, first, serials
  <2>6. initial' \in [Clients -> Seq(Groups)]
      BY <2>1, <2>4, <2>5 DEF TypeOK, Groups
  <2>7. replayed' \in [Clients -> SUBSET Nat]
      BY <2>1, <2>3, <2>5 DEF TypeOK
  <2>8. reg' \in [Clients -> Nat \cup {NoId}] /\ initialOpen' \in [Clients -> BOOLEAN]
      BY <2>1, <2>5 DEF TypeOK
  <2> QED BY <1>2, <2>1, <2>6, <2>7, <2>8 DEF RegisterNewSubscriber, TypeOK, Groups, serverVars
<1>3. CASE BroadcastShutdown
    BY <1>3 DEF BroadcastShutdown, TypeOK, clientVars, history
<1>4. CASE ServerShutdown
  <2>1. initialOpen' \in [Clients -> BOOLEAN]
    <3>1. \A c \in Clients : (initialOpen[c] /\ \A i \in 1 .. Len(newcomers) : newcomers[i] # c)
                                \in BOOLEAN
        OBVIOUS
    <3> QED BY <1>4, <3>1, Zenon DEF ServerShutdown
  <2> QED BY <1>4, <2>1 DEF ServerShutdown, TypeOK, clientVars, history
<1> QED BY <1>1, <1>2, <1>3, <1>4 DEF ServerTask


LEMMA HandlerType ==
    ASSUME TypeOK, NEW c \in Clients, Handler(c)
    PROVE  TypeOK'
<1>1. ASSUME NEW r \in Requests, Validate(c, r) PROVE TypeOK'
  <2>1. r \in [start : Ids \cup {NoId}, endpoint : EndpointPaths]
      BY ConstantsAssumption DEF KnownEndpoints, EndpointPaths
  <2> QED BY <1>1, <2>1 DEF Validate, TypeOK, serverVars, history
<1>2. CASE SendSubscriberInfo(c)
  <2>1. newcomers' \in Seq(Clients)
      BY <1>2 DEF SendSubscriberInfo, TypeOK
  <2>2. (server # "stopped") \in BOOLEAN
      OBVIOUS
  <2>3. initialOpen' \in [Clients -> BOOLEAN]
      BY <1>2, <2>2 DEF SendSubscriberInfo, TypeOK
  <2> QED BY <1>2, <2>1, <2>3 DEF SendSubscriberInfo, TypeOK, serverVars, history
<1>3. CASE Subscribe(c)
  <2>1. LogLen + 1 \in Nat \ {0}
      BY DEF LogLen, TypeOK
  <2> QED BY <1>3, <2>1 DEF Subscribe, TypeOK, serverVars
<1> QED BY <1>1, <1>2, <1>3 DEF Handler

LEMMA WrittenType ==
    ASSUME TypeOK, NEW c \in Clients, NEW event \in Events
    PROVE  Written(c, event) \in Seq(Events)
BY DEF Written, TypeOK

LEMMA EndStreamType ==
    ASSUME TypeOK, NEW c \in Clients, EndStream(c)
    PROVE  TypeOK'
<1>1. <<>> \in Seq(Groups) /\ <<>> \in Seq(Events) /\ {} \in SUBSET Ids /\ {} \in SUBSET Nat
    OBVIOUS
<1> QED BY <1>1 DEF EndStream, TypeOK, serverVars, Groups

LEMMA StreamType ==
    ASSUME TypeOK, NEW c \in Clients, Stream(c)
    PROVE  TypeOK'
<1>1. CASE StreamInitial(c)
  <2> DEFINE q == initial[c]
             sent == Head(q)
             event == Head(sent)
             rest == IF Len(sent) = 1 THEN Tail(q) ELSE <<Tail(sent)>> \o Tail(q)
             ids == IF event.id = NoId THEN initialIds[c] ELSE initialIds[c] \cup {event.id}
  <2>1. q \in Seq(Groups) /\ q # <<>>
      BY <1>1 DEF StreamInitial, TypeOK, Groups
  <2>2. sent \in Groups /\ Tail(q) \in Seq(Groups)
    <3> HIDE DEF q
    <3> QED BY <2>1, HeadTailProperties
  <2>3. event \in Events /\ Tail(sent) \in Seq(Events) /\ Len(sent) \in Nat \ {0}
        /\ Len(Tail(sent)) = Len(sent) - 1
    <3> HIDE DEF sent
    <3>1. sent \in Seq(Events) /\ sent # <<>>
        BY <2>2 DEF Groups
    <3> QED BY <3>1, HeadTailProperties, EmptySeq
  <2>4. rest \in Seq(Groups)
    <3> HIDE DEF q, sent
    <3>1. CASE Len(sent) = 1
        BY <2>2, <3>1
    <3>2. CASE Len(sent) # 1
      <4>1. Tail(sent) \in Groups
          BY <2>3, <3>2 DEF Groups
      <4>2. <<Tail(sent)>> \in Seq(Groups)
          BY <4>1
      <4> QED BY <2>2, <3>2, <4>2, ConcatProperties
    <3> QED BY <3>1, <3>2
  <2>5. ids \in SUBSET Ids
    <3> HIDE DEF event
    <3> QED BY <2>3 DEF TypeOK, Events
  <2>6. Written(c, event) \in Seq(Events)
      BY <2>3, WrittenType
  <2>7. /\ initial' = [initial EXCEPT ![c] = rest]
        /\ initialIds' = [initialIds EXCEPT ![c] = ids]
        /\ delivered' = [delivered EXCEPT ![c] = Written(c, event)]
      BY <1>1 DEF StreamInitial
  <2> HIDE DEF q, sent, event, rest, ids
  <2>8. /\ initial' \in [Clients -> Seq(Groups)]
        /\ initialIds' \in [Clients -> SUBSET Ids]
        /\ delivered' \in [Clients -> Seq(Events)]
      BY <2>4, <2>5, <2>6, <2>7 DEF TypeOK, Groups
  <2> QED BY <1>1, <2>8 DEF StreamInitial, TypeOK, Groups, serverVars, history
<1>2. CASE StreamOngoing(c)
  <2> DEFINE event == published[pos[c]]
  <2>1. event \in Events
    <3>1. pos[c] \in Nat /\ pos[c] # 0
        BY <1>2 DEF StreamOngoing, TypeOK
    <3> QED BY <1>2, <3>1 DEF StreamOngoing, TypeOK
  <2>2. Written(c, event) \in Seq(Events)
      BY <2>1, WrittenType
  <2>3. delivered' = [delivered EXCEPT ![c] = delivered[c]]
        \/ delivered' = [delivered EXCEPT ![c] = Written(c, event)]
      BY <1>2 DEF StreamOngoing
  <2> HIDE DEF event
  <2>4. delivered' \in [Clients -> Seq(Events)]
      BY <2>2, <2>3 DEF TypeOK
  <2>5. pos' \in [Clients -> Nat \ {0}]
      BY <1>2 DEF StreamOngoing, TypeOK
  <2> QED BY <1>2, <2>4, <2>5 DEF StreamOngoing, TypeOK, serverVars, history
<1>3. CASE EndStream(c)
    BY <1>3, EndStreamType
<1> QED BY <1>1, <1>2, <1>3 DEF Stream, StreamShutdown, StreamLagged

LEMMA TypeStep ==
    ASSUME TypeOK, [Next]_vars
    PROVE  TypeOK'
<1>1. CASE Producer
    BY <1>1, ProducerType
<1>2. CASE ServerTask
    BY <1>2, ServerTaskType
<1>3. ASSUME NEW c \in Clients, Handler(c) \/ Stream(c) \/ Disconnect(c) PROVE TypeOK'
    BY <1>3, HandlerType, StreamType, EndStreamType DEF Disconnect
<1>4. CASE UNCHANGED vars
    BY <1>4 DEF TypeOK, vars, serverVars, clientVars, history
<1> QED BY <1>1, <1>2, <1>3, <1>4 DEF Next

LEMMA TypeInit == Init => TypeOK
<1> SUFFICES ASSUME Init PROVE TypeOK
    OBVIOUS
<1>1. <<>> \in Seq(Events) /\ <<>> \in Seq(Entries) /\ <<>> \in Seq(Groups) /\ <<>> \in Seq(Clients)
    OBVIOUS
<1>2. index \in Ids
    BY ConstantsAssumption DEF Init
<1> QED BY <1>1, <1>2, ConstantsAssumption DEF Init, TypeOK, Entries, Groups, NoVersion, EndpointPaths

\* Every variable of the event stream always has a value of its Rust type, the
\* ring buffer never exceeds its configured length, and no event index leaves
\* the id space when it wraps.
THEOREM TypeCorrect == Spec => []TypeOK
<1>1. Init => TypeOK
    BY TypeInit
<1>2. TypeOK /\ [Next]_vars => TypeOK'
    BY TypeStep
<1> QED BY <1>1, <1>2, PTL DEF Spec


-----------------------------------------------------------------------------
\* The limit on the number of subscribers.

\* A handler that has passed the check counts as a subscriber already.
LimitInv == Cardinality(Subscribed) + Cardinality(InHandler) <= MaxSubscribers + Workers - 1

\* The sets of clients that the limit is about are finite.
LEMMA ClientSetsFinite ==
    /\ IsFiniteSet(Subscribed) /\ Cardinality(Subscribed) \in Nat
    /\ IsFiniteSet(InHandler) /\ Cardinality(InHandler) \in Nat
<1>1. Subscribed \subseteq Clients /\ InHandler \subseteq Clients
    BY DEF Subscribed, InHandler
<1> QED BY <1>1, ConstantsAssumption, FS_Subset, FS_CardinalityType

\* A step that leaves every pc alone keeps both sets.
LEMMA SamePc ==
    ASSUME pc' = pc
    PROVE  Subscribed' = Subscribed /\ InHandler' = InHandler
BY DEF Subscribed, InHandler

LEMMA LimitStep ==
    ASSUME TypeOK, LimitInv, [Next]_vars
    PROVE  LimitInv'
<1>0. MaxSubscribers \in Nat \ {0} /\ Workers \in Nat \ {0}
    BY ConstantsAssumption
<1>1. CASE pc' = pc
    BY <1>1, SamePc DEF LimitInv
<1>2. ASSUME NEW c \in Clients, NEW r \in Requests, Validate(c, r) PROVE LimitInv'
  <2>1. c \notin InHandler /\ InHandler' = InHandler \cup {c} /\ Subscribed' = Subscribed
      BY <1>2 DEF Validate, InHandler, Subscribed, TypeOK
  <2>2. Cardinality(InHandler \cup {c}) = Cardinality(InHandler) + 1
      BY <2>1, ClientSetsFinite, FS_AddElement
  <2>3. Cardinality(Subscribed) < MaxSubscribers /\ Cardinality(InHandler) < Workers
      BY <1>2 DEF Validate
  <2> QED BY <1>0, <2>1, <2>2, <2>3, ClientSetsFinite DEF LimitInv
<1>3. ASSUME NEW c \in Clients, SendSubscriberInfo(c) PROVE LimitInv'
  <2>1. InHandler' = InHandler /\ Subscribed' = Subscribed
      BY <1>3 DEF SendSubscriberInfo, InHandler, Subscribed, TypeOK
  <2> QED BY <2>1 DEF LimitInv
<1>4. ASSUME NEW c \in Clients, Subscribe(c) PROVE LimitInv'
  <2>1. /\ c \in InHandler /\ InHandler' = InHandler \ {c}
        /\ c \notin Subscribed /\ Subscribed' = Subscribed \cup {c}
      BY <1>4 DEF Subscribe, InHandler, Subscribed, TypeOK
  <2>2. Cardinality(InHandler \ {c}) = Cardinality(InHandler) - 1
      BY <2>1, ClientSetsFinite, FS_RemoveElement
  <2>3. Cardinality(Subscribed \cup {c}) = Cardinality(Subscribed) + 1
      BY <2>1, ClientSetsFinite, FS_AddElement
  <2> QED BY <1>0, <2>1, <2>2, <2>3, ClientSetsFinite DEF LimitInv
<1>5. ASSUME NEW c \in Clients, EndStream(c) PROVE LimitInv'
  <2>1. c \in Subscribed /\ Subscribed' = Subscribed \ {c} /\ InHandler' = InHandler
      BY <1>5 DEF EndStream, InHandler, Subscribed, TypeOK
  <2>2. Cardinality(Subscribed \ {c}) = Cardinality(Subscribed) - 1
      BY <2>1, ClientSetsFinite, FS_RemoveElement
  <2> QED BY <1>0, <2>1, <2>2, ClientSetsFinite DEF LimitInv
<1>6. Producer \/ ServerTask \/ UNCHANGED vars => pc' = pc
    BY DEF Producer, BroadcastApiVersion, Broadcast, DropServer, ServerTask, HandleIncomingData,
           RegisterNewSubscriber, BroadcastShutdown, ServerShutdown, vars, clientVars
<1>7. ASSUME NEW c \in Clients, StreamInitial(c) \/ StreamOngoing(c) PROVE pc' = pc
    BY <1>7 DEF StreamInitial, StreamOngoing
<1> QED BY <1>1, <1>2, <1>3, <1>4, <1>5, <1>6, <1>7
        DEF Next, Handler, Stream, StreamShutdown, StreamLagged, Disconnect

\* The number of subscribers exceeds max_concurrent_subscribers by less than the
\* number of worker threads, whatever the interleaving of the handlers.
THEOREM SubscribersBounded == Spec => []OvershootBounded
<1>1. Init => TypeOK /\ LimitInv
  <2>1. ASSUME Init PROVE LimitInv
    <3>1. Subscribed = {} /\ InHandler = {}
        BY <2>1 DEF Init, Subscribed, InHandler
    <3>2. Cardinality({}) = 0
        BY FS_EmptySet
    <3> QED BY <3>1, <3>2, ConstantsAssumption DEF LimitInv
  <2> QED BY <2>1, TypeInit
<1>2. TypeOK /\ LimitInv /\ [Next]_vars => (TypeOK /\ LimitInv)'
    BY TypeStep, LimitStep
<1>3. LimitInv => OvershootBounded
    BY ClientSetsFinite, ConstantsAssumption DEF LimitInv, OvershootBounded
<1> QED BY <1>1, <1>2, <1>3, PTL DEF Spec


-----------------------------------------------------------------------------
\* The ring buffer.

\* Publishing leaves alone what is said of the positions up to `handled`.
LEMMA WindowPublish ==
    ASSUME WindowInv, TypeOK', NEW e \in Events,
           published' = Append(published, e),
           e.serial = Len(published) + 1,
           UNCHANGED <<handled, latest, buffer>>,
           \/ e.kind = "ApiVersion" /\ e.ver # NoVersion /\ index' = index
           \/ IsData(e) /\ e.id = index /\ index' = Following(index)
    PROVE  WindowInv'
<1> DEFINE n == Len(published)
<1>1. /\ n \in Nat /\ Len(published') = n + 1 /\ handled \in 0 .. n
      /\ published'[n + 1] = e
      /\ \A k \in 1 .. n : published'[k] = published[k]
    BY DEF WindowInv, TypeOK
<1>2. PublishedNumbered'
  <2>1. ASSUME NEW i \in 1 .. n + 1
        PROVE  /\ published'[i].serial = i /\ published'[i].kind # "Comment"
               /\ IsData(published'[i]) => published'[i].id \in Ids
               /\ published'[i].kind = "ApiVersion" => published'[i].ver # NoVersion
    <3>1. CASE i \in 1 .. n
        BY <1>1, <3>1 DEF WindowInv, PublishedNumbered
    <3>2. CASE i = n + 1
      <4>1. index \in Ids
          BY DEF WindowInv, TypeOK
      <4> QED BY <1>1, <3>2, <4>1 DEF IsData
    <3> QED BY <1>1, <3>1, <3>2
  <2> QED BY <1>1, <2>1 DEF PublishedNumbered, IsData
<1>3. \A i \in Int : \A j \in Int : j <= n + 1 => (NoDataBetween(i, j)' <=> NoDataBetween(i, j))
    BY <1>1 DEF NoDataBetween
<1>4. \A v : \A i \in 1 .. n + 1 : InForce(v, i) => InForce(v, i)'
    BY <1>1 DEF InForce
<1>5. IdsFollow'
  <2>1. ASSUME NEW i \in 1 .. n + 1, NEW j \in 1 .. n + 1, i < j,
               IsData(published'[i]), IsData(published'[j]), NoDataBetween(i, j)'
        PROVE  published'[j].id = Following(published'[i].id)
    <3>1. CASE j \in 1 .. n
        BY <1>1, <1>3, <2>1, <3>1 DEF WindowInv, IdsFollow
    <3>2. CASE j = n + 1
      <4>1. NoDataBetween(i, n + 1) /\ i \in 1 .. n /\ IsData(published[i])
          BY <1>1, <1>3, <2>1, <3>2
      <4>2. index = Following(published[i].id)
          BY <4>1 DEF WindowInv, IdsFollow
      <4>3. e.id = index
          BY <1>1, <2>1, <3>2 DEF IsData
      <4> QED BY <1>1, <3>2, <4>1, <4>2, <4>3
    <3> QED BY <1>1, <3>1, <3>2
  <2>2. ASSUME NEW i \in 1 .. n + 1, IsData(published'[i]), NoDataBetween(i, Len(published) + 1)'
        PROVE  index' = Following(published'[i].id)
    <3>1. CASE i = n + 1
        BY <1>1, <2>2, <3>1 DEF IsData
    <3>2. CASE i \in 1 .. n
      <4>1. ~IsData(e)
          BY <1>1, <2>2, <3>2 DEF NoDataBetween
      <4>2. NoDataBetween(i, n + 1)
          BY <1>1, <2>2, <3>2 DEF NoDataBetween
      <4> QED BY <1>1, <2>2, <3>2, <4>1, <4>2 DEF WindowInv, IdsFollow, IsData
    <3> QED BY <1>1, <3>1, <3>2
  <2> QED BY <1>1, <2>1, <2>2 DEF IdsFollow, IsData
<1>6. LatestInForce'
    BY <1>1, <1>4 DEF WindowInv, LatestInForce
<1>7. BufferIsWindow'
  <2>1. \A k \in 1 .. Len(buffer) : buffer[k].event.serial \in 1 .. handled
      BY DEF WindowInv, BufferIsWindow
  <2>2. buffer # <<>> => Len(buffer) \in 1 .. Len(buffer)
      BY DEF WindowInv, TypeOK
  <2>3. Len(buffer) \in Nat
      BY DEF WindowInv, TypeOK
  <2>4. ASSUME NEW k \in 1 .. Len(buffer)
        PROVE  /\ published'[buffer[k].event.serial] = buffer[k].event
               /\ IsData(buffer[k].event)
               /\ InForce(buffer[k].ver, buffer[k].event.serial)'
    <3>1. /\ published[buffer[k].event.serial] = buffer[k].event /\ IsData(buffer[k].event)
          /\ InForce(buffer[k].ver, buffer[k].event.serial)
        BY <2>4 DEF WindowInv, BufferIsWindow
    <3>2. buffer[k].event.serial \in 1 .. n
        BY <1>1, <2>1, <2>4
    <3>3. PICK j \in 1 .. n :
               /\ j < buffer[k].event.serial
               /\ published[j].kind = "ApiVersion" /\ published[j].ver = buffer[k].ver
               /\ \A l \in 1 .. n : j < l /\ l < buffer[k].event.serial => IsData(published[l])
        BY <3>1 DEF InForce
    <3>4. \A l \in 1 .. n + 1 :
              j < l /\ l < buffer[k].event.serial => IsData(published'[l])
        BY <1>1, <3>2, <3>3
    <3>5. /\ j \in 1 .. Len(published') /\ published'[j] = published[j]
          /\ buffer' = buffer /\ 1 .. Len(published') = 1 .. n + 1
        BY <1>1
    <3>6. InForce(buffer[k].ver, buffer[k].event.serial)'
        BY <3>3, <3>4, <3>5, Zenon DEF InForce, IsData
    <3> QED BY <1>1, <3>1, <3>2, <3>6
  <2>5. ASSUME NEW k \in 1 .. Len(buffer) - 1
        PROVE  /\ buffer[k].event.serial < buffer[k + 1].event.serial
               /\ NoDataBetween(buffer[k].event.serial, buffer[k + 1].event.serial)'
    <3>1. /\ buffer[k].event.serial < buffer[k + 1].event.serial
          /\ NoDataBetween(buffer[k].event.serial, buffer[k + 1].event.serial)
        BY <2>5 DEF WindowInv, BufferIsWindow
    <3>2. buffer[k].event.serial \in 1 .. n /\ buffer[k + 1].event.serial \in 1 .. n
        BY <1>1, <2>1, <2>3, <2>5
    <3>3. NoDataBetween(buffer[k].event.serial, buffer[k + 1].event.serial)'
        BY <1>1, <3>1, <3>2 DEF NoDataBetween
    <3> QED BY <3>1, <3>3
  <2>6. ASSUME buffer # <<>>
        PROVE  NoDataBetween(buffer[Len(buffer)].event.serial, handled + 1)'
    <3>1. NoDataBetween(buffer[Len(buffer)].event.serial, handled + 1)
        BY <2>6 DEF WindowInv, BufferIsWindow
    <3>2. buffer[Len(buffer)].event.serial \in 1 .. handled
        BY <2>1, <2>2, <2>6
    <3> QED BY <1>1, <3>1, <3>2 DEF NoDataBetween
  <2>7. buffer' = buffer /\ handled' = handled
      OBVIOUS
  <2> QED BY <2>1, <2>4, <2>5, <2>6, <2>7 DEF BufferIsWindow, IsData
<1> QED BY <1>2, <1>5, <1>6, <1>7 DEF WindowInv

\* The entries of the buffer after a push.
LEMMA PushSpec ==
    ASSUME TypeOK, NEW x \in Entries
    PROVE  \E d \in {0, 1} :
               /\ Len(Push(x)) = Len(buffer) + 1 - d
               /\ Len(Push(x)) # 0
               /\ Push(x)[Len(Push(x))] = x
               /\ \A k \in 1 .. Len(Push(x)) - 1 :
                      k + d \in 1 .. Len(buffer) /\ Push(x)[k] = buffer[k + d]
               /\ Len(Push(x)) > 1 => Len(Push(x)) - 1 + d = Len(buffer)
<1>0. buffer \in Seq(Entries) /\ Len(buffer) \in Nat /\ BufferLen \in Nat \ {0}
    BY ConstantsAssumption DEF TypeOK, Entries
<1>1. CASE Len(buffer) = BufferLen
  <2>1. buffer # <<>> /\ Tail(buffer) \in Seq(Entries) /\ Len(Tail(buffer)) = Len(buffer) - 1
      BY <1>0, <1>1
  <2>2. \A k \in 1 .. Len(buffer) - 1 : Tail(buffer)[k] = buffer[k + 1]
      BY <1>0, <2>1
  <2>3. Push(x) = Append(Tail(buffer), x)
      BY <1>1 DEF Push
  <2> WITNESS 1 \in {0, 1}
  <2> QED BY <1>0, <1>1, <2>1, <2>2, <2>3, AppendProperties
<1>2. CASE Len(buffer) # BufferLen
  <2>1. Push(x) = Append(buffer, x)
      BY <1>2 DEF Push
  <2> WITNESS 0 \in {0, 1}
  <2> QED BY <1>0, <2>1, AppendProperties
<1> QED BY <1>1, <1>2

\* Handling a message moves the window along.
LEMMA WindowHandle ==
    ASSUME WindowInv, TypeOK', HandleIncomingData
    PROVE  WindowInv'
<1> DEFINE e == published[handled + 1]
           x == [ver |-> latest, event |-> e]
<1>1. /\ handled \in Nat /\ handled + 1 \in 1 .. Len(published) /\ handled' = handled + 1
      /\ published' = published /\ index' = index /\ Len(published) \in Nat
    BY DEF HandleIncomingData, WindowInv, TypeOK
<1>2. e \in Events /\ e.serial = handled + 1 /\ e.kind # "Comment"
    BY <1>1 DEF WindowInv, TypeOK, PublishedNumbered
<1>3. PublishedNumbered' /\ IdsFollow'
    BY <1>1 DEF WindowInv, PublishedNumbered, IdsFollow, NoDataBetween, IsData
<1>4. \A v : \A i : InForce(v, i)' <=> InForce(v, i)
    BY <1>1 DEF InForce
<1>5. \A i : \A j : NoDataBetween(i, j)' <=> NoDataBetween(i, j)
    BY <1>1 DEF NoDataBetween
<1>6. CASE e.kind = "ApiVersion"
  <2>1. latest' = e.ver /\ buffer' = buffer
      BY <1>6 DEF HandleIncomingData
  <2>2. e.ver # NoVersion
      BY <1>1, <1>6 DEF WindowInv, PublishedNumbered
  <2>3. InForce(e.ver, handled + 2)
      BY <1>1, <1>6 DEF InForce
  <2>4. LatestInForce'
      BY <1>1, <1>4, <2>1, <2>2, <2>3 DEF LatestInForce
  <2>5. ~IsData(e)
      BY <1>6 DEF IsData
  <2>6. \A i : NoDataBetween(i, handled + 1) => NoDataBetween(i, handled + 2)
      BY <1>1, <2>5 DEF NoDataBetween
  <2>7. BufferIsWindow'
      BY <1>1, <1>4, <1>5, <2>1, <2>6 DEF WindowInv, BufferIsWindow
  <2> QED BY <1>3, <2>4, <2>7 DEF WindowInv
<1>7. CASE e.kind # "ApiVersion"
  <2>0. IsData(e) /\ latest' = latest
      BY <1>2, <1>7 DEF IsData, HandleIncomingData
  <2>1. CASE latest = NoVersion
    <3>1. buffer' = buffer /\ buffer = <<>>
        BY <2>1 DEF HandleIncomingData, WindowInv, LatestInForce
    <3>2. LatestInForce' /\ BufferIsWindow'
        BY <2>0, <2>1, <3>1 DEF LatestInForce, BufferIsWindow
    <3> QED BY <1>3, <3>2 DEF WindowInv
  <2>2. CASE latest # NoVersion
    <3>1. buffer' = Push(x) /\ x \in Entries
        BY <1>2, <1>7, <2>2 DEF HandleIncomingData, Entries, WindowInv, TypeOK
    <3>2. InForce(latest, handled + 1)
        BY <2>2 DEF WindowInv, LatestInForce
    <3>3. InForce(latest, handled + 2)
        BY <1>1, <2>0, <3>2 DEF InForce
    <3>4. LatestInForce'
        BY <1>1, <1>4, <2>0, <2>2, <3>3 DEF LatestInForce
    <3>5. PICK d \in {0, 1} :
               /\ Len(buffer') = Len(buffer) + 1 - d
               /\ Len(buffer') # 0
               /\ buffer'[Len(buffer')] = x
               /\ \A k \in 1 .. Len(buffer') - 1 :
                      k + d \in 1 .. Len(buffer) /\ buffer'[k] = buffer[k + d]
               /\ Len(buffer') > 1 => Len(buffer') - 1 + d = Len(buffer)
        BY <3>1, PushSpec DEF WindowInv
    <3> DEFINE m == Len(buffer')
    <3>6. m \in Nat /\ Len(buffer) \in Nat /\ (m > 1 => buffer # <<>>)
      <4>1. Len(buffer) \in Nat /\ (buffer = <<>> => Len(buffer) = 0)
          BY DEF WindowInv, TypeOK
      <4>2. m = Len(buffer) + 1 - d /\ m # 0 /\ d \in {0, 1}
            /\ (m > 1 => m - 1 + d = Len(buffer))
          BY <3>5
      <4> HIDE DEF m
      <4> QED BY <4>1, <4>2
    <3>7. x.event = e /\ x.ver = latest
        OBVIOUS
    <3> HIDE DEF x, e
    <3>8. ASSUME NEW k \in 1 .. m
          PROVE  /\ buffer'[k].event.serial \in 1 .. handled + 1
                 /\ published[buffer'[k].event.serial] = buffer'[k].event
                 /\ IsData(buffer'[k].event)
                 /\ InForce(buffer'[k].ver, buffer'[k].event.serial)
      <4>1. CASE k = m
          BY <1>1, <1>2, <2>0, <3>2, <3>5, <3>7, <4>1 DEF e
      <4>2. CASE k \in 1 .. m - 1
        <5>1. k + d \in 1 .. Len(buffer) /\ buffer'[k] = buffer[k + d]
            BY <3>5, <4>2
        <5>2. /\ buffer[k + d].event.serial \in 1 .. handled
              /\ published[buffer[k + d].event.serial] = buffer[k + d].event
              /\ IsData(buffer[k + d].event)
              /\ InForce(buffer[k + d].ver, buffer[k + d].event.serial)
            BY <5>1 DEF WindowInv, BufferIsWindow
        <5> QED BY <1>1, <5>1, <5>2
      <4> QED BY <3>6, <4>1, <4>2
    <3>9. ASSUME NEW k \in 1 .. m - 1
          PROVE  /\ buffer'[k].event.serial < buffer'[k + 1].event.serial
                 /\ NoDataBetween(buffer'[k].event.serial, buffer'[k + 1].event.serial)
      <4>1. CASE k = m - 1
        <5>1. buffer'[k] = buffer[Len(buffer)] /\ buffer'[k + 1] = x
            BY <3>5, <3>6, <4>1
        <5>2. NoDataBetween(buffer[Len(buffer)].event.serial, handled + 1)
            BY <3>6, <4>1 DEF WindowInv, BufferIsWindow
        <5>3. buffer[Len(buffer)].event.serial \in 1 .. handled
            BY <3>5, <3>6, <4>1 DEF WindowInv, BufferIsWindow
        <5> QED BY <1>1, <1>2, <3>7, <5>1, <5>2, <5>3
      <4>2. CASE k \in 1 .. m - 2
        <5>1. k + d \in 1 .. Len(buffer) - 1
            BY <3>5, <3>6, <4>2
        <5>2. buffer'[k] = buffer[k + d] /\ buffer'[k + 1] = buffer[(k + d) + 1]
            BY <3>5, <3>6, <4>2
        <5> QED BY <5>1, <5>2 DEF WindowInv, BufferIsWindow
      <4> QED BY <3>6, <4>1, <4>2
    <3>10. NoDataBetween(buffer'[m].event.serial, handled + 2)
        BY <1>1, <1>2, <3>5, <3>7 DEF NoDataBetween
    <3>11. BufferIsWindow'
      <4>1. \A k \in 1 .. m : /\ buffer'[k].event.serial \in 1 .. handled'
                             /\ published'[buffer'[k].event.serial] = buffer'[k].event
                             /\ IsData(buffer'[k].event)
                             /\ InForce(buffer[k].ver, buffer[k].event.serial)'
          BY <1>1, <1>4, <3>8
      <4>2. \A k \in 1 .. m - 1 :
                /\ buffer'[k].event.serial < buffer'[k + 1].event.serial
                /\ NoDataBetween(buffer[k].event.serial, buffer[k + 1].event.serial)'
          BY <1>5, <3>9
      <4>3. NoDataBetween(buffer[Len(buffer)].event.serial, handled + 1)'
        <5>1. handled' + 1 = handled + 2
            BY <1>1
        <5> QED BY <1>5, <3>10, <5>1
      <4> QED BY <4>1, <4>2, <4>3 DEF BufferIsWindow, IsData
    <3> QED BY <1>3, <3>4, <3>11 DEF WindowInv
  <2> QED BY <2>1, <2>2
<1> QED BY <1>6, <1>7


LEMMA WindowStep ==
    ASSUME WindowInv, [Next]_vars
    PROVE  WindowInv'
<1>0. TypeOK /\ TypeOK'
    BY TypeStep DEF WindowInv
<1>1. ASSUME NEW v \in Versions, BroadcastApiVersion(v) PROVE WindowInv'
  <2> DEFINE e == [serial |-> Len(published) + 1, id |-> NoId, kind |-> "ApiVersion",
                   legacy |-> TRUE, inbound |-> TRUE, ver |-> v]
  <2>1. e \in Events /\ e.serial = Len(published) + 1 /\ e.kind = "ApiVersion" /\ e.ver # NoVersion
      BY <1>0, ConstantsAssumption DEF TypeOK, Events, NoVersion
  <2>2. published' = Append(published, e) /\ UNCHANGED <<index, handled, latest, buffer>>
      BY <1>1 DEF BroadcastApiVersion
  <2> HIDE DEF e
  <2> QED BY <1>0, <2>1, <2>2, WindowPublish
<1>2. ASSUME NEW p, p \in Payloads \/ p = [kind |-> "Shutdown", legacy |-> FALSE],
             NEW inbound \in BOOLEAN, Broadcast(p, inbound)
      PROVE  WindowInv'
  <2> DEFINE e == [serial |-> Len(published) + 1, id |-> index, kind |-> p.kind,
                   legacy |-> p.legacy, inbound |-> inbound, ver |-> NoVersion]
  <2>1. p.kind \in DataKinds \cup {"Shutdown"} /\ p.legacy \in BOOLEAN
      BY <1>2, PayloadType
  <2>2. e \in Events /\ e.serial = Len(published) + 1 /\ e.id = index
      BY <1>0, <2>1 DEF TypeOK, Events, NoVersion
  <2>3. IsData(e)
      BY <2>1 DEF IsData, DataKinds
  <2>4. published' = Append(published, e) /\ UNCHANGED <<handled, latest, buffer>>
      BY <1>2 DEF Broadcast
  <2>5. index' = Following(index)
      BY <1>2 DEF Broadcast, NextIndex, Following
  <2> HIDE DEF e
  <2> QED BY <1>0, <2>2, <2>3, <2>4, <2>5, WindowPublish
<1>3. CASE HandleIncomingData
    BY <1>0, <1>3, WindowHandle
<1>4. CASE UNCHANGED <<index, published, handled, latest, buffer>>
    BY <1>0, <1>4 DEF WindowInv, PublishedNumbered, IdsFollow, LatestInForce, BufferIsWindow,
                      NoDataBetween, InForce, IsData
<1>5. DropServer \/ RegisterNewSubscriber \/ BroadcastShutdown \/ ServerShutdown \/ UNCHANGED vars
        => UNCHANGED <<index, published, handled, latest, buffer>>
    BY DEF DropServer, RegisterNewSubscriber, BroadcastShutdown, ServerShutdown, vars, serverVars
<1>6. ASSUME NEW c \in Clients, Handler(c) \/ Stream(c) \/ Disconnect(c)
      PROVE  UNCHANGED <<index, published, handled, latest, buffer>>
    BY <1>6 DEF Handler, Validate, SendSubscriberInfo, Subscribe, Stream, StreamInitial,
                StreamOngoing, StreamShutdown, StreamLagged, Disconnect, EndStream, serverVars
<1> QED BY <1>1, <1>2, <1>3, <1>4, <1>5, <1>6 DEF Next, Producer, ServerTask

LEMMA WindowInit == Init => WindowInv
<1> SUFFICES ASSUME Init PROVE WindowInv
    OBVIOUS
<1>1. published = <<>> /\ buffer = <<>> /\ latest = NoVersion /\ Len(<<>>) = 0
    BY DEF Init
<1>2. TypeOK
    BY TypeInit
<1> QED BY <1>1, <1>2 DEF WindowInv, PublishedNumbered, IdsFollow, LatestInForce, BufferIsWindow

LEMMA WindowCorrect == Spec => []WindowInv
<1>1. Init => WindowInv
    BY WindowInit
<1>2. WindowInv /\ [Next]_vars => WindowInv'
    BY WindowStep
<1> QED BY <1>1, <1>2, PTL DEF Spec

\* The ring buffer of http_server is always a gap-free window of the published
\* events that ends with the last one handled, with the versions in force.
THEOREM RingBufferIsWindow == Spec => []BufferIsWindow
<1>1. WindowInv => BufferIsWindow
    BY DEF WindowInv
<1> QED BY <1>1, WindowCorrect, PTL

-----------------------------------------------------------------------------
\* The replay of buffered events.

\* The ids in the buffer count up from the first one, wrapping around at most once.
LEMMA BufferedIds ==
    ASSUME WindowInv, buffer # <<>>
    PROVE  /\ buffer[1].event.id \in Ids
           /\ \A k \in 1 .. Len(buffer) :
                  buffer[k].event.id = WrappingAdd(buffer[1].event.id, k - 1)
<1>0. Len(buffer) \in Nat /\ Len(buffer) # 0 /\ Len(buffer) <= BufferLen
      /\ BufferLen \in Nat \ {0} /\ IdCount \in Nat /\ IdCount >= 3 * BufferLen
    BY ConstantsAssumption DEF WindowInv, TypeOK
<1> DEFINE id(k) == buffer[k].event.id
           a == id(1)
           Wrong == {k \in 1 .. Len(buffer) : id(k) # WrappingAdd(a, k - 1)}
<1>1. ASSUME NEW k \in 1 .. Len(buffer) PROVE id(k) \in Ids
  <2>1. /\ buffer[k].event.serial \in 1 .. handled /\ handled \in 0 .. Len(published)
        /\ published[buffer[k].event.serial] = buffer[k].event
        /\ IsData(buffer[k].event)
      BY DEF WindowInv, TypeOK, BufferIsWindow
  <2>2. buffer[k].event.serial \in 1 .. Len(published)
      BY <2>1 DEF WindowInv, TypeOK
  <2> QED BY <2>1, <2>2 DEF WindowInv, PublishedNumbered
<1>2. ASSUME NEW k \in 1 .. Len(buffer) - 1 PROVE id(k + 1) = Following(id(k))
  <2> DEFINE i == buffer[k].event.serial
             j == buffer[k + 1].event.serial
  <2>1. k \in 1 .. Len(buffer) /\ k + 1 \in 1 .. Len(buffer)
      BY <1>0
  <2>2. /\ i \in 1 .. handled /\ j \in 1 .. handled /\ handled \in 0 .. Len(published)
        /\ published[i] = buffer[k].event /\ published[j] = buffer[k + 1].event
        /\ IsData(buffer[k].event) /\ IsData(buffer[k + 1].event)
      BY <2>1 DEF WindowInv, TypeOK, BufferIsWindow
  <2>3. i < j /\ NoDataBetween(i, j)
      BY DEF WindowInv, BufferIsWindow
  <2>4. i \in 1 .. Len(published) /\ j \in 1 .. Len(published)
    <3> HIDE DEF i, j
    <3>1. Len(published) \in Nat
        BY DEF WindowInv, TypeOK
    <3> QED BY <2>2, <3>1
  <2>5. published[j].id = Following(published[i].id)
      BY <2>2, <2>3, <2>4 DEF WindowInv, IdsFollow
  <2> QED BY <2>2, <2>5
<1>3. a \in Int /\ 0 <= a /\ a < IdCount
    BY <1>0, <1>1 DEF Ids
<1> HIDE DEF id
<1>4. ASSUME Wrong # {} PROVE FALSE
  <2>1. Wrong \in SUBSET Nat
      BY <1>0
  <2>2. PICK k \in Wrong : \A y \in Wrong : k <= y
      BY <1>4, <2>1, LeastExists
  <2>3. k \in 1 .. Len(buffer) /\ id(k) # WrappingAdd(a, k - 1)
      BY <2>2
  <2>4. k # 1
      BY <1>0, <1>3, <2>3 DEF WrappingAdd
  <2>5. k - 1 \in 1 .. Len(buffer) - 1 /\ k - 1 \notin Wrong
      BY <1>0, <2>2, <2>3, <2>4
  <2>6. id(k - 1) = WrappingAdd(a, k - 2)
      BY <1>0, <2>5
  <2>7. id(k) = Following(id(k - 1))
      BY <1>0, <1>2, <2>3, <2>5
  <2> QED BY <1>0, <1>3, <2>3, <2>5, <2>6, <2>7 DEF WrappingAdd, Following
<1> QED BY <1>1, <1>0, <1>4 DEF id


\* The comparison of skip_while orders the buffered events by age, and puts the
\* next id after all of them.
LEMMA BeforeIsOlder ==
    ASSUME WindowInv, buffer # <<>>
    PROVE  \A j \in 1 .. Len(buffer) :
               /\ \A k \in 1 .. Len(buffer) :
                      IsBefore(buffer, buffer[j].event.id, buffer[k].event.id) <=> j < k
               /\ IsBefore(buffer, buffer[j].event.id, Following(buffer[Len(buffer)].event.id))
<1>0. Len(buffer) \in Nat /\ Len(buffer) # 0 /\ Len(buffer) <= BufferLen
      /\ BufferLen \in Nat \ {0} /\ IdCount \in Nat /\ IdCount >= 3 * BufferLen
    BY ConstantsAssumption DEF WindowInv, TypeOK
<1> DEFINE id(k) == buffer[k].event.id
           a == buffer[1].event.id
           n == Len(buffer)
           zone == a > IdCount - 1 - BufferLen \/ a < BufferLen
           shift(x) == WrappingAdd(x, BufferLen)
<1>1. a \in Int /\ 0 <= a /\ a < IdCount
    BY <1>0, BufferedIds DEF Ids
<1>2. \A k \in 1 .. n : id(k) = WrappingAdd(a, k - 1)
    BY BufferedIds
<1>3. InWraparoundZone(buffer) <=> zone
    BY DEF InWraparoundZone
<1>4. \A x, y : IsBefore(buffer, x, y) <=> IF zone THEN shift(x) < shift(y) ELSE x < y
    BY <1>3 DEF IsBefore
<1> HIDE DEF id, a
<1>5. Following(id(n)) = WrappingAdd(a, n)
  <2>1. id(n) = WrappingAdd(a, n - 1)
      BY <1>0, <1>2
  <2>2. n \in Nat /\ n >= 1 /\ n <= BufferLen
      BY <1>0
  <2> HIDE DEF n
  <2> QED BY <1>0, <1>1, <2>1, <2>2 DEF WrappingAdd, Following
<1>6. CASE zone
  <2>1. \A k \in 0 .. n : shift(WrappingAdd(a, k)) = shift(a) + k
      BY <1>0, <1>1, <1>6 DEF WrappingAdd
  <2>2. shift(a) \in Int
      BY <1>0, <1>1 DEF WrappingAdd
  <2>3. \A k \in 1 .. n : shift(id(k)) = shift(a) + (k - 1)
      BY <1>0, <1>2, <2>1
  <2>4. shift(Following(id(n))) = shift(a) + n
      BY <1>0, <1>5, <2>1
  <2> HIDE DEF shift, zone
  <2> QED BY <1>0, <1>4, <1>6, <2>2, <2>3, <2>4 DEF id
<1>7. CASE ~zone
  <2>1. \A k \in 0 .. n : WrappingAdd(a, k) = a + k
      BY <1>0, <1>1, <1>7 DEF WrappingAdd
  <2>2. \A k \in 1 .. n : id(k) = a + (k - 1)
      BY <1>0, <1>2, <2>1
  <2>3. Following(id(n)) = a + n
      BY <1>0, <1>5, <2>1
  <2> HIDE DEF shift, zone
  <2> QED BY <1>0, <1>1, <1>4, <1>7, <2>2, <2>3 DEF id
<1> QED BY <1>6, <1>7

\* A client that names any event still in the ring buffer is replayed exactly from
\* that event on, for every buffer length and wherever the 32-bit ids wrap around;
\* one that is up to date is replayed nothing.
THEOREM ReplayExact == Spec => []ReplayIsExact
<1>1. ASSUME WindowInv PROVE ReplayIsExact
  <2> SUFFICES ASSUME buffer # <<>>
               PROVE  /\ \A k \in 1 .. Len(buffer) :
                             FirstReplayed(buffer, buffer[k].event.id) = k
                      /\ FirstReplayed(buffer, Following(buffer[Len(buffer)].event.id))
                             = Len(buffer) + 1
      BY DEF ReplayIsExact
  <2>0. buffer \in Seq(Entries) /\ Len(buffer) \in Nat
      BY <1>1 DEF WindowInv, TypeOK, Entries
  <2>1. ASSUME NEW k \in 1 .. Len(buffer) PROVE FirstReplayed(buffer, buffer[k].event.id) = k
    <3> DEFINE s == buffer[k].event.id
               m == FirstReplayed(buffer, s)
    <3>1. m \in 1 .. Len(buffer) + 1
          /\ (\A j \in 1 .. m - 1 : IsBefore(buffer, buffer[j].event.id, s))
          /\ (m <= Len(buffer) => ~IsBefore(buffer, buffer[m].event.id, s))
        BY <2>0, FirstReplayedSpec
    <3> HIDE DEF m
    <3>2. \A j \in 1 .. Len(buffer) : IsBefore(buffer, buffer[j].event.id, s) <=> j < k
        BY <1>1, BeforeIsOlder
    <3> HIDE DEF s
    <3>3. ~(k < m)
        BY <2>0, <3>1, <3>2
    <3>4. ~(m < k)
        BY <2>0, <3>1, <3>2
    <3>5. m = k
        BY <2>0, <3>1, <3>3, <3>4
    <3> QED BY <3>5 DEF m, s
  <2>2. FirstReplayed(buffer, Following(buffer[Len(buffer)].event.id)) = Len(buffer) + 1
    <3> DEFINE s == Following(buffer[Len(buffer)].event.id)
               m == FirstReplayed(buffer, s)
    <3>1. m \in 1 .. Len(buffer) + 1
          /\ (m <= Len(buffer) => ~IsBefore(buffer, buffer[m].event.id, s))
        BY <2>0, FirstReplayedSpec
    <3> HIDE DEF m
    <3>2. \A j \in 1 .. Len(buffer) : IsBefore(buffer, buffer[j].event.id, s)
        BY <1>1, BeforeIsOlder
    <3> HIDE DEF s
    <3>3. m = Len(buffer) + 1
        BY <2>0, <3>1, <3>2
    <3> QED BY <3>3 DEF m, s
  <2> QED BY <2>1, <2>2
<1> QED BY <1>1, WindowCorrect, PTL

=============================================================================
