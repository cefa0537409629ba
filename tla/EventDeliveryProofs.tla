------------------------ MODULE EventDeliveryProofs -------------------------
(***************************************************************************)
(* What a client of the event stream is sent, for every number of clients  *)
(* and events: in which order, with which losses, under which version.     *)
(*                                                                         *)
(* A client gets the replayed events through its initial channel and the   *)
(* others through the broadcast channel.  The invariants say of one client *)
(* how the rest of its initial channel, the ids it has noted, the position *)
(* of its receiver and what it was sent fit together.                      *)
(***************************************************************************)
EXTENDS EventStreamProofs

\* What one iteration of register_new_subscriber sends ends with the buffered event,
\* if there is one.
Final(group) == group[Len(group)]

\* The event with serial i is still in the initial channel of c.
Pending(c, i) ==
    \E k \in 1 .. Len(initial[c]) :
        IsData(Final(initial[c][k])) /\ Final(initial[c][k]).serial = i

\* The announcements of versions have no id.
AnnouncedPlain ==
    \A i \in 1 .. Len(published) :
        published[i].kind = "ApiVersion" => published[i].id = NoId /\ published[i].ver \in Versions

\* The buffered events are in the order of publication.
BufferOrdered ==
    \A k, l \in 1 .. Len(buffer) : k < l => buffer[k].event.serial < buffer[l].event.serial

NewcomersDistinct ==
    \A i, j \in 1 .. Len(newcomers) : newcomers[i] = newcomers[j] => i = j

\* A client waits for its registration with all its channels empty, and reads the
\* broadcast channel only when the initial one is closed and empty.
Registration(c) ==
    /\ \A i \in 1 .. Len(newcomers) : newcomers[i] = c => initialOpen[c]
    /\ initialOpen[c] => pc[c] \notin {"idle", "validated"} /\ reg[c] = NoId
    /\ pc[c] \notin {"announced", "streaming"} => reg[c] = NoId
    /\ reg[c] = NoId => replayed[c] = {} /\ initial[c] = <<>> /\ initialIds[c] = {}
    /\ initialOpen[c] \/ pc[c] # "streaming" => initialIds[c] = {} /\ delivered[c] = <<>>
    /\ initialOpen[c] \/ pc[c] # "streaming" \/ initial[c] # <<>> => pos[c] = sub[c]

\* Only handled events are replayed, and a receiver is within the log.
Positions(c) ==
    /\ reg[c] <= handled
    /\ \A i \in replayed[c] : i \in 1 .. Len(published) /\ i <= reg[c] /\ IsData(published[i])
    /\ sub[c] <= pos[c] /\ pos[c] <= LogLen + 1

\* A group of the initial channel of c is a version, a comment, or a replayed event
\* with or without its version before it.
GroupOf(c, group) ==
    /\ Len(group) \in {1, 2}
    /\ Len(group) = 2 => group[1].kind = "ApiVersion" /\ group[1].id = NoId /\ IsData(group[2])
    /\ IsData(Final(group)) =>
          Final(group).serial \in replayed[c] /\ published[Final(group).serial] = Final(group)
    /\ ~IsData(Final(group)) => Final(group).id = NoId

\* The initial channel holds replayed events in order, and the id of every replayed
\* one that is not in it any more was noted.
Queued(c) ==
    /\ \A k \in 1 .. Len(initial[c]) : GroupOf(c, initial[c][k])
    /\ \A k, l \in 1 .. Len(initial[c]) :
          k < l /\ IsData(Final(initial[c][k])) /\ IsData(Final(initial[c][l]))
              => Final(initial[c][k]).serial < Final(initial[c][l]).serial
    /\ \A i \in replayed[c] : Pending(c, i) \/ published[i].id \in initialIds[c]

\* What c was sent was published, it was replayed or taken off the broadcast channel,
\* and it is older than what is in the initial channel.
SentBefore(c) ==
    \A j \in 1 .. Len(delivered[c]) : IsData(delivered[c][j]) =>
        /\ delivered[c][j].serial \in 1 .. Len(published)
        /\ published[delivered[c][j].serial] = delivered[c][j]
        /\ delivered[c][j].serial \in replayed[c] \/ delivered[c][j].serial \in sub[c] .. pos[c] - 1
        /\ \A k \in 1 .. Len(initial[c]) :
              IsData(Final(initial[c][k])) => delivered[c][j].serial < Final(initial[c][k]).serial

\* DeliveredInOrder of one client.
InOrder(c) ==
    \A i, j \in 1 .. Len(delivered[c]) :
        i < j /\ IsData(delivered[c][i]) /\ IsData(delivered[c][j])
            => \/ delivered[c][i].serial < delivered[c][j].serial
               \/ /\ delivered[c][i].serial # delivered[c][j].serial
                  /\ delivered[c][i].serial \in replayed[c]
                  /\ delivered[c][j].serial \in (sub[c] .. reg[c]) \ replayed[c]

Course(c) == Positions(c) /\ Queued(c) /\ SentBefore(c) /\ InOrder(c)

\* The inductive invariant behind DeliveredInOrder.
StreamInv ==
    /\ WindowInv /\ BufferOrdered /\ AnnouncedPlain /\ NewcomersDistinct
    /\ \A c \in Clients : Registration(c) /\ Course(c)

-----------------------------------------------------------------------------
\* Steps that leave a stream alone.

\* The log grows, and nothing else that the course of c depends on changes.
Grown ==
    /\ Len(published') >= Len(published)
    /\ \A i \in 1 .. Len(published) : published'[i] = published[i]
    /\ handled' >= handled /\ LogLen' >= LogLen

SameCourse(c) ==
    /\ initial'[c] = initial[c] /\ initialIds'[c] = initialIds[c] /\ pos'[c] = pos[c]
    /\ delivered'[c] = delivered[c] /\ replayed'[c] = replayed[c] /\ reg'[c] = reg[c] /\ sub'[c] = sub[c]

\* The values that belong to one client have their types.
LEMMA ClientTypes ==
    ASSUME TypeOK, NEW c \in Clients
    PROVE  /\ initial[c] \in Seq(Groups) /\ Len(initial[c]) \in Nat
           /\ delivered[c] \in Seq(Events) /\ Len(delivered[c]) \in Nat
           /\ pos[c] \in Nat \ {0} /\ sub[c] \in Nat \ {0}
           /\ reg[c] \in Nat \cup {NoId} /\ reg[c] \in Int
           /\ replayed[c] \in SUBSET Nat /\ initialIds[c] \in SUBSET Ids
           /\ Len(published) \in Nat /\ handled \in Nat /\ handled <= Len(published)
           /\ LogLen \in Nat /\ handled <= LogLen
<1>1. /\ initial[c] \in Seq(Groups) /\ delivered[c] \in Seq(Events)
      /\ pos[c] \in Nat \ {0} /\ sub[c] \in Nat \ {0} /\ reg[c] \in Nat \cup {NoId}
      /\ replayed[c] \in SUBSET Nat /\ initialIds[c] \in SUBSET Ids
      /\ published \in Seq(Events) /\ handled \in 0 .. Len(published)
    BY DEF TypeOK, Groups
<1>2. Len(published) \in Nat /\ handled \in Nat /\ handled <= Len(published)
    BY <1>1
<1>3. LogLen \in Nat /\ handled <= LogLen
    BY <1>2 DEF LogLen
<1> QED BY <1>1, <1>2, <1>3 DEF NoId

LEMMA CourseGrows ==
    ASSUME TypeOK, TypeOK', NEW c \in Clients, Course(c), Grown, SameCourse(c)
    PROVE  Course(c)'
<1>1. /\ Len(published) \in Nat /\ Len(published') \in Nat /\ handled \in Nat /\ handled' \in Nat
      /\ pos[c] \in Nat /\ reg[c] \in Int /\ LogLen \in Nat /\ LogLen' \in Nat
  <2>1. published' \in Seq(Events) /\ handled' \in 0 .. Len(published')
      BY DEF TypeOK
  <2>2. Len(published') \in Nat /\ handled' \in Nat
      BY <2>1
  <2>3. LogLen' = handled' \/ LogLen' = handled' + 1
      BY DEF LogLen
  <2> QED BY <2>2, <2>3, ClientTypes
<1>2. Positions(c)'
    BY <1>1 DEF Course, Positions, SameCourse, Grown, IsData
<1>3. \A i \in replayed[c] : i \in 1 .. Len(published) /\ published'[i] = published[i]
    BY <1>1 DEF Course, Positions, Grown
<1>4. \A k \in 1 .. Len(initial[c]) : GroupOf(c, initial[c][k])'
    BY <1>3 DEF Course, Queued, SameCourse, GroupOf, Final, IsData
<1>5. \A i : Pending(c, i)' <=> Pending(c, i)
    BY DEF Pending, SameCourse, Final, IsData
<1>6. Queued(c)'
    BY <1>3, <1>4, <1>5 DEF Course, Queued, SameCourse, Final, IsData
<1>7. SentBefore(c)'
    BY <1>1 DEF Course, SentBefore, SameCourse, Grown, Final, IsData
<1>8. InOrder(c)'
    BY DEF Course, InOrder, SameCourse, IsData
<1> QED BY <1>2, <1>6, <1>7, <1>8 DEF Course

\* A step publishes one more message and does nothing else, or it handles one, or it
\* leaves the log alone.
Publishes(e) ==
    /\ server = "running" /\ Len(published) < MaxPublished
    /\ published' = Append(published, e) /\ e.serial = Len(published) + 1
    /\ \/ e.kind = "ApiVersion" /\ e.id = NoId /\ e.ver \in Versions /\ index' = index
       \/ /\ IsData(e) /\ e.id = index /\ index' = Following(index)
          /\ e.kind \in DataKinds => e.inbound
          /\ e.inbound => Announced # {}
    /\ UNCHANGED <<handled, server, latest, buffer, newcomers, clientVars, history>>

LEMMA LogStep ==
    ASSUME TypeOK, [Next]_vars
    PROVE  \/ \E e \in Events : Publishes(e)
           \/ HandleIncomingData /\ UNCHANGED <<index, published>>
           \/ UNCHANGED <<index, published, handled, latest>>
<1>1. ASSUME NEW v \in Versions, BroadcastApiVersion(v) PROVE \E e \in Events : Publishes(e)
  <2> DEFINE e == [serial |-> Len(published) + 1, id |-> NoId, kind |-> "ApiVersion",
                   legacy |-> TRUE, inbound |-> TRUE, ver |-> v]
  <2>1. e \in Events
      BY ConstantsAssumption DEF TypeOK, Events
  <2>2. Publishes(e)
      BY <1>1 DEF BroadcastApiVersion, Publishes
  <2> QED BY <2>1, <2>2
<1>2. ASSUME NEW p, p \in Payloads \/ p = [kind |-> "Shutdown", legacy |-> FALSE],
             NEW inbound \in BOOLEAN, Broadcast(p, inbound),
             inbound => Announced # {}, p.kind \in DataKinds => inbound
      PROVE  \E e \in Events : Publishes(e)
  <2> DEFINE e == [serial |-> Len(published) + 1, id |-> index, kind |-> p.kind,
                   legacy |-> p.legacy, inbound |-> inbound, ver |-> NoVersion]
  <2>1. p.kind \in DataKinds \cup {"Shutdown"} /\ p.legacy \in BOOLEAN
      BY <1>2, PayloadType
  <2>2. e \in Events
      BY <2>1 DEF TypeOK, Events, NoVersion
  <2>3. IsData(e)
      BY <2>1 DEF IsData, DataKinds
  <2>4. index' = Following(index)
      BY <1>2 DEF Broadcast, NextIndex, Following
  <2>5. Publishes(e)
    <3>1. /\ server = "running" /\ Len(published) < MaxPublished
          /\ published' = Append(published, e) /\ e.serial = Len(published) + 1
          /\ UNCHANGED <<handled, server, latest, buffer, newcomers, clientVars, history>>
        BY <1>2 DEF Broadcast
    <3>2. e.id = index /\ (e.kind \in DataKinds => e.inbound) /\ (e.inbound => Announced # {})
        BY <1>2
    <3> QED BY <2>3, <2>4, <3>1, <3>2 DEF Publishes
  <2> QED BY <2>2, <2>5
<1>3. CASE Producer
  <2>1. ASSUME NEW p \in Payloads, Announced # {}, Broadcast(p, TRUE) PROVE \E e \in Events : Publishes(e)
      BY <1>2, <2>1
  <2>2. ASSUME Broadcast([kind |-> "Shutdown", legacy |-> FALSE], FALSE) PROVE \E e \in Events : Publishes(e)
    <3>1. [kind |-> "Shutdown", legacy |-> FALSE].kind \notin DataKinds
        BY DEF DataKinds
    <3> QED BY <1>2, <2>2, <3>1
  <2>3. DropServer => UNCHANGED <<index, published, handled, latest>>
      BY DEF DropServer
  <2> QED BY <1>1, <1>3, <2>1, <2>2, <2>3 DEF Producer
<1>4. RegisterNewSubscriber \/ BroadcastShutdown \/ ServerShutdown \/ UNCHANGED vars
        => UNCHANGED <<index, published, handled, latest>>
    BY DEF RegisterNewSubscriber, BroadcastShutdown, ServerShutdown, vars, serverVars
<1>5. ASSUME NEW c \in Clients, Handler(c) \/ Stream(c) \/ Disconnect(c)
      PROVE  UNCHANGED <<index, published, handled, latest>>
    BY <1>5 DEF Handler, Validate, SendSubscriberInfo, Subscribe, Stream, StreamInitial,
                StreamOngoing, StreamShutdown, StreamLagged, Disconnect, EndStream, serverVars
<1>6. HandleIncomingData => UNCHANGED <<index, published>>
    BY DEF HandleIncomingData
<1> QED BY <1>3, <1>4, <1>5, <1>6 DEF Next, ServerTask

LEMMA PublishGrows ==
    ASSUME TypeOK, NEW e \in Events, Publishes(e)
    PROVE  /\ Len(published) \in Nat /\ Len(published') = Len(published) + 1
           /\ published'[Len(published) + 1] = e
           /\ \A i \in 1 .. Len(published) : published'[i] = published[i]
<1>1. published \in Seq(Events) /\ published' = Append(published, e)
    BY DEF TypeOK, Publishes
<1> QED BY <1>1, AppendProperties

LEMMA StepGrows ==
    ASSUME TypeOK, [Next]_vars
    PROVE  Grown
<1>1. Len(published') >= Len(published) /\ \A i \in 1 .. Len(published) : published'[i] = published[i]
  <2>1. Len(published) \in Nat
      BY DEF TypeOK
  <2> QED BY <2>1, LogStep, PublishGrows
<1>2. handled \in Nat
    BY DEF TypeOK
<1> DEFINE Onward ==
      \/ UNCHANGED <<handled, server>>
      \/ handled' = handled + 1 /\ UNCHANGED server /\ server \in {"running", "closing"}
      \/ /\ handled' = handled
         /\ <<server, server'>> \in {<<"running", "closing">>, <<"closing", "draining">>, <<"draining", "stopped">>}
<1>3. Onward
  <2>1. Producer \/ ServerTask \/ UNCHANGED vars => Onward
      BY DEF Producer, BroadcastApiVersion, Broadcast, DropServer, ServerTask, HandleIncomingData,
             RegisterNewSubscriber, BroadcastShutdown, ServerShutdown, vars, serverVars
  <2>2. ASSUME NEW c \in Clients, Handler(c) \/ Stream(c) \/ Disconnect(c)
        PROVE  UNCHANGED <<handled, server>>
      BY <2>2 DEF Handler, Validate, SendSubscriberInfo, Subscribe, Stream, StreamInitial,
                  StreamOngoing, StreamShutdown, StreamLagged, Disconnect, EndStream, serverVars
  <2> QED BY <2>1, <2>2 DEF Next
<1>4. handled' >= handled /\ LogLen' >= LogLen
    BY <1>2, <1>3 DEF LogLen, ShutdownSent
<1> QED BY <1>1, <1>4 DEF Grown

LEMMA AnnouncedStep ==
    ASSUME TypeOK, AnnouncedPlain, [Next]_vars
    PROVE  AnnouncedPlain'
<1>1. CASE published' = published
    BY <1>1 DEF AnnouncedPlain
<1>2. ASSUME NEW e \in Events, Publishes(e) PROVE AnnouncedPlain'
  <2>1. e.kind = "ApiVersion" => e.id = NoId /\ e.ver \in Versions
      BY <1>2 DEF Publishes, IsData
  <2> QED BY <1>2, <2>1, PublishGrows DEF AnnouncedPlain
<1> QED BY <1>1, <1>2, LogStep

-----------------------------------------------------------------------------
\* Requests and registrations.

\* The place of a client depends on nothing else than its own variables and the
\* channel of new subscribers.
SamePlace(c) ==
    /\ pc'[c] = pc[c] /\ initialOpen'[c] = initialOpen[c] /\ SameCourse(c)
    /\ \A i \in 1 .. Len(newcomers') : newcomers'[i] = c => \E j \in 1 .. Len(newcomers) : newcomers[j] = c

LEMMA RegistrationSame ==
    ASSUME NEW c \in Clients, Registration(c), SamePlace(c)
    PROVE  Registration(c)'
BY DEF Registration, SamePlace, SameCourse

LEMMA RegistrationStep ==
    ASSUME TypeOK, NewcomersDistinct, \A c \in Clients : Registration(c), [Next]_vars
    PROVE  NewcomersDistinct' /\ \A c \in Clients : Registration(c)'
<1>0. newcomers \in Seq(Clients) /\ Len(newcomers) \in Nat
    BY DEF TypeOK
<1>1. /\ newcomers \in Seq(Clients)
      /\ pc \in [Clients -> {"idle", "validated", "announced", "streaming", "closed"}]
      /\ initialOpen \in [Clients -> BOOLEAN]
      /\ initial \in [Clients -> Seq(Seq(Events) \ {<<>>})] /\ initialIds \in [Clients -> SUBSET Ids]
      /\ pos \in [Clients -> Nat \ {0}] /\ sub \in [Clients -> Nat \ {0}]
      /\ delivered \in [Clients -> Seq(Events)] /\ replayed \in [Clients -> SUBSET Nat]
      /\ reg \in [Clients -> Nat \cup {NoId}]
    BY DEF TypeOK
<1>2. CASE UNCHANGED <<newcomers, clientVars, history>>
    BY <1>2 DEF NewcomersDistinct, Registration, clientVars, history
<1>3. ASSUME NEW c \in Clients, NEW r \in Requests, Validate(c, r)
      PROVE  NewcomersDistinct' /\ \A d \in Clients : Registration(d)'
  <2>1. NewcomersDistinct'
      BY <1>3 DEF Validate, NewcomersDistinct
  <2>2. \A d \in Clients \ {c} : SamePlace(d)
      BY <1>1, <1>3 DEF Validate, SamePlace, SameCourse, history
  <2>3. Registration(c)'
      BY <1>1, <1>3 DEF Validate, Registration, history
  <2> QED BY <2>1, <2>2, <2>3, RegistrationSame
<1>4. ASSUME NEW c \in Clients, SendSubscriberInfo(c)
      PROVE  NewcomersDistinct' /\ \A d \in Clients : Registration(d)'
  <2>1. /\ pc[c] = "validated" /\ pc' = [pc EXCEPT ![c] = "announced"]
        /\ UNCHANGED <<initial, initialIds, pos, delivered, replayed, reg, sub>>
        /\ \A d \in Clients \ {c} : initialOpen'[d] = initialOpen[d]
      BY <1>1, <1>4 DEF SendSubscriberInfo, history
  <2>2. \A i \in 1 .. Len(newcomers) : newcomers[i] # c
      BY <2>1 DEF Registration
  <2>3. \A i \in 1 .. Len(newcomers') :
            \/ i \in 1 .. Len(newcomers) /\ newcomers'[i] = newcomers[i]
            \/ newcomers'[i] = c /\ i = Len(newcomers) + 1 /\ initialOpen'[c]
    <3>1. CASE server = "stopped"
        BY <1>4, <3>1 DEF SendSubscriberInfo
    <3>2. CASE server # "stopped"
      <4>1. newcomers' = Append(newcomers, c)
          BY <1>4, <3>2 DEF SendSubscriberInfo
      <4>2. initialOpen'[c]
          BY <1>1, <1>4, <3>2 DEF SendSubscriberInfo
      <4>3. \A i \in 1 .. Len(newcomers') :
                \/ i \in 1 .. Len(newcomers) /\ newcomers'[i] = newcomers[i]
                \/ newcomers'[i] = c /\ i = Len(newcomers) + 1
        <5>1. /\ Len(newcomers') = Len(newcomers) + 1 /\ newcomers'[Len(newcomers) + 1] = c
              /\ \A i \in 1 .. Len(newcomers) : newcomers'[i] = newcomers[i]
            BY <1>1, <4>1, AppendProperties
        <5> QED BY <1>0, <5>1
      <4> QED BY <4>2, <4>3
    <3> QED BY <3>1, <3>2
  <2>4. NewcomersDistinct'
      BY <2>2, <2>3 DEF NewcomersDistinct
  <2>5. \A d \in Clients \ {c} : SamePlace(d)
      BY <1>1, <2>1, <2>3 DEF SamePlace, SameCourse
  <2>6. Registration(c)'
      BY <1>1, <2>1, <2>2, <2>3 DEF Registration
  <2> QED BY <2>4, <2>5, <2>6, RegistrationSame
<1>5. ASSUME NEW c \in Clients, Subscribe(c)
      PROVE  NewcomersDistinct' /\ \A d \in Clients : Registration(d)'
  <2>1. NewcomersDistinct'
      BY <1>5 DEF Subscribe, NewcomersDistinct
  <2>2. \A d \in Clients \ {c} : SamePlace(d)
      BY <1>1, <1>5 DEF Subscribe, SamePlace, SameCourse
  <2>3. Registration(c)'
      BY <1>1, <1>5 DEF Subscribe, Registration
  <2> QED BY <2>1, <2>2, <2>3, RegistrationSame
<1>6. CASE RegisterNewSubscriber
  <2>1. PICK c \in Clients : c = Head(newcomers) /\ c = newcomers[1] /\ 1 \in 1 .. Len(newcomers)
      BY <1>1, <1>6 DEF RegisterNewSubscriber
  <2>2. /\ Len(newcomers') \in Nat /\ Len(newcomers') = Len(newcomers) - 1
        /\ \A i \in 1 .. Len(newcomers') : i + 1 \in 2 .. Len(newcomers) /\ newcomers'[i] = newcomers[i + 1]
    <3>1. newcomers # <<>> /\ newcomers' = Tail(newcomers)
        BY <1>6 DEF RegisterNewSubscriber
    <3>2. Len(newcomers') = Len(newcomers) - 1 /\ \A i \in 1 .. Len(newcomers) - 1 : newcomers'[i] = newcomers[i + 1]
        BY <1>1, <3>1
    <3> QED BY <1>0, <2>1, <3>2
  <2>3. /\ \A d \in Clients \ {c} : /\ initial'[d] = initial[d] /\ initialOpen'[d] = initialOpen[d]
                                   /\ replayed'[d] = replayed[d] /\ reg'[d] = reg[d]
        /\ ~initialOpen'[c]
        /\ pc[c] = "closed" => reg'[c] = NoId /\ initial'[c] = <<>> /\ replayed'[c] = {}
        /\ pc[c] # "closed" => reg'[c] = handled
        /\ UNCHANGED <<pc, initialIds, pos, delivered, sub>>
    <3>1. \A d \in Clients \ {c} : /\ initial'[d] = initial[d] /\ initialOpen'[d] = initialOpen[d]
                                  /\ replayed'[d] = replayed[d] /\ reg'[d] = reg[d]
        BY <1>1, <1>6, <2>1 DEF RegisterNewSubscriber
    <3>2. ~initialOpen'[c] /\ UNCHANGED <<pc, initialIds, pos, delivered, sub>>
        BY <1>1, <1>6, <2>1 DEF RegisterNewSubscriber
    <3>3. pc[c] # "closed" => reg'[c] = handled
        BY <1>1, <1>6, <2>1 DEF RegisterNewSubscriber
    <3>4. ASSUME pc[c] = "closed" PROVE reg'[c] = NoId /\ initial'[c] = <<>> /\ replayed'[c] = {}
      <4>1. reg'[c] = NoId /\ initial'[c] = <<>> /\ replayed'[c] = {<<>>[i].event.serial : i \in 1 .. Len(<<>>)}
          BY <1>1, <1>6, <2>1, <3>4 DEF RegisterNewSubscriber
      <4> QED BY <4>1
    <3> QED BY <3>1, <3>2, <3>3, <3>4
  <2>4. NewcomersDistinct'
      BY <1>0, <2>2 DEF NewcomersDistinct
  <2>5. \A d \in Clients \ {c} : SamePlace(d)
      BY <2>2, <2>3 DEF SamePlace, SameCourse
  <2>6. \A i \in 1 .. Len(newcomers') : newcomers'[i] # c
      BY <1>0, <2>1, <2>2 DEF NewcomersDistinct
  <2>7. initialOpen[c] /\ handled # NoId
      BY <2>1 DEF Registration, TypeOK, NoId
  <2>8. Registration(c)'
    <3>1. /\ pc[c] \in {"announced", "streaming", "closed"} /\ initialIds[c] = {}
          /\ delivered[c] = <<>> /\ pos[c] = sub[c]
        BY <1>1, <2>7 DEF Registration
    <3> QED BY <2>3, <2>6, <2>7, <3>1 DEF Registration
  <2> QED BY <2>4, <2>5, <2>8, RegistrationSame
<1>7. CASE ServerShutdown
  <2>1. newcomers' = <<>> /\ Len(<<>>) = 0 /\ UNCHANGED <<pc, initial, initialIds, pos, delivered, history>>
      BY <1>7 DEF ServerShutdown
  <2>2. \A c \in Clients : initialOpen'[c] => initialOpen[c]
      BY <1>7 DEF ServerShutdown
  <2>3. NewcomersDistinct'
      BY <2>1 DEF NewcomersDistinct
  <2>4. ASSUME NEW c \in Clients PROVE Registration(c)'
      BY <2>1, <2>2 DEF Registration, history
  <2> QED BY <2>3, <2>4
<1>8. ASSUME NEW c \in Clients, StreamInitial(c)
      PROVE  NewcomersDistinct' /\ \A d \in Clients : Registration(d)'
  <2>1. NewcomersDistinct'
      BY <1>8 DEF StreamInitial, NewcomersDistinct
  <2>2. \A d \in Clients \ {c} : SamePlace(d)
      BY <1>1, <1>8 DEF StreamInitial, SamePlace, SameCourse, history
  <2>3. Registration(c)'
      BY <1>1, <1>8 DEF StreamInitial, Registration, history
  <2> QED BY <2>1, <2>2, <2>3, RegistrationSame
<1>9. ASSUME NEW c \in Clients, StreamOngoing(c)
      PROVE  NewcomersDistinct' /\ \A d \in Clients : Registration(d)'
  <2>1. NewcomersDistinct'
      BY <1>9 DEF StreamOngoing, NewcomersDistinct
  <2>2. \A d \in Clients \ {c} : SamePlace(d)
      BY <1>1, <1>9 DEF StreamOngoing, SamePlace, SameCourse, history
  <2>3. Registration(c)'
      BY <1>1, <1>9 DEF StreamOngoing, InitialDone, Registration, history
  <2> QED BY <2>1, <2>2, <2>3, RegistrationSame
<1>10. ASSUME NEW c \in Clients, EndStream(c)
       PROVE  NewcomersDistinct' /\ \A d \in Clients : Registration(d)'
  <2>1. NewcomersDistinct'
      BY <1>10 DEF EndStream, NewcomersDistinct
  <2>2. \A d \in Clients \ {c} : SamePlace(d)
      BY <1>1, <1>10 DEF EndStream, SamePlace, SameCourse
  <2>3. Registration(c)'
      BY <1>1, <1>10 DEF EndStream, Registration
  <2> QED BY <2>1, <2>2, <2>3, RegistrationSame
<1>11. Producer \/ HandleIncomingData \/ BroadcastShutdown \/ UNCHANGED vars
         => UNCHANGED <<newcomers, clientVars, history>>
    BY DEF Producer, BroadcastApiVersion, Broadcast, DropServer, HandleIncomingData, BroadcastShutdown, vars
<1> QED BY <1>2, <1>3, <1>4, <1>5, <1>6, <1>7, <1>8, <1>9, <1>10, <1>11
        DEF Next, ServerTask, Handler, Stream, StreamShutdown, StreamLagged, Disconnect

-----------------------------------------------------------------------------
\* What is replayed to a new subscriber.

LEMMA BufferOrderStep ==
    ASSUME WindowInv, BufferOrdered, [Next]_vars
    PROVE  BufferOrdered'
<1>1. CASE buffer' = buffer
    BY <1>1 DEF BufferOrdered
<1>2. CASE HandleIncomingData /\ buffer' # buffer
  <2> DEFINE x == [ver |-> latest, event |-> published[handled + 1]]
  <2>1. /\ buffer' = Push(x) /\ handled + 1 \in 1 .. Len(published) /\ handled \in Nat
        /\ buffer \in Seq(Entries) /\ Len(buffer) \in Nat
      BY <1>2 DEF HandleIncomingData, WindowInv, TypeOK, Entries
  <2>2. x \in Entries /\ x.event.serial = handled + 1
    <3>1. published[handled + 1] \in Events /\ latest \in Nat
        BY <2>1 DEF WindowInv, TypeOK
    <3> QED BY <2>1, <3>1 DEF Entries, WindowInv, PublishedNumbered
  <2> HIDE DEF x
  <2>3. PICK d \in {0, 1} :
               /\ Len(Push(x)) = Len(buffer) + 1 - d
               /\ Len(Push(x)) # 0
               /\ Push(x)[Len(Push(x))] = x
               /\ \A k \in 1 .. Len(Push(x)) - 1 :
                      k + d \in 1 .. Len(buffer) /\ Push(x)[k] = buffer[k + d]
      BY <2>2, PushSpec DEF WindowInv
  <2>4. \A k \in 1 .. Len(buffer) : buffer[k].event.serial \in 1 .. handled
      BY DEF WindowInv, BufferIsWindow
  <2>5. ASSUME NEW k \in 1 .. Len(Push(x)), NEW l \in 1 .. Len(Push(x)), k < l
        PROVE  Push(x)[k].event.serial < Push(x)[l].event.serial
    <3>1. k + d \in 1 .. Len(buffer) /\ Push(x)[k] = buffer[k + d] /\ buffer[k + d].event.serial \in 1 .. handled
        BY <2>1, <2>3, <2>4, <2>5
    <3>2. CASE l = Len(Push(x))
      <4>1. Push(x)[l].event.serial = handled + 1
          BY <2>2, <2>3, <3>2
      <4> QED BY <2>1, <3>1, <4>1
    <3>3. CASE l # Len(Push(x))
      <4>1. l + d \in 1 .. Len(buffer) /\ Push(x)[l] = buffer[l + d] /\ k + d < l + d
          BY <2>1, <2>3, <2>5, <3>3
      <4> QED BY <3>1, <4>1 DEF BufferOrdered
    <3> QED BY <3>2, <3>3
  <2> QED BY <2>1, <2>5 DEF BufferOrdered
<1>3. Producer \/ RegisterNewSubscriber \/ BroadcastShutdown \/ ServerShutdown \/ UNCHANGED vars => buffer' = buffer
    BY DEF Producer, BroadcastApiVersion, Broadcast, DropServer, RegisterNewSubscriber, BroadcastShutdown,
           ServerShutdown, vars, serverVars
<1>4. ASSUME NEW c \in Clients, Handler(c) \/ Stream(c) \/ Disconnect(c) PROVE buffer' = buffer
    BY <1>4 DEF Handler, Validate, SendSubscriberInfo, Subscribe, Stream, StreamInitial,
                StreamOngoing, StreamShutdown, StreamLagged, Disconnect, EndStream, serverVars
<1> QED BY <1>1, <1>2, <1>3, <1>4 DEF Next, ServerTask

\* The entries are the last ones of the buffer.
IsReplay(entries) ==
    /\ entries \in Seq(Entries) /\ Len(entries) \in Nat
    /\ \A k \in 1 .. Len(entries) :
          /\ entries[k] \in Entries
          /\ entries[k].event.serial \in 1 .. handled
          /\ published[entries[k].event.serial] = entries[k].event
          /\ IsData(entries[k].event)
          /\ InForce(entries[k].ver, entries[k].event.serial)
    /\ \A k, l \in 1 .. Len(entries) : k < l => entries[k].event.serial < entries[l].event.serial

LEMMA ReplaySpec ==
    ASSUME WindowInv, BufferOrdered, NEW start
    PROVE  IsReplay(Replay(buffer, start))
<1> DEFINE entries == Replay(buffer, start)
<1>1. buffer \in Seq(Entries) /\ Len(buffer) \in Nat
    BY DEF WindowInv, TypeOK, Entries
<1>2. entries \in Seq(Entries) /\ Len(entries) \in Nat
    BY <1>1, ReplayType
<1>3. PICK n \in Nat : \A k \in 1 .. Len(entries) : n + k \in 1 .. Len(buffer) /\ entries[k] = buffer[n + k]
  <2>1. CASE start = NoId
    <3>1. Len(entries) = 0
        BY <2>1 DEF Replay
    <3> HIDE DEF entries
    <3> WITNESS 0 \in Nat
    <3> QED BY <3>1
  <2>2. CASE start # NoId
    <3> DEFINE m == FirstReplayed(buffer, start)
    <3>1. m \in 1 .. Len(buffer) + 1
        BY <1>1, FirstReplayedSpec
    <3>2. entries = SubSeq(buffer, m, Len(buffer))
        BY <2>2 DEF Replay
    <3> HIDE DEF m, entries
    <3>3. \A i \in m .. Len(buffer) : buffer[i] \in Entries
        BY <1>1, <3>1
    <3>4. /\ Len(entries) = IF m <= Len(buffer) THEN Len(buffer) - m + 1 ELSE 0
          /\ \A i \in 1 .. Len(buffer) - m + 1 : entries[i] = buffer[m + i - 1]
        BY <1>1, <3>1, <3>2, <3>3, SubSeqProperties
    <3>5. m - 1 \in Nat
        BY <3>1
    <3> WITNESS m - 1 \in Nat
    <3> QED BY <1>1, <3>1, <3>4
  <2> QED BY <2>1, <2>2
<1> HIDE DEF entries
<1>4. ASSUME NEW k \in 1 .. Len(entries)
      PROVE  /\ entries[k] \in Entries
             /\ entries[k].event.serial \in 1 .. handled
             /\ published[entries[k].event.serial] = entries[k].event
             /\ IsData(entries[k].event)
             /\ InForce(entries[k].ver, entries[k].event.serial)
  <2>1. n + k \in 1 .. Len(buffer) /\ entries[k] = buffer[n + k]
      BY <1>3
  <2>2. buffer[n + k] \in Entries
      BY <1>1, <2>1, ElementOfSeq
  <2> QED BY <2>1, <2>2 DEF WindowInv, BufferIsWindow
<1>5. ASSUME NEW k \in 1 .. Len(entries), NEW l \in 1 .. Len(entries), k < l
      PROVE  entries[k].event.serial < entries[l].event.serial
  <2>1. /\ n + k \in 1 .. Len(buffer) /\ n + l \in 1 .. Len(buffer) /\ n + k < n + l
        /\ entries[k] = buffer[n + k] /\ entries[l] = buffer[n + l]
      BY <1>2, <1>3, <1>5
  <2> QED BY <2>1 DEF BufferOrdered
<1>6. IsReplay(entries)
    BY <1>2, <1>4, <1>5 DEF IsReplay
<1> QED BY <1>6 DEF entries

\* A comment for the legacy endpoints, if there are any, then what is sent for each
\* entry, or the latest version if there is none.
InitialShape(s, o, entries, version) ==
    /\ o \in {0, 1} /\ s \in Seq(Groups)
    /\ o = 1 => s[1] = <<LegacyCommentEvent>>
    /\ entries # <<>> =>
          /\ Len(s) = o + Len(entries)
          /\ \A k \in 1 .. Len(entries) : s[o + k] = SentFor(entries, k)
    /\ entries = <<>> =>
          /\ Len(s) = IF version # NoVersion THEN o + 1 ELSE o
          /\ version # NoVersion => s[o + 1] = <<InitialEvent(version)>>

LEMMA InitialEventsSpec ==
    ASSUME NEW entries \in Seq(Entries), NEW version \in Nat
    PROVE  \E o : InitialShape(InitialEvents(entries, version), o, entries, version)
<1> DEFINE A == IF EnableLegacy THEN <<<<LegacyCommentEvent>>>> ELSE <<>>
           B == [i \in 1 .. Len(entries) |-> SentFor(entries, i)]
           C == SendApiVersionIfNecessary(entries, version)
           s == InitialEvents(entries, version)
<1>1. s \in Seq(Groups) /\ s = (A \o B) \o C
    BY InitialEventsType DEF InitialEvents
<1>2. A \in Seq(Groups) /\ Len(A) \in {0, 1} /\ (Len(A) = 1 => A[1] = <<LegacyCommentEvent>>)
  <2>1. <<LegacyCommentEvent>> \in Groups
      BY InitialEventType DEF Groups
  <2> QED BY <2>1
<1>3. B \in Seq(Groups) /\ Len(B) = Len(entries) /\ \A k \in 1 .. Len(entries) : B[k] = SentFor(entries, k)
  <2>1. ASSUME NEW i \in 1 .. Len(entries) PROVE SentFor(entries, i) \in Groups
    <3>1. entries[i] \in Entries
        BY ElementOfSeq
    <3>2. entries[i].event \in Events /\ entries[i].ver \in Nat
        BY <3>1 DEF Entries
    <3>3. InitialEvent(entries[i].ver) \in Events
        BY <3>2, InitialEventType
    <3>4. <<InitialEvent(entries[i].ver), entries[i].event>> \in Groups /\ <<entries[i].event>> \in Groups
        BY <3>2, <3>3 DEF Groups
    <3> QED BY <3>4 DEF SentFor
  <2>2. Len(entries) \in Nat
      OBVIOUS
  <2>3. B \in Seq(Groups)
      BY <2>1, <2>2, IsASeq
  <2> QED BY <2>2, <2>3
<1>4. /\ C \in Seq(Groups)
      /\ entries # <<>> \/ version = NoVersion => C = <<>>
      /\ entries = <<>> /\ version # NoVersion => C = <<<<InitialEvent(version)>>>>
  <2>1. <<InitialEvent(version)>> \in Groups
      BY InitialEventType DEF Groups
  <2> QED BY <2>1 DEF SendApiVersionIfNecessary
<1> HIDE DEF A, B, C, s
<1>5. /\ A \o B \in Seq(Groups) /\ Len(A \o B) = Len(A) + Len(entries)
      /\ \A i \in 1 .. Len(A) + Len(entries) : (A \o B)[i] = IF i <= Len(A) THEN A[i] ELSE B[i - Len(A)]
  <2>1. /\ A \o B \in Seq(Groups) /\ Len(A \o B) = Len(A) + Len(B)
        /\ \A i \in 1 .. Len(A) + Len(B) : (A \o B)[i] = IF i <= Len(A) THEN A[i] ELSE B[i - Len(A)]
    <3>1. A \in Seq(Groups) /\ B \in Seq(Groups)
        BY <1>2, <1>3
    <3> QED BY <3>1, ConcatProperties
  <2> QED BY <1>3, <2>1, Zenon
<1>6. /\ Len(s) = Len(A) + Len(entries) + Len(C)
      /\ \A i \in 1 .. Len(A) + Len(entries) + Len(C) :
            s[i] = IF i <= Len(A) + Len(entries) THEN (A \o B)[i] ELSE C[i - (Len(A) + Len(entries))]
  <2>1. /\ Len(s) = Len(A \o B) + Len(C)
        /\ \A i \in 1 .. Len(A \o B) + Len(C) :
              s[i] = IF i <= Len(A \o B) THEN (A \o B)[i] ELSE C[i - Len(A \o B)]
    <3> DEFINE D == A \o B
    <3>1. D \in Seq(Groups) /\ C \in Seq(Groups) /\ s = D \o C
        BY <1>1, <1>4, <1>5
    <3> HIDE DEF D
    <3>2. /\ Len(D \o C) = Len(D) + Len(C)
          /\ \A i \in 1 .. Len(D) + Len(C) : (D \o C)[i] = IF i <= Len(D) THEN D[i] ELSE C[i - Len(D)]
        BY <3>1, ConcatProperties
    <3> QED BY <3>1, <3>2, Zenon DEF D
  <2> QED BY <1>5, <2>1, Zenon
<1>7. Len(entries) \in Nat /\ (entries = <<>> <=> Len(entries) = 0)
    BY EmptySeq
<1>8. Len(C) \in Nat /\ (C = <<>> => Len(C) = 0)
    BY <1>4
<1>9. Len(A) = 1 => s[1] = <<LegacyCommentEvent>>
  <2> SUFFICES ASSUME Len(A) = 1 PROVE s[1] = <<LegacyCommentEvent>>
      OBVIOUS
  <2>1. 1 \in 1 .. Len(A) + Len(entries) /\ 1 \in 1 .. Len(A) + Len(entries) + Len(C) /\ 1 <= Len(A) + Len(entries)
      BY <1>7, <1>8
  <2>2. s[1] = (A \o B)[1] /\ (A \o B)[1] = A[1]
      BY <1>5, <1>6, <2>1
  <2> QED BY <1>2, <2>2
<1>10. ASSUME entries # <<>>
       PROVE  Len(s) = Len(A) + Len(entries) /\ \A k \in 1 .. Len(entries) : s[Len(A) + k] = SentFor(entries, k)
  <2>1. Len(C) = 0
      BY <1>4, <1>8, <1>10
  <2>2. Len(s) = Len(A) + Len(entries)
      BY <1>2, <1>6, <1>7, <2>1
  <2>3. ASSUME NEW k \in 1 .. Len(entries) PROVE s[Len(A) + k] = SentFor(entries, k)
    <3>1. /\ Len(A) + k \in 1 .. Len(A) + Len(entries) /\ ~(Len(A) + k <= Len(A)) /\ (Len(A) + k) - Len(A) = k
          /\ Len(A) + k \in 1 .. Len(A) + Len(entries) + Len(C) /\ Len(A) + k <= Len(A) + Len(entries)
        BY <1>2, <1>7, <1>8
    <3>2. s[Len(A) + k] = (A \o B)[Len(A) + k]
        BY <1>6, <3>1
    <3>3. (A \o B)[Len(A) + k] = B[k]
        BY <1>5, <3>1
    <3> QED BY <1>3, <3>2, <3>3
  <2> QED BY <2>2, <2>3
<1>11. ASSUME entries = <<>>
       PROVE  /\ Len(s) = IF version # NoVersion THEN Len(A) + 1 ELSE Len(A)
              /\ version # NoVersion => s[Len(A) + 1] = <<InitialEvent(version)>>
  <2>1. Len(entries) = 0
      BY <1>7, <1>11
  <2>2. CASE version = NoVersion
    <3>1. Len(C) = 0
        BY <1>4, <1>8, <2>2
    <3> QED BY <1>2, <1>6, <2>1, <2>2, <3>1
  <2>3. CASE version # NoVersion
    <3>1. Len(C) = 1 /\ C[1] = <<InitialEvent(version)>>
        BY <1>4, <1>11, <2>3
    <3>2. Len(s) = Len(A) + 1
        BY <1>2, <1>6, <2>1, <3>1
    <3>3. s[Len(A) + 1] = C[1]
        BY <1>2, <1>6, <2>1, <3>1
    <3> QED BY <2>3, <3>1, <3>2, <3>3
  <2> QED BY <2>2, <2>3
<1> QED BY <1>1, <1>2, <1>9, <1>10, <1>11 DEF InitialShape, s

\* The group was sent for the i-th entry: with its version unless the entry before has it.
SentForEntry(group, entries, i) ==
    /\ i \in 1 .. Len(entries) /\ Final(group) = entries[i].event
    /\ \/ Len(group) = 2 /\ group[1] = InitialEvent(entries[i].ver) /\ group[2] = entries[i].event
       \/ Len(group) = 1 /\ i - 1 \in 1 .. Len(entries) /\ entries[i].ver = entries[i - 1].ver

LEMMA ShapeGroups ==
    ASSUME NEW entries \in Seq(Entries), NEW version \in Nat, NEW s, NEW o, InitialShape(s, o, entries, version),
           NEW k \in 1 .. Len(s)
    PROVE  \/ k - o \in 1 .. Len(entries) /\ entries # <<>> /\ SentForEntry(s[k], entries, k - o)
           \/ k <= o /\ Len(s[k]) = 1 /\ Final(s[k]) = LegacyCommentEvent
           \/ /\ k = o + 1 /\ entries = <<>>
              /\ version # NoVersion /\ Len(s[k]) = 1 /\ Final(s[k]) = InitialEvent(version)
<1>1. o \in {0, 1} /\ Len(entries) \in Nat /\ Len(s) \in Nat
    BY DEF InitialShape
<1>2. CASE k <= o
  <2>1. k = 1 /\ s[1] = <<LegacyCommentEvent>>
      BY <1>1, <1>2 DEF InitialShape
  <2> QED BY <1>2, <2>1 DEF Final
<1>3. CASE ~(k <= o) /\ entries = <<>>
  <2>1. version # NoVersion /\ k = o + 1 /\ s[k] = <<InitialEvent(version)>>
      BY <1>1, <1>3 DEF InitialShape
  <2> QED BY <1>3, <2>1 DEF Final
<1>4. CASE ~(k <= o) /\ entries # <<>>
  <2>1. Len(s) = o + Len(entries) /\ \A l \in 1 .. Len(entries) : s[o + l] = SentFor(entries, l)
      BY <1>4 DEF InitialShape
  <2>2. k - o \in 1 .. Len(entries) /\ o + (k - o) = k
      BY <1>1, <1>4, <2>1
  <2>3. s[k] = SentFor(entries, k - o)
      BY <2>1, <2>2
  <2>4. CASE k - o = 1 \/ entries[k - o].ver # entries[(k - o) - 1].ver
    <3>1. s[k] = <<InitialEvent(entries[k - o].ver), entries[k - o].event>>
        BY <2>3, <2>4 DEF SentFor
    <3> QED BY <1>4, <2>2, <3>1 DEF SentForEntry, Final
  <2>5. CASE ~(k - o = 1 \/ entries[k - o].ver # entries[(k - o) - 1].ver)
    <3>1. s[k] = <<entries[k - o].event>>
        BY <2>3, <2>5 DEF SentFor
    <3>2. (k - o) - 1 \in 1 .. Len(entries)
        BY <1>1, <2>2, <2>5
    <3> QED BY <1>4, <2>2, <2>5, <3>1, <3>2 DEF SentForEntry, Final
  <2> QED BY <2>4, <2>5
<1> QED BY <1>2, <1>3, <1>4

\* What the registration of c leaves in its channels.
Registered(c, entries) ==
    /\ c \in Clients /\ pc[c] # "closed" /\ IsReplay(entries)
    /\ entries = Replay(buffer, request[c].start)
    /\ \E o : InitialShape(initial'[c], o, entries, latest)
    /\ replayed'[c] = {entries[i].event.serial : i \in 1 .. Len(entries)}
    /\ reg'[c] = handled
    /\ initialIds'[c] = {} /\ delivered'[c] = <<>> /\ pos'[c] = pos[c] /\ sub'[c] = sub[c] /\ pos[c] = sub[c]
    /\ UNCHANGED serverVars

LEMMA RegisterSpec ==
    ASSUME WindowInv, BufferOrdered, \A c \in Clients : Registration(c), RegisterNewSubscriber
    PROVE  \E c \in Clients :
               /\ \A d \in Clients \ {c} : SameCourse(d)
               /\ SameCourse(c) \/ \E entries : Registered(c, entries)
<1>1. /\ newcomers \in Seq(Clients) /\ Len(newcomers) \in Nat /\ latest \in Nat
      /\ initialOpen \in [Clients -> BOOLEAN]
      /\ initial \in [Clients -> Seq(Seq(Events) \ {<<>>})] /\ replayed \in [Clients -> SUBSET Nat]
      /\ reg \in [Clients -> Nat \cup {NoId}]
    BY DEF WindowInv, TypeOK
<1>2. PICK c \in Clients : c = Head(newcomers) /\ c = newcomers[1] /\ 1 \in 1 .. Len(newcomers)
    BY <1>1 DEF RegisterNewSubscriber
<1>3. \A d \in Clients \ {c} : SameCourse(d)
    BY <1>1, <1>2 DEF RegisterNewSubscriber, SameCourse
<1>4. /\ initialOpen[c] /\ reg[c] = NoId /\ replayed[c] = {} /\ initial[c] = <<>> /\ initialIds[c] = {}
      /\ delivered[c] = <<>> /\ pos[c] = sub[c]
    BY <1>2 DEF Registration
<1>5. ASSUME pc[c] = "closed" PROVE SameCourse(c)
  <2>1. reg'[c] = NoId /\ initial'[c] = <<>> /\ replayed'[c] = {<<>>[i].event.serial : i \in 1 .. Len(<<>>)}
      BY <1>1, <1>2, <1>5 DEF RegisterNewSubscriber
  <2>2. UNCHANGED <<initialIds, pos, delivered, sub>> /\ Len(<<>>) = 0
      BY DEF RegisterNewSubscriber
  <2> QED BY <1>4, <2>1, <2>2 DEF SameCourse
<1>6. ASSUME pc[c] # "closed" PROVE \E entries : Registered(c, entries)
  <2> DEFINE entries == Replay(buffer, request[c].start)
  <2>1. /\ initial'[c] = InitialEvents(entries, latest)
        /\ replayed'[c] = {entries[i].event.serial : i \in 1 .. Len(entries)}
        /\ reg'[c] = handled
        /\ UNCHANGED <<serverVars, initialIds, pos, delivered, sub>>
      BY <1>1, <1>2, <1>6 DEF RegisterNewSubscriber
  <2>2. IsReplay(entries) /\ entries \in Seq(Entries)
      BY ReplaySpec DEF IsReplay
  <2> HIDE DEF entries
  <2>3. \E o : InitialShape(initial'[c], o, entries, latest)
      BY <1>1, <2>1, <2>2, InitialEventsSpec
  <2>4. Registered(c, entries)
      BY <1>4, <1>6, <2>1, <2>2, <2>3 DEF Registered, entries
  <2> QED BY <2>4
<1> QED BY <1>3, <1>5, <1>6

LEMMA RegisterCourse ==
    ASSUME WindowInv, TypeOK', NEW c \in Clients, Course(c), NEW entries, Registered(c, entries)
    PROVE  Course(c)'
<1> DEFINE s == initial'[c]
           R == replayed'[c]
<1>1. PICK o : InitialShape(s, o, entries, latest)
    BY DEF Registered
<1>2. /\ IsReplay(entries) /\ R = {entries[i].event.serial : i \in 1 .. Len(entries)} /\ reg'[c] = handled
      /\ initialIds'[c] = {} /\ delivered'[c] = <<>> /\ pos'[c] = pos[c] /\ sub'[c] = sub[c]
      /\ published' = published /\ handled' = handled /\ server' = server
    BY DEF Registered, serverVars
<1>3. /\ handled \in Nat /\ Len(published) \in Nat /\ handled <= Len(published) /\ latest \in Nat
      /\ entries \in Seq(Entries) /\ o \in {0, 1} /\ s \in Seq(Groups) /\ Len(s) \in Nat /\ Len(entries) \in Nat
  <2>1. handled \in 0 .. Len(published) /\ Len(published) \in Nat /\ latest \in Nat
      BY DEF WindowInv, TypeOK
  <2>2. s \in Seq(Groups) /\ o \in {0, 1} /\ entries \in Seq(Entries)
      BY <1>1, <1>2 DEF InitialShape, IsReplay
  <2>3. Len(s) \in Nat /\ Len(entries) \in Nat
      BY <2>2
  <2> QED BY <2>1, <2>2, <2>3
<1> HIDE DEF s, R
<1>4. /\ ~IsData(LegacyCommentEvent) /\ LegacyCommentEvent.id = NoId
      /\ ~IsData(InitialEvent(latest)) /\ InitialEvent(latest).id = NoId
    BY DEF IsData, LegacyCommentEvent, InitialEvent
<1>5. \A i \in R : i \in 1 .. handled /\ IsData(published[i])
    BY <1>2 DEF IsReplay
<1>6. Positions(c)'
  <2>1. LogLen' = LogLen
      BY <1>2 DEF LogLen, ShutdownSent
  <2>2. \A i \in replayed'[c] : i \in 1 .. Len(published') /\ i <= reg'[c] /\ IsData(published'[i])
    <3>1. \A i \in R : i \in 1 .. Len(published) /\ i <= handled /\ IsData(published[i])
        BY <1>3, <1>5
    <3> QED BY <1>2, <3>1 DEF R
  <2>3. reg'[c] <= handled' /\ sub'[c] <= pos'[c] /\ pos'[c] <= LogLen' + 1
      BY <1>2, <1>3, <2>1 DEF Course, Positions
  <2> QED BY <2>2, <2>3 DEF Positions, IsData
<1>7. ASSUME NEW k \in 1 .. Len(s)
      PROVE  /\ Len(s[k]) \in {1, 2}
             /\ Len(s[k]) = 2 => s[k][1].kind = "ApiVersion" /\ s[k][1].id = NoId /\ IsData(s[k][2])
             /\ IsData(Final(s[k])) => /\ Final(s[k]).serial \in R /\ published[Final(s[k]).serial] = Final(s[k])
                                       /\ k - o \in 1 .. Len(entries) /\ Final(s[k]) = entries[k - o].event
             /\ ~IsData(Final(s[k])) => Final(s[k]).id = NoId
  <2>1. CASE k - o \in 1 .. Len(entries) /\ SentForEntry(s[k], entries, k - o)
    <3>1. /\ IsData(entries[k - o].event) /\ published[entries[k - o].event.serial] = entries[k - o].event
          /\ entries[k - o].event.serial \in R
        BY <1>2, <2>1 DEF IsReplay
    <3>2. InitialEvent(entries[k - o].ver).kind = "ApiVersion" /\ InitialEvent(entries[k - o].ver).id = NoId
        BY DEF InitialEvent
    <3> QED BY <2>1, <3>1, <3>2 DEF SentForEntry
  <2>2. CASE Len(s[k]) = 1 /\ (Final(s[k]) = LegacyCommentEvent \/ Final(s[k]) = InitialEvent(latest))
      BY <1>4, <2>2
  <2> QED BY <1>1, <1>3, <2>1, <2>2, ShapeGroups
<1>8. \A k \in 1 .. Len(s) : GroupOf(c, initial[c][k])'
    BY <1>2, <1>7 DEF GroupOf, Final, IsData, s, R
<1>9. ASSUME NEW k \in 1 .. Len(s), NEW l \in 1 .. Len(s), k < l, IsData(Final(s[k])), IsData(Final(s[l]))
      PROVE  Final(s[k]).serial < Final(s[l]).serial
  <2>1. /\ k - o \in 1 .. Len(entries) /\ Final(s[k]) = entries[k - o].event
        /\ l - o \in 1 .. Len(entries) /\ Final(s[l]) = entries[l - o].event
      BY <1>7, <1>9
  <2>2. k - o < l - o
      BY <1>3, <1>9
  <2> QED BY <1>2, <2>1, <2>2 DEF IsReplay
<1>10. ASSUME NEW i \in R PROVE \E k \in 1 .. Len(s) : IsData(Final(s[k])) /\ Final(s[k]).serial = i
  <2>1. PICK j \in 1 .. Len(entries) : i = entries[j].event.serial
      BY <1>2
  <2>2. entries # <<>>
      BY <2>1
  <2>3. o + j \in 1 .. Len(s) /\ s[o + j] = SentFor(entries, j)
      BY <1>1, <1>3, <2>2 DEF InitialShape
  <2>4. Final(SentFor(entries, j)) = entries[j].event
      BY DEF SentFor, Final
  <2>5. IsData(entries[j].event)
      BY <1>2 DEF IsReplay
  <2> QED BY <2>1, <2>3, <2>4, <2>5
<1>11. Queued(c)'
    BY <1>8, <1>9, <1>10 DEF Queued, Pending, Final, IsData, s, R
<1>12. SentBefore(c)' /\ InOrder(c)'
  <2>1. Len(<<>>) = 0
      OBVIOUS
  <2> QED BY <1>2, <2>1 DEF SentBefore, InOrder
<1> QED BY <1>6, <1>11, <1>12 DEF Course

-----------------------------------------------------------------------------
\* What a stream does.

LEMMA SubscribeCourse ==
    ASSUME TypeOK, NEW c \in Clients, Registration(c), Course(c), Subscribe(c)
    PROVE  Course(c)' /\ \A d \in Clients \ {c} : SameCourse(d)
<1>1. /\ pos'[c] = LogLen + 1 /\ sub'[c] = LogLen + 1 /\ delivered'[c] = <<>>
      /\ UNCHANGED <<published, handled, server, initial, initialIds, replayed, reg>>
    BY DEF Subscribe, Registration, TypeOK, serverVars
<1>2. LogLen' = LogLen /\ LogLen \in Nat
    BY <1>1, ClientTypes DEF LogLen, ShutdownSent
<1>3. Positions(c)'
    BY <1>1, <1>2 DEF Course, Positions, IsData
<1>4. Queued(c)'
    BY <1>1 DEF Course, Queued, Pending, GroupOf, Final, IsData
<1>5. SentBefore(c)' /\ InOrder(c)'
  <2>1. Len(<<>>) = 0
      OBVIOUS
  <2> QED BY <1>1, <2>1 DEF SentBefore, InOrder
<1>6. \A d \in Clients \ {c} : SameCourse(d)
    BY DEF Subscribe, SameCourse, TypeOK
<1> QED BY <1>3, <1>4, <1>5, <1>6 DEF Course

LEMMA EndCourse ==
    ASSUME TypeOK, NEW c \in Clients, EndStream(c)
    PROVE  Course(c)' /\ \A d \in Clients \ {c} : SameCourse(d)
<1>1. /\ pos'[c] = 1 /\ sub'[c] = 1 /\ delivered'[c] = <<>>
      /\ initial'[c] = <<>> /\ replayed'[c] = {} /\ reg'[c] = NoId
      /\ UNCHANGED <<published, handled, server>>
    BY DEF EndStream, TypeOK, serverVars
<1>2. LogLen' = LogLen /\ LogLen \in Nat /\ handled \in Nat
    BY <1>1, ClientTypes DEF LogLen, ShutdownSent
<1>3. Len(<<>>) = 0
    OBVIOUS
<1>4. Positions(c)'
    BY <1>1, <1>2 DEF Positions, NoId
<1>5. Queued(c)'
    BY <1>1, <1>3 DEF Queued
<1>6. SentBefore(c)' /\ InOrder(c)'
    BY <1>1, <1>3 DEF SentBefore, InOrder
<1>7. \A d \in Clients \ {c} : SameCourse(d)
    BY DEF EndStream, SameCourse, TypeOK
<1> QED BY <1>4, <1>5, <1>6, <1>7 DEF Course

\* The stream of c takes the next event of its initial channel.
Takes(c, event) ==
    /\ event \in Events /\ 1 \in 1 .. Len(initial[c])
    /\ delivered'[c] = Written(c, event)
    /\ initialIds'[c] = IF event.id = NoId THEN initialIds[c] ELSE initialIds[c] \cup {event.id}
    /\ \/ /\ Len(initial[c][1]) = 1 /\ event = Final(initial[c][1])
          /\ Len(initial'[c]) = Len(initial[c]) - 1
          /\ \A k \in 1 .. Len(initial'[c]) : k + 1 \in 2 .. Len(initial[c]) /\ initial'[c][k] = initial[c][k + 1]
       \/ /\ Len(initial[c][1]) = 2 /\ event = initial[c][1][1]
          /\ ~IsData(event) /\ event.kind = "ApiVersion" /\ event.id = NoId
          /\ Len(initial'[c]) = Len(initial[c])
          /\ Len(initial'[c][1]) = 1 /\ Final(initial'[c][1]) = Final(initial[c][1])
          /\ \A k \in 2 .. Len(initial[c]) : initial'[c][k] = initial[c][k]
    /\ pos'[c] = pos[c] /\ sub'[c] = sub[c] /\ reg'[c] = reg[c] /\ replayed'[c] = replayed[c]
    /\ UNCHANGED <<serverVars, pc, request, initialOpen, newcomers>>

LEMMA StreamInitialSpec ==
    ASSUME TypeOK, NEW c \in Clients, Queued(c), StreamInitial(c)
    PROVE  (\E event : Takes(c, event)) /\ \A d \in Clients \ {c} : SameCourse(d)
<1> DEFINE s == initial[c]
           sent == Head(s)
           event == Head(sent)
<1>1. s \in Seq(Groups) /\ s # <<>> /\ Len(s) \in Nat
    BY ClientTypes DEF StreamInitial
<1>2. /\ initial'[c] = IF Len(sent) = 1 THEN Tail(s) ELSE <<Tail(sent)>> \o Tail(s)
      /\ initialIds'[c] = IF event.id = NoId THEN initialIds[c] ELSE initialIds[c] \cup {event.id}
      /\ delivered'[c] = Written(c, event)
      /\ pos'[c] = pos[c] /\ sub'[c] = sub[c] /\ reg'[c] = reg[c] /\ replayed'[c] = replayed[c]
      /\ UNCHANGED <<serverVars, pc, request, initialOpen, newcomers>>
    BY DEF StreamInitial, TypeOK, history
<1>3. \A d \in Clients \ {c} : SameCourse(d)
    BY DEF StreamInitial, SameCourse, TypeOK, history
<1> HIDE DEF s
<1>4. /\ 1 \in 1 .. Len(s) /\ sent = s[1] /\ s[1] \in Groups /\ Tail(s) \in Seq(Groups) /\ Len(Tail(s)) = Len(s) - 1
      /\ \A k \in 1 .. Len(s) - 1 : Tail(s)[k] = s[k + 1]
    BY <1>1, HeadTailProperties
<1>5. GroupOf(c, s[1])
    BY <1>4 DEF Queued, s
<1>6. s[1] \in Seq(Events) /\ Len(s[1]) \in {1, 2} /\ event = s[1][1] /\ event \in Events
    BY <1>4, <1>5 DEF Groups, GroupOf
<1>7. CASE Len(s[1]) = 1
  <2>1. initial'[c] = Tail(s) /\ event = Final(s[1])
      BY <1>2, <1>4, <1>6, <1>7 DEF Final
  <2>2. /\ Len(initial'[c]) = Len(s) - 1
        /\ \A k \in 1 .. Len(initial'[c]) : k + 1 \in 2 .. Len(s) /\ initial'[c][k] = s[k + 1]
      BY <1>1, <1>4, <2>1
  <2> HIDE DEF event, sent
  <2> QED BY <1>2, <1>3, <1>4, <1>6, <1>7, <2>1, <2>2 DEF Takes, s
<1>8. CASE Len(s[1]) = 2
  <2>1. initial'[c] = <<Tail(s[1])>> \o Tail(s)
    <3>1. sent = s[1]
        BY <1>4
    <3> HIDE DEF sent
    <3>2. Len(sent) # 1
        BY <1>8, <3>1
    <3> QED BY <1>2, <3>1, <3>2
  <2>2. Tail(s[1]) \in Groups /\ Len(Tail(s[1])) = 1 /\ Final(Tail(s[1])) = Final(s[1])
    <3>1. s[1] # <<>>
        BY <1>8
    <3>2. /\ Tail(s[1]) \in Seq(Events) /\ Len(Tail(s[1])) = Len(s[1]) - 1
          /\ \A i \in 1 .. Len(Tail(s[1])) : Tail(s[1])[i] = s[1][i + 1]
        BY <1>6, <3>1, HeadTailProperties
    <3>3. Len(Tail(s[1])) = 1 /\ Tail(s[1])[1] = s[1][2]
        BY <1>8, <3>2
    <3>4. Tail(s[1]) # <<>>
        BY <3>3
    <3> QED BY <1>8, <3>2, <3>3, <3>4 DEF Final, Groups
  <2>3. /\ event.kind = "ApiVersion" /\ event.id = NoId /\ ~IsData(event)
      BY <1>5, <1>6, <1>8 DEF GroupOf, IsData
  <2>4. /\ Len(initial'[c]) = Len(s)
        /\ Len(initial'[c][1]) = 1 /\ Final(initial'[c][1]) = Final(s[1])
        /\ \A k \in 2 .. Len(s) : initial'[c][k] = s[k]
    <3> DEFINE h == <<Tail(s[1])>>
               t == Tail(s)
    <3>1. h \in Seq(Groups) /\ Len(h) = 1 /\ h[1] = Tail(s[1])
        BY <2>2
    <3>2. initial'[c] = h \o t
        BY <2>1, <2>2
    <3>3. t \in Seq(Groups) /\ Len(t) = Len(s) - 1 /\ \A k \in 1 .. Len(s) - 1 : t[k] = s[k + 1]
        BY <1>4
    <3> HIDE DEF h, t
    <3>4. /\ Len(h \o t) = Len(h) + Len(t)
          /\ \A i \in 1 .. Len(h) + Len(t) : (h \o t)[i] = IF i <= Len(h) THEN h[i] ELSE t[i - Len(h)]
        BY <3>1, <3>3, ConcatProperties
    <3>5. Len(initial'[c]) = Len(s) /\ initial'[c][1] = h[1]
        BY <1>1, <1>4, <3>1, <3>2, <3>3, <3>4
    <3>6. ASSUME NEW k \in 2 .. Len(s) PROVE initial'[c][k] = s[k]
      <4>1. /\ k \in 1 .. Len(h) + Len(t) /\ ~(k <= Len(h))
            /\ k - Len(h) = k - 1 /\ k - 1 \in 1 .. Len(s) - 1 /\ (k - 1) + 1 = k
          BY <1>1, <3>1, <3>3
      <4> QED BY <3>2, <3>3, <3>4, <4>1
    <3> QED BY <2>2, <3>1, <3>5, <3>6
  <2> HIDE DEF event, sent
  <2> QED BY <1>2, <1>3, <1>4, <1>6, <1>8, <2>3, <2>4 DEF Takes, s
<1> QED BY <1>6, <1>7, <1>8

\* What a response is after its stream has yielded an event.
LEMMA WrittenSpec ==
    ASSUME TypeOK, NEW c \in Clients, NEW event \in Events, NEW response, response = Written(c, event)
    PROVE  \/ response = delivered[c] /\ ~Passes(event, request[c].endpoint)
           \/ /\ Passes(event, request[c].endpoint)
              /\ Len(response) = Len(delivered[c]) + 1 /\ response[Len(delivered[c]) + 1] = event
              /\ \A i \in 1 .. Len(delivered[c]) : response[i] = delivered[c][i]
<1>1. delivered[c] \in Seq(Events)
    BY ClientTypes
<1>2. CASE Passes(event, request[c].endpoint)
  <2>1. response = Append(delivered[c], event)
      BY <1>2 DEF Written
  <2> QED BY <1>1, <1>2, <2>1, AppendProperties
<1>3. CASE ~Passes(event, request[c].endpoint)
    BY <1>3 DEF Written
<1> QED BY <1>2, <1>3

\* What is left of the initial channel: q groups were taken from its head.
Rest(c, event, q) ==
    /\ q \in {0, 1} /\ Len(initial'[c]) = Len(initial[c]) - q
    /\ q = 0 => ~IsData(event) /\ event.id = NoId
    /\ q = 1 => event = Final(initial[c][1])
    /\ \A k \in 1 .. Len(initial'[c]) :
          /\ k + q \in 1 .. Len(initial[c]) /\ k + q > q
          /\ Final(initial'[c][k]) = Final(initial[c][k + q])
          /\ GroupOf(c, initial'[c][k])
    /\ \A l \in 1 .. Len(initial[c]) : l > q => l - q \in 1 .. Len(initial'[c]) /\ (l - q) + q = l

LEMMA TakesRest ==
    ASSUME TypeOK, NEW c \in Clients, Queued(c), NEW event, Takes(c, event)
    PROVE  \E q : Rest(c, event, q)
<1>1. Len(initial[c]) \in Nat /\ 1 \in 1 .. Len(initial[c])
    BY ClientTypes DEF Takes
<1>2. CASE Len(initial[c][1]) = 1
  <2>1. /\ event = Final(initial[c][1]) /\ Len(initial'[c]) = Len(initial[c]) - 1
        /\ \A k \in 1 .. Len(initial'[c]) : k + 1 \in 2 .. Len(initial[c]) /\ initial'[c][k] = initial[c][k + 1]
      BY <1>2 DEF Takes
  <2>2. \A k \in 1 .. Len(initial'[c]) : k + 1 \in 1 .. Len(initial[c]) /\ k + 1 > 1
      BY <1>1, <2>1
  <2>3. \A k \in 1 .. Len(initial'[c]) :
            Final(initial'[c][k]) = Final(initial[c][k + 1]) /\ GroupOf(c, initial'[c][k])
      BY <2>1, <2>2 DEF Queued
  <2>4. \A l \in 1 .. Len(initial[c]) : l > 1 => l - 1 \in 1 .. Len(initial'[c]) /\ (l - 1) + 1 = l
      BY <1>1, <2>1
  <2>5. Rest(c, event, 1)
      BY <2>1, <2>2, <2>3, <2>4 DEF Rest
  <2> QED BY <2>5
<1>3. CASE Len(initial[c][1]) # 1
  <2>1. /\ ~IsData(event) /\ event.id = NoId /\ Len(initial'[c]) = Len(initial[c])
        /\ Len(initial'[c][1]) = 1 /\ Final(initial'[c][1]) = Final(initial[c][1])
        /\ \A k \in 2 .. Len(initial[c]) : initial'[c][k] = initial[c][k]
      BY <1>3 DEF Takes
  <2>2. GroupOf(c, initial'[c][1])
    <3>1. GroupOf(c, initial[c][1])
        BY <1>1 DEF Queued
    <3> QED BY <2>1, <3>1 DEF GroupOf
  <2>3. \A k \in 1 .. Len(initial'[c]) : Final(initial'[c][k]) = Final(initial[c][k]) /\ GroupOf(c, initial'[c][k])
    <3>1. ASSUME NEW k \in 2 .. Len(initial[c])
          PROVE  Final(initial'[c][k]) = Final(initial[c][k]) /\ GroupOf(c, initial'[c][k])
      <4>1. k \in 1 .. Len(initial[c])
          BY <1>1
      <4> QED BY <2>1, <4>1 DEF Queued
    <3>2. \A k \in 1 .. Len(initial[c]) : k = 1 \/ k \in 2 .. Len(initial[c])
        BY <1>1
    <3> QED BY <2>1, <2>2, <3>1, <3>2
  <2>4. \A k \in 1 .. Len(initial'[c]) : k + 0 = k /\ k + 0 \in 1 .. Len(initial[c]) /\ k + 0 > 0
      BY <1>1, <2>1
  <2>5. \A l \in 1 .. Len(initial[c]) : l - 0 \in 1 .. Len(initial'[c]) /\ (l - 0) + 0 = l
      BY <1>1, <2>1
  <2>6. Len(initial'[c]) = Len(initial[c]) - 0
      BY <1>1, <2>1
  <2>7. Rest(c, event, 0)
      BY <2>1, <2>3, <2>4, <2>5, <2>6 DEF Rest
  <2> QED BY <2>7
<1> QED BY <1>2, <1>3

LEMMA InitialCourse ==
    ASSUME WindowInv, NEW c \in Clients, Course(c), NEW event, Takes(c, event)
    PROVE  Course(c)'
<1>0. TypeOK /\ PublishedNumbered
    BY DEF WindowInv
<1>1. /\ event \in Events /\ 1 \in 1 .. Len(initial[c]) /\ delivered'[c] = Written(c, event)
      /\ initialIds'[c] = IF event.id = NoId THEN initialIds[c] ELSE initialIds[c] \cup {event.id}
      /\ pos'[c] = pos[c] /\ sub'[c] = sub[c] /\ reg'[c] = reg[c] /\ replayed'[c] = replayed[c]
      /\ UNCHANGED <<published, handled, server>>
    BY DEF Takes, serverVars
<1>2. PICK q : Rest(c, event, q)
    BY <1>0, TakesRest DEF Course
<1>3. /\ Len(initial[c]) \in Nat /\ Len(delivered[c]) \in Nat /\ pos[c] \in Nat /\ sub[c] \in Nat
      /\ Len(published) \in Nat /\ q \in {0, 1} /\ replayed[c] \in SUBSET Nat
    BY <1>0, <1>2, ClientTypes DEF Rest
<1>4. Positions(c)'
  <2>1. LogLen' = LogLen
      BY <1>1 DEF LogLen, ShutdownSent
  <2> QED BY <1>1, <2>1 DEF Course, Positions, IsData
<1>5. ASSUME IsData(event)
      PROVE  /\ q = 1 /\ event.serial \in replayed[c] /\ published[event.serial] = event
             /\ event = Final(initial[c][1]) /\ event.id # NoId
  <2>1. q = 1 /\ event = Final(initial[c][1])
      BY <1>2, <1>5 DEF Rest
  <2>2. event.serial \in replayed[c] /\ published[event.serial] = event
      BY <1>1, <1>5, <2>1 DEF Course, Queued, GroupOf
  <2>3. event.serial \in 1 .. Len(published) /\ IsData(published[event.serial])
      BY <2>2 DEF Course, Positions
  <2>4. published[event.serial].id \in Ids
      BY <1>0, <2>3 DEF PublishedNumbered
  <2>5. event.id # NoId
      BY <2>2, <2>4, ConstantsAssumption DEF Ids, NoId
  <2> QED BY <2>1, <2>2, <2>5
<1>6. Queued(c)'
  <2>1. \A k \in 1 .. Len(initial'[c]) : GroupOf(c, initial[c][k])'
      BY <1>1, <1>2 DEF Rest, GroupOf, Final, IsData
  <2>2. ASSUME NEW k \in 1 .. Len(initial'[c]), NEW l \in 1 .. Len(initial'[c]), k < l,
               IsData(Final(initial'[c][k])), IsData(Final(initial'[c][l]))
        PROVE  Final(initial'[c][k]).serial < Final(initial'[c][l]).serial
    <3>1. /\ k + q \in 1 .. Len(initial[c]) /\ l + q \in 1 .. Len(initial[c])
          /\ Final(initial'[c][k]) = Final(initial[c][k + q]) /\ Final(initial'[c][l]) = Final(initial[c][l + q])
        BY <1>2 DEF Rest
    <3>2. k + q < l + q
        BY <1>3, <2>2
    <3> QED BY <2>2, <3>1, <3>2 DEF Course, Queued
  <2>3. ASSUME NEW i \in replayed[c]
        PROVE  \/ \E k \in 1 .. Len(initial'[c]) : IsData(Final(initial'[c][k])) /\ Final(initial'[c][k]).serial = i
               \/ published[i].id \in initialIds'[c]
    <3>1. CASE published[i].id \in initialIds[c]
        BY <1>1, <3>1
    <3>2. ASSUME NEW l \in 1 .. Len(initial[c]), IsData(Final(initial[c][l])), Final(initial[c][l]).serial = i, l > q
          PROVE  \E k \in 1 .. Len(initial'[c]) : IsData(Final(initial'[c][k])) /\ Final(initial'[c][k]).serial = i
      <4>1. l - q \in 1 .. Len(initial'[c]) /\ Final(initial'[c][l - q]) = Final(initial[c][l])
          BY <1>2, <3>2 DEF Rest
      <4> QED BY <3>2, <4>1
    <3>3. ASSUME NEW l \in 1 .. Len(initial[c]), IsData(Final(initial[c][l])),
                 Final(initial[c][l]).serial = i, ~(l > q)
          PROVE  published[i].id \in initialIds'[c]
      <4>1. q = 1 /\ l = 1 /\ event = Final(initial[c][1])
          BY <1>2, <1>3, <3>3 DEF Rest
      <4>2. event.serial = i /\ published[i] = event /\ event.id # NoId
          BY <1>5, <3>3, <4>1
      <4> QED BY <1>1, <4>2
    <3> QED BY <3>1, <3>2, <3>3 DEF Course, Queued, Pending
  <2> QED BY <1>1, <2>1, <2>2, <2>3 DEF Queued, Pending, Final, IsData
<1>7. ASSUME NEW j \in 1 .. Len(delivered'[c])
      PROVE  \/ j \in 1 .. Len(delivered[c]) /\ delivered'[c][j] = delivered[c][j]
             \/ j = Len(delivered[c]) + 1 /\ delivered'[c][j] = event
  <2>1. CASE delivered'[c] = delivered[c]
      BY <2>1, Zenon
  <2>2. CASE delivered'[c] # delivered[c]
    <3>1. /\ Len(delivered'[c]) = Len(delivered[c]) + 1 /\ delivered'[c][Len(delivered[c]) + 1] = event
          /\ \A i \in 1 .. Len(delivered[c]) : delivered'[c][i] = delivered[c][i]
        BY <1>0, <1>1, <2>2, WrittenSpec
    <3>2. j \in 1 .. Len(delivered[c]) \/ j = Len(delivered[c]) + 1
        BY <1>3, <3>1
    <3> QED BY <3>1, <3>2
  <2> QED BY <2>1, <2>2
<1>8. \A k \in 1 .. Len(initial'[c]) :
          IsData(Final(initial'[c][k])) /\ IsData(event) => event.serial < Final(initial'[c][k]).serial
  <2> SUFFICES ASSUME NEW k \in 1 .. Len(initial'[c]), IsData(Final(initial'[c][k])), IsData(event)
               PROVE  event.serial < Final(initial'[c][k]).serial
      OBVIOUS
  <2>1. k + q \in 1 .. Len(initial[c]) /\ 1 < k + q /\ Final(initial'[c][k]) = Final(initial[c][k + q])
      BY <1>2, <1>3, <1>5 DEF Rest
  <2> QED BY <1>1, <1>5, <2>1 DEF Course, Queued
<1>9. SentBefore(c)'
  <2>1. ASSUME NEW j \in 1 .. Len(delivered'[c]), IsData(delivered'[c][j])
        PROVE  /\ delivered'[c][j].serial \in 1 .. Len(published)
               /\ published[delivered'[c][j].serial] = delivered'[c][j]
               /\ delivered'[c][j].serial \in replayed[c] \/ delivered'[c][j].serial \in sub[c] .. pos[c] - 1
               /\ \A k \in 1 .. Len(initial'[c]) :
                     IsData(Final(initial'[c][k])) => delivered'[c][j].serial < Final(initial'[c][k]).serial
    <3>1. CASE j \in 1 .. Len(delivered[c]) /\ delivered'[c][j] = delivered[c][j]
        BY <1>2, <2>1, <3>1 DEF Course, SentBefore, Rest
    <3>2. CASE delivered'[c][j] = event
        BY <1>5, <1>8, <2>1, <3>2 DEF Course, Positions
    <3> QED BY <1>7, <3>1, <3>2
  <2> QED BY <1>1, <2>1 DEF SentBefore, Final, IsData
<1>10. InOrder(c)'
  <2>1. ASSUME NEW i \in 1 .. Len(delivered'[c]), NEW j \in 1 .. Len(delivered'[c]), i < j,
               IsData(delivered'[c][i]), IsData(delivered'[c][j])
        PROVE  \/ delivered'[c][i].serial < delivered'[c][j].serial
               \/ /\ delivered'[c][i].serial # delivered'[c][j].serial
                  /\ delivered'[c][i].serial \in replayed[c]
                  /\ delivered'[c][j].serial \in (sub[c] .. reg[c]) \ replayed[c]
    <3>1. i \in 1 .. Len(delivered[c]) /\ delivered'[c][i] = delivered[c][i]
      <4>1. j <= Len(delivered[c]) + 1
          BY <1>3, <1>7
      <4> QED BY <1>3, <1>7, <2>1, <4>1
    <3>2. CASE j \in 1 .. Len(delivered[c]) /\ delivered'[c][j] = delivered[c][j]
        BY <2>1, <3>1, <3>2 DEF Course, InOrder
    <3>3. CASE delivered'[c][j] = event
      <4>1. delivered[c][i].serial < Final(initial[c][1]).serial
          BY <1>1, <1>5, <2>1, <3>1, <3>3 DEF Course, SentBefore
      <4> QED BY <1>5, <2>1, <3>1, <3>3, <4>1
    <3> QED BY <1>7, <3>2, <3>3
  <2> QED BY <1>1, <2>1 DEF InOrder, IsData
<1> QED BY <1>4, <1>6, <1>9, <1>10 DEF Course

\* The stream of c takes the next event off the broadcast channel.
Reads(c, event) ==
    /\ pos[c] \in 1 .. Len(published) /\ pos[c] <= handled /\ event = published[pos[c]]
    /\ event \in Events /\ event.serial = pos[c]
    /\ initial[c] = <<>> /\ pos'[c] = pos[c] + 1
    /\ delivered'[c] = IF IsDuplicate(c, event) THEN delivered[c] ELSE Written(c, event)
    /\ initial'[c] = initial[c] /\ initialIds'[c] = initialIds[c] /\ sub'[c] = sub[c]
    /\ reg'[c] = reg[c] /\ replayed'[c] = replayed[c]
    /\ UNCHANGED <<serverVars, pc, request, initialOpen, newcomers>>

LEMMA StreamOngoingSpec ==
    ASSUME WindowInv, NEW c \in Clients, StreamOngoing(c)
    PROVE  Reads(c, published[pos[c]]) /\ \A d \in Clients \ {c} : SameCourse(d)
<1>0. TypeOK /\ PublishedNumbered
    BY DEF WindowInv
<1>1. pos[c] \in 1 .. Len(published) /\ pos[c] <= handled
    BY <1>0, ClientTypes DEF StreamOngoing
<1>2. published[pos[c]] \in Events /\ published[pos[c]].serial = pos[c]
    BY <1>0, <1>1 DEF TypeOK, PublishedNumbered
<1>3. /\ initial[c] = <<>> /\ pos'[c] = pos[c] + 1
      /\ delivered'[c] = IF IsDuplicate(c, published[pos[c]]) THEN delivered[c] ELSE Written(c, published[pos[c]])
      /\ initial'[c] = initial[c] /\ initialIds'[c] = initialIds[c] /\ sub'[c] = sub[c]
      /\ reg'[c] = reg[c] /\ replayed'[c] = replayed[c]
      /\ UNCHANGED <<serverVars, pc, request, initialOpen, newcomers>>
    BY <1>0 DEF StreamOngoing, InitialDone, TypeOK, history
<1>4. \A d \in Clients \ {c} : SameCourse(d)
    BY <1>0 DEF StreamOngoing, SameCourse, TypeOK, history
<1> QED BY <1>1, <1>2, <1>3, <1>4 DEF Reads

\* An event of the broadcast channel that is no duplicate was not replayed.
LEMMA FreshNotReplayed ==
    ASSUME WindowInv, NEW c \in Clients, Course(c), NEW event, Reads(c, event), IsData(event), ~IsDuplicate(c, event)
    PROVE  event.serial \notin replayed[c]
<1>1. /\ event = published[pos[c]] /\ event.serial = pos[c]
      /\ pos[c] \in 1 .. Len(published) /\ initial[c] = <<>> /\ Len(<<>>) = 0
    BY DEF Reads
<1>2. published[event.serial].id \in Ids /\ published[event.serial] = event
    BY <1>1 DEF WindowInv, PublishedNumbered
<1>3. event.id # NoId
    BY <1>2, ConstantsAssumption DEF Ids, NoId
<1>4. event.id \notin initialIds[c]
    BY <1>3 DEF IsDuplicate
<1>5. \A i : ~Pending(c, i)
    BY <1>1 DEF Pending
<1> QED BY <1>2, <1>4, <1>5 DEF Course, Queued

LEMMA OngoingCourse ==
    ASSUME WindowInv, NEW c \in Clients, Course(c), NEW event, Reads(c, event)
    PROVE  Course(c)'
<1>0. TypeOK /\ PublishedNumbered
    BY DEF WindowInv
<1>1. /\ event \in Events /\ event = published[pos[c]] /\ event.serial = pos[c]
      /\ pos[c] \in 1 .. Len(published) /\ pos[c] <= handled /\ pos'[c] = pos[c] + 1
      /\ delivered'[c] = IF IsDuplicate(c, event) THEN delivered[c] ELSE Written(c, event)
      /\ initial[c] = <<>> /\ initial'[c] = <<>> /\ Len(<<>>) = 0 /\ initialIds'[c] = initialIds[c]
      /\ sub'[c] = sub[c] /\ reg'[c] = reg[c] /\ replayed'[c] = replayed[c]
      /\ UNCHANGED <<published, handled, server>>
    BY DEF Reads, serverVars
<1>2. /\ Len(delivered[c]) \in Nat /\ pos[c] \in Nat /\ sub[c] \in Nat \ {0} /\ reg[c] \in Int
      /\ Len(published) \in Nat /\ replayed[c] \in SUBSET Nat
      /\ handled \in Nat /\ handled <= LogLen /\ LogLen \in Nat
    BY <1>0, ClientTypes
<1>3. Positions(c)'
  <2>1. LogLen' = LogLen
      BY <1>1 DEF LogLen, ShutdownSent
  <2> QED BY <1>1, <1>2, <2>1 DEF Course, Positions, IsData
<1>4. Queued(c)'
    BY <1>1 DEF Course, Queued, Pending
<1>5. ASSUME NEW j \in 1 .. Len(delivered'[c])
      PROVE  \/ j \in 1 .. Len(delivered[c]) /\ delivered'[c][j] = delivered[c][j]
             \/ j = Len(delivered[c]) + 1 /\ delivered'[c][j] = event /\ ~IsDuplicate(c, event)
  <2>1. CASE delivered'[c] = delivered[c]
      BY <2>1, Zenon
  <2>2. CASE delivered'[c] # delivered[c]
    <3>1. ~IsDuplicate(c, event) /\ delivered'[c] = Written(c, event)
        BY <1>1, <2>2
    <3>2. /\ Len(delivered'[c]) = Len(delivered[c]) + 1 /\ delivered'[c][Len(delivered[c]) + 1] = event
          /\ \A i \in 1 .. Len(delivered[c]) : delivered'[c][i] = delivered[c][i]
        BY <1>0, <1>1, <2>2, <3>1, WrittenSpec
    <3>3. j \in 1 .. Len(delivered[c]) \/ j = Len(delivered[c]) + 1
        BY <1>2, <3>2
    <3> QED BY <3>1, <3>2, <3>3
  <2> QED BY <2>1, <2>2
<1>6. ASSUME IsData(event), ~IsDuplicate(c, event) PROVE event.serial \notin replayed[c]
    BY <1>6, FreshNotReplayed
<1>7. SentBefore(c)'
  <2>1. ASSUME NEW j \in 1 .. Len(delivered'[c]), IsData(delivered'[c][j])
        PROVE  /\ delivered'[c][j].serial \in 1 .. Len(published)
               /\ published[delivered'[c][j].serial] = delivered'[c][j]
               /\ delivered'[c][j].serial \in replayed[c] \/ delivered'[c][j].serial \in sub[c] .. pos[c]
    <3>1. CASE j \in 1 .. Len(delivered[c]) /\ delivered'[c][j] = delivered[c][j]
        BY <1>2, <2>1, <3>1 DEF Course, SentBefore
    <3>2. CASE delivered'[c][j] = event
        BY <1>1, <1>2, <3>2 DEF Course, Positions
    <3> QED BY <1>5, <3>1, <3>2
  <2>2. pos'[c] - 1 = pos[c]
      BY <1>1, <1>2
  <2> QED BY <1>1, <2>1, <2>2 DEF SentBefore, IsData
<1>8. InOrder(c)'
  <2>1. ASSUME NEW i \in 1 .. Len(delivered'[c]), NEW j \in 1 .. Len(delivered'[c]), i < j,
               IsData(delivered'[c][i]), IsData(delivered'[c][j])
        PROVE  \/ delivered'[c][i].serial < delivered'[c][j].serial
               \/ /\ delivered'[c][i].serial # delivered'[c][j].serial
                  /\ delivered'[c][i].serial \in replayed[c]
                  /\ delivered'[c][j].serial \in (sub[c] .. reg[c]) \ replayed[c]
    <3>1. i \in 1 .. Len(delivered[c]) /\ delivered'[c][i] = delivered[c][i]
      <4>1. j <= Len(delivered[c]) + 1
          BY <1>2, <1>5
      <4> QED BY <1>2, <1>5, <2>1, <4>1
    <3>2. CASE j \in 1 .. Len(delivered[c]) /\ delivered'[c][j] = delivered[c][j]
        BY <2>1, <3>1, <3>2 DEF Course, InOrder
    <3>3. CASE delivered'[c][j] = event /\ ~IsDuplicate(c, event)
      <4>1. event.serial \notin replayed[c]
          BY <1>6, <2>1, <3>3
      <4>2. delivered[c][i].serial \in replayed[c] \/ delivered[c][i].serial \in sub[c] .. pos[c] - 1
          BY <2>1, <3>1 DEF Course, SentBefore
      <4>3. CASE delivered[c][i].serial \in sub[c] .. pos[c] - 1
        <5>1. delivered[c][i].serial < pos[c]
            BY <1>2, <4>3
        <5> QED BY <1>1, <3>1, <3>3, <5>1
      <4>4. CASE delivered[c][i].serial \in replayed[c]
        <5>1. delivered[c][i].serial <= reg[c] /\ delivered[c][i].serial \in Nat
            BY <1>2, <4>4 DEF Course, Positions
        <5>2. delivered[c][i].serial # event.serial /\ sub[c] <= event.serial /\ event.serial \in Nat
            BY <1>1, <1>2, <4>1, <4>4 DEF Course, Positions
        <5>3. delivered[c][i].serial < event.serial \/ event.serial \in sub[c] .. reg[c]
            BY <1>2, <5>1, <5>2
        <5> QED BY <3>1, <3>3, <4>1, <4>4, <5>2, <5>3
      <4> QED BY <4>2, <4>3, <4>4
    <3> QED BY <1>5, <3>2, <3>3
  <2> QED BY <1>1, <2>1 DEF InOrder, IsData
<1> QED BY <1>3, <1>4, <1>7, <1>8 DEF Course

-----------------------------------------------------------------------------
\* The order of delivery.

LEMMA CourseStep ==
    ASSUME StreamInv, [Next]_vars
    PROVE  \A c \in Clients : Course(c)'
<1>1. WindowInv /\ BufferOrdered /\ TypeOK /\ TypeOK' /\ Grown /\ \A c \in Clients : Registration(c) /\ Course(c)
    BY TypeStep, StepGrows DEF StreamInv, WindowInv
<1>2. \A c \in Clients : SameCourse(c) => Course(c)'
    BY <1>1, CourseGrows
<1>3. CASE UNCHANGED <<clientVars, history>>
    BY <1>2, <1>3 DEF SameCourse, clientVars, history
<1>4. CASE RegisterNewSubscriber
  <2>1. PICK c \in Clients :
            /\ \A d \in Clients \ {c} : SameCourse(d)
            /\ SameCourse(c) \/ \E entries : Registered(c, entries)
      BY <1>1, <1>4, RegisterSpec
  <2>2. Course(c)'
      BY <1>1, <1>2, <2>1, RegisterCourse
  <2> QED BY <1>2, <2>1, <2>2
<1>5. CASE ServerShutdown
    BY <1>2, <1>5 DEF ServerShutdown, SameCourse, history
<1>6. ASSUME NEW c \in Clients, (\E r \in Requests : Validate(c, r)) \/ SendSubscriberInfo(c)
      PROVE  \A d \in Clients : Course(d)'
    BY <1>2, <1>6 DEF Validate, SendSubscriberInfo, SameCourse, history
<1>7. ASSUME NEW c \in Clients, Subscribe(c) PROVE \A d \in Clients : Course(d)'
    BY <1>1, <1>2, <1>7, SubscribeCourse
<1>8. ASSUME NEW c \in Clients, StreamInitial(c) PROVE \A d \in Clients : Course(d)'
  <2>1. (\E event : Takes(c, event)) /\ \A d \in Clients \ {c} : SameCourse(d)
      BY <1>1, <1>8, StreamInitialSpec DEF Course
  <2>2. Course(c)'
      BY <1>1, <2>1, InitialCourse
  <2> QED BY <1>2, <2>1, <2>2
<1>9. ASSUME NEW c \in Clients, StreamOngoing(c) PROVE \A d \in Clients : Course(d)'
  <2>1. Reads(c, published[pos[c]]) /\ \A d \in Clients \ {c} : SameCourse(d)
      BY <1>1, <1>9, StreamOngoingSpec
  <2>2. PICK event : Reads(c, event)
      BY <2>1
  <2>3. Course(c)'
      BY <1>1, <2>2, OngoingCourse
  <2> QED BY <1>2, <2>1, <2>3
<1>10. ASSUME NEW c \in Clients, EndStream(c) PROVE \A d \in Clients : Course(d)'
    BY <1>1, <1>2, <1>10, EndCourse
<1>11. Producer \/ HandleIncomingData \/ BroadcastShutdown \/ UNCHANGED vars => UNCHANGED <<clientVars, history>>
    BY DEF Producer, BroadcastApiVersion, Broadcast, DropServer, HandleIncomingData, BroadcastShutdown, vars
<1> QED BY <1>3, <1>4, <1>5, <1>6, <1>7, <1>8, <1>9, <1>10, <1>11
        DEF Next, ServerTask, Handler, Stream, StreamShutdown, StreamLagged, Disconnect

LEMMA StreamStep ==
    ASSUME StreamInv, [Next]_vars
    PROVE  StreamInv'
<1>1. WindowInv'
    BY WindowStep DEF StreamInv
<1>2. BufferOrdered'
    BY BufferOrderStep DEF StreamInv
<1>3. AnnouncedPlain'
    BY AnnouncedStep DEF StreamInv, WindowInv
<1>4. NewcomersDistinct' /\ \A c \in Clients : Registration(c)'
    BY RegistrationStep DEF StreamInv, WindowInv
<1>5. \A c \in Clients : Course(c)'
    BY CourseStep
<1> QED BY <1>1, <1>2, <1>3, <1>4, <1>5 DEF StreamInv

LEMMA StreamInit == Init => StreamInv
<1> SUFFICES ASSUME Init PROVE StreamInv
    OBVIOUS
<1>1. WindowInv
    BY WindowInit
<1>2. published = <<>> /\ buffer = <<>> /\ newcomers = <<>> /\ Len(<<>>) = 0 /\ handled = 0 /\ LogLen = 0
    BY DEF Init, LogLen, ShutdownSent
<1>3. BufferOrdered /\ AnnouncedPlain /\ NewcomersDistinct
    BY <1>2 DEF BufferOrdered, AnnouncedPlain, NewcomersDistinct
<1>4. ASSUME NEW c \in Clients PROVE Registration(c) /\ Course(c)
  <2>1. /\ pc[c] = "idle" /\ initial[c] = <<>> /\ initialOpen[c] = FALSE /\ initialIds[c] = {} /\ pos[c] = 1
        /\ delivered[c] = <<>> /\ replayed[c] = {} /\ reg[c] = NoId /\ sub[c] = 1
      BY DEF Init
  <2>2. Registration(c)
      BY <1>2, <2>1 DEF Registration
  <2>3. Positions(c)
      BY <1>2, <2>1 DEF Positions, NoId
  <2>4. Queued(c) /\ SentBefore(c) /\ InOrder(c)
      BY <1>2, <2>1 DEF Queued, SentBefore, InOrder
  <2> QED BY <2>2, <2>3, <2>4 DEF Course
<1> QED BY <1>1, <1>3, <1>4 DEF StreamInv

LEMMA StreamCorrect == Spec => []StreamInv
<1>1. StreamInv /\ [Next]_vars => StreamInv'
    BY StreamStep
<1> QED BY <1>1, StreamInit, PTL DEF Spec

\* No client is sent an event twice or out of order, except that what was broadcast
\* between its subscription and its registration may come after the replayed events:
\* for every number of clients and events, and however the two channels of a client
\* are filled and read.
THEOREM OrderOfDelivery == Spec => []DeliveredInOrder
<1>1. StreamInv => DeliveredInOrder
    BY DEF StreamInv, Course, InOrder, DeliveredInOrder
<1> QED BY <1>1, StreamCorrect, PTL

-----------------------------------------------------------------------------
\* Losses.

\* How many ids were given since this one, itself included.
Ago(id) == IF id < index THEN index - id ELSE index + IdCount - id

\* While there are no more messages than ids, no id was given twice.
IdsApart ==
    /\ \A i \in 1 .. Len(published) : IsData(published[i]) => Ago(published[i].id) <= Len(published)
    /\ \A i, j \in 1 .. Len(published) :
          i < j /\ IsData(published[i]) /\ IsData(published[j]) => Ago(published[i].id) > Ago(published[j].id)

Sent(c, i) == \E j \in 1 .. Len(delivered[c]) : IsData(delivered[c][j]) /\ delivered[c][j].serial = i

Unwanted(c, i) == ~Passes(published[i], request[c].endpoint)

\* A replayed event is in the initial channel or was dealt with, only ids of replayed
\* events were noted, and what was taken off the broadcast channel was dealt with.
Kept(c) ==
    /\ \A i \in replayed[c] : Pending(c, i) \/ Sent(c, i) \/ Unwanted(c, i)
    /\ \A x \in initialIds[c] : \E i \in replayed[c] : published[i].id = x
    /\ \A i \in sub[c] .. pos[c] - 1 :
          /\ i \in 1 .. Len(published)
          /\ ~IsData(published[i]) \/ Unwanted(c, i) \/ Sent(c, i) \/ i \in replayed[c]

\* The inductive invariant behind NoLossOutsideSeam.
LossInv == MaxPublished <= IdCount => IdsApart /\ \A c \in Clients : Kept(c)

LEMMA IdsApartStep ==
    ASSUME WindowInv, IdsApart, MaxPublished <= IdCount, [Next]_vars
    PROVE  IdsApart'
<1>0. TypeOK /\ PublishedNumbered /\ index \in Ids /\ IdCount \in Nat /\ MaxPublished \in Nat
    BY ConstantsAssumption DEF WindowInv, TypeOK
<1>1. CASE UNCHANGED <<index, published>>
    BY <1>1 DEF IdsApart, Ago, IsData
<1>2. ASSUME NEW e \in Events, Publishes(e) PROVE IdsApart'
  <2> DEFINE n == Len(published)
  <2>1. /\ n \in Nat /\ Len(published') = n + 1 /\ published'[n + 1] = e
        /\ \A i \in 1 .. n : published'[i] = published[i]
      BY <1>0, <1>2, PublishGrows
  <2>2. n < IdCount
      BY <1>0, <1>2, <2>1 DEF Publishes
  <2>3. \A i \in 1 .. n : IsData(published[i]) => published[i].id \in Ids
      BY <1>0 DEF PublishedNumbered
  <2>4. CASE index' = index /\ ~IsData(e)
    <3>1. \A i \in 1 .. n + 1 : IsData(published'[i]) => i \in 1 .. n
        BY <2>1, <2>4
    <3>2. \A id \in Ids : Ago(id) \in Nat
        BY <1>0 DEF Ago, Ids
    <3>3. ASSUME NEW i \in 1 .. n + 1, IsData(published'[i]) PROVE Ago(published'[i].id) <= n + 1
      <4>1. i \in 1 .. n /\ published'[i] = published[i] /\ published[i].id \in Ids
          BY <2>1, <2>3, <3>1, <3>3
      <4>2. Ago(published[i].id) <= n /\ Ago(published[i].id) \in Nat
          BY <3>2, <3>3, <4>1 DEF IdsApart
      <4> QED BY <2>1, <4>1, <4>2
    <3>4. ASSUME NEW i \in 1 .. n + 1, NEW j \in 1 .. n + 1, i < j, IsData(published'[i]), IsData(published'[j])
          PROVE  Ago(published'[i].id) > Ago(published'[j].id)
      <4>1. i \in 1 .. n /\ published'[i] = published[i] /\ j \in 1 .. n /\ published'[j] = published[j]
          BY <2>1, <3>1, <3>4
      <4>2. Ago(published[i].id) > Ago(published[j].id)
          BY <3>4, <4>1 DEF IdsApart
      <4> QED BY <4>1, <4>2
    <3> QED BY <2>1, <2>4, <3>3, <3>4 DEF IdsApart, IsData, Ago
  <2>5. CASE IsData(e) /\ e.id = index /\ index' = Following(index)
    <3> DEFINE Next1(id) == IF id < Following(index) THEN Following(index) - id ELSE Following(index) + IdCount - id
    <3>1. \A id \in Ids : Ago(id) \in Nat /\ Ago(id) > 0 /\ (Ago(id) <= n => Next1(id) = Ago(id) + 1)
        BY <1>0, <2>1, <2>2 DEF Ago, Following, Ids
    <3>2. Next1(index) = 1
        BY <1>0 DEF Following, Ids
    <3>3. \A id : Ago(id)' = Next1(id)
        BY <2>5 DEF Ago
    <3>4. ASSUME NEW i \in 1 .. n, IsData(published[i])
          PROVE  /\ Next1(published[i].id) = Ago(published[i].id) + 1 /\ Ago(published[i].id) <= n
                 /\ Ago(published[i].id) \in Nat \ {0}
      <4>1. published[i].id \in Ids /\ Ago(published[i].id) <= n
          BY <2>3, <3>4 DEF IdsApart
      <4> HIDE DEF Next1
      <4> QED BY <3>1, <4>1
    <3> HIDE DEF Next1
    <3>5. ASSUME NEW i \in 1 .. n + 1, IsData(published'[i]) PROVE Next1(published'[i].id) <= n + 1
      <4>1. CASE i \in 1 .. n
          BY <2>1, <3>4, <3>5, <4>1
      <4>2. CASE i = n + 1
          BY <2>1, <2>5, <3>2, <4>2
      <4> QED BY <2>1, <4>1, <4>2
    <3>6. ASSUME NEW i \in 1 .. n + 1, NEW j \in 1 .. n + 1, i < j, IsData(published'[i]), IsData(published'[j])
          PROVE  Next1(published'[i].id) > Next1(published'[j].id)
      <4>1. i \in 1 .. n /\ published'[i] = published[i]
          BY <2>1, <3>6
      <4>2. CASE j \in 1 .. n
        <5>1. Ago(published[i].id) > Ago(published[j].id) /\ published'[j] = published[j]
            BY <2>1, <3>6, <4>1, <4>2 DEF IdsApart
        <5> QED BY <3>4, <3>6, <4>1, <4>2, <5>1
      <4>3. CASE j = n + 1
          BY <2>1, <2>5, <3>2, <3>4, <3>6, <4>1, <4>3
      <4> QED BY <2>1, <4>2, <4>3
    <3> QED BY <2>1, <2>5, <3>5, <3>6 DEF IdsApart, IsData, Ago, Next1
  <2> QED BY <1>2, <2>4, <2>5 DEF Publishes, IsData
<1> QED BY <1>0, <1>1, <1>2, LogStep

\* Two messages of the log with the same id are the same.
LEMMA IdsUnique ==
    ASSUME WindowInv, IdsApart, NEW i \in 1 .. Len(published), NEW j \in 1 .. Len(published),
           IsData(published[i]), IsData(published[j]), published[i].id = published[j].id
    PROVE  i = j
<1>1. Len(published) \in Nat /\ published[i].id \in Ids /\ index \in Ids /\ IdCount \in Nat
    BY ConstantsAssumption DEF WindowInv, TypeOK, PublishedNumbered
<1>2. Ago(published[i].id) \in Int
    BY <1>1 DEF Ago, Ids
<1>3. ~(i < j)
    BY <1>2 DEF IdsApart
<1>4. ~(j < i)
    BY <1>2 DEF IdsApart
<1> QED BY <1>1, <1>3, <1>4

LEMMA KeptGrows ==
    ASSUME TypeOK, NEW c \in Clients, Kept(c), Course(c), Grown, SameCourse(c), request'[c] = request[c]
    PROVE  Kept(c)'
<1>1. \A i \in replayed[c] : published'[i] = published[i]
    BY DEF Course, Positions, Grown
<1>2. Len(published) \in Nat /\ Len(published') >= Len(published) /\ Len(published') \in Int
    BY ClientTypes DEF Grown
<1>3. \A i \in sub[c] .. pos[c] - 1 :
          i \in 1 .. Len(published) /\ i \in 1 .. Len(published') /\ published'[i] = published[i]
    BY <1>2 DEF Kept, Grown
<1>4. \A i : (Pending(c, i)' <=> Pending(c, i)) /\ (Sent(c, i)' <=> Sent(c, i))
    BY DEF Pending, Sent, SameCourse, Final, IsData
<1>5. \A i : published'[i] = published[i] => (Unwanted(c, i)' <=> Unwanted(c, i))
    BY DEF Unwanted, Passes, ShouldSkipEvent, ShouldSendShutdown
<1>6. \A i \in replayed'[c] : Pending(c, i)' \/ Sent(c, i)' \/ Unwanted(c, i)'
    BY <1>1, <1>4, <1>5 DEF Kept, SameCourse
<1>7. \A x \in initialIds'[c] : \E i \in replayed'[c] : published'[i].id = x
    BY <1>1 DEF Kept, SameCourse
<1>8. \A i \in sub'[c] .. pos'[c] - 1 :
          /\ i \in 1 .. Len(published')
          /\ ~IsData(published'[i]) \/ Unwanted(c, i)' \/ Sent(c, i)' \/ i \in replayed'[c]
    BY <1>3, <1>4, <1>5 DEF Kept, SameCourse
<1> QED BY <1>6, <1>7, <1>8 DEF Kept, IsData

\* A client that has been sent nothing has lost nothing.
LEMMA KeptAtStart ==
    ASSUME NEW c \in Clients, pos'[c] = sub'[c], sub'[c] \in Nat, initialIds'[c] = {},
           \A i \in replayed'[c] : Pending(c, i)'
    PROVE  Kept(c)'
<1>1. sub'[c] .. pos'[c] - 1 = {}
    OBVIOUS
<1> QED BY <1>1 DEF Kept

LEMMA KeptSubscribe ==
    ASSUME TypeOK, NEW c \in Clients, Kept(c), Subscribe(c)
    PROVE  Kept(c)'
<1>1. /\ pos'[c] = LogLen + 1 /\ sub'[c] = LogLen + 1 /\ LogLen \in Nat
      /\ UNCHANGED <<published, request, delivered, initial, initialIds, replayed>>
    BY ClientTypes DEF Subscribe, TypeOK, serverVars
<1>2. sub'[c] .. pos'[c] - 1 = {}
    BY <1>1
<1>3. \A i : /\ Pending(c, i)' <=> Pending(c, i)
             /\ Sent(c, i)' <=> Sent(c, i)
             /\ Unwanted(c, i)' <=> Unwanted(c, i)
    BY <1>1 DEF Pending, Sent, Unwanted, Final, IsData, Passes, ShouldSkipEvent, ShouldSendShutdown
<1> QED BY <1>1, <1>2, <1>3 DEF Kept

LEMMA KeptInitial ==
    ASSUME WindowInv, NEW c \in Clients, Kept(c), Course(c), NEW event, Takes(c, event)
    PROVE  Kept(c)'
<1>0. TypeOK
    BY DEF WindowInv
<1>1. /\ event \in Events /\ 1 \in 1 .. Len(initial[c]) /\ delivered'[c] = Written(c, event)
      /\ initialIds'[c] = IF event.id = NoId THEN initialIds[c] ELSE initialIds[c] \cup {event.id}
      /\ pos'[c] = pos[c] /\ sub'[c] = sub[c] /\ replayed'[c] = replayed[c]
      /\ UNCHANGED <<published, request>>
    BY DEF Takes, serverVars
<1>2. PICK q : Rest(c, event, q)
    BY <1>0, TakesRest DEF Course
<1>3. q \in {0, 1} /\ Len(delivered[c]) \in Nat
    BY <1>0, <1>2, ClientTypes DEF Rest
<1>4. \A i : Unwanted(c, i)' <=> Unwanted(c, i)
    BY <1>1 DEF Unwanted, Passes, ShouldSkipEvent, ShouldSendShutdown
<1>5. \/ delivered'[c] = delivered[c] /\ ~Passes(event, request[c].endpoint)
      \/ /\ Passes(event, request[c].endpoint)
         /\ Len(delivered'[c]) = Len(delivered[c]) + 1 /\ delivered'[c][Len(delivered[c]) + 1] = event
         /\ \A i \in 1 .. Len(delivered[c]) : delivered'[c][i] = delivered[c][i]
    BY <1>0, <1>1, WrittenSpec
<1>6. ASSUME NEW i, Sent(c, i) PROVE Sent(c, i)'
  <2>1. PICK j \in 1 .. Len(delivered[c]) : IsData(delivered[c][j]) /\ delivered[c][j].serial = i
      BY <1>6 DEF Sent
  <2>2. j \in 1 .. Len(delivered'[c]) /\ delivered'[c][j] = delivered[c][j]
      BY <1>3, <1>5
  <2> QED BY <2>1, <2>2 DEF Sent, IsData
<1>7. ASSUME IsData(event)
      PROVE  event.serial \in replayed[c] /\ published[event.serial] = event /\ event = Final(initial[c][1])
  <2>1. event = Final(initial[c][1])
      BY <1>2, <1>3, <1>7 DEF Rest
  <2> QED BY <1>1, <1>7, <2>1 DEF Course, Queued, GroupOf
<1>8. ASSUME IsData(event), Passes(event, request[c].endpoint) PROVE Sent(c, event.serial)'
  <2>1. Len(delivered[c]) + 1 \in 1 .. Len(delivered'[c]) /\ delivered'[c][Len(delivered[c]) + 1] = event
      BY <1>3, <1>5, <1>8
  <2>2. \E j \in 1 .. Len(delivered'[c]) : IsData(delivered'[c][j]) /\ delivered'[c][j].serial = event.serial
      BY <1>8, <2>1
  <2>3. PICK i : i = event.serial
      OBVIOUS
  <2>4. Sent(c, i)'
      BY <2>2, <2>3 DEF Sent, IsData
  <2> QED BY <2>3, <2>4
<1>9. ASSUME NEW i \in replayed[c] PROVE Pending(c, i)' \/ Sent(c, i)' \/ Unwanted(c, i)
  <2>1. CASE Sent(c, i) \/ Unwanted(c, i)
      BY <1>6, <2>1
  <2>2. ASSUME NEW l \in 1 .. Len(initial[c]), IsData(Final(initial[c][l])), Final(initial[c][l]).serial = i, l > q
        PROVE  Pending(c, i)'
    <3>1. l - q \in 1 .. Len(initial'[c]) /\ Final(initial'[c][l - q]) = Final(initial[c][l])
        BY <1>2, <2>2 DEF Rest
    <3>2. \E k \in 1 .. Len(initial'[c]) : IsData(Final(initial'[c][k])) /\ Final(initial'[c][k]).serial = i
        BY <2>2, <3>1
    <3> QED BY <3>2 DEF Pending, Final, IsData
  <2>3. ASSUME NEW l \in 1 .. Len(initial[c]), IsData(Final(initial[c][l])), Final(initial[c][l]).serial = i, ~(l > q)
        PROVE  Sent(c, i)' \/ Unwanted(c, i)
    <3>1. q = 1 /\ l = 1 /\ event = Final(initial[c][1])
        BY <1>2, <1>3, <2>3 DEF Rest
    <3>2. IsData(event) /\ event.serial = i /\ published[i] = event
        BY <1>7, <2>3, <3>1
    <3> QED BY <1>8, <3>2 DEF Unwanted
  <2> QED BY <2>1, <2>2, <2>3 DEF Kept, Pending
<1>10. ASSUME NEW x \in initialIds'[c] PROVE \E i \in replayed[c] : published[i].id = x
  <2>1. CASE x \in initialIds[c]
      BY <2>1 DEF Kept
  <2>2. CASE x \notin initialIds[c]
    <3>1. x = event.id /\ event.id # NoId
        BY <1>1, <2>2
    <3>2. IsData(event)
      <4>1. q = 1 /\ event = Final(initial[c][1])
          BY <1>2, <1>3, <3>1 DEF Rest
      <4> QED BY <1>1, <3>1, <4>1 DEF Course, Queued, GroupOf
    <3> QED BY <1>7, <3>1, <3>2
  <2> QED BY <2>1, <2>2
<1>11. \A i \in sub[c] .. pos[c] - 1 :
          /\ i \in 1 .. Len(published)
          /\ ~IsData(published[i]) \/ Unwanted(c, i) \/ Sent(c, i)' \/ i \in replayed[c]
    BY <1>6 DEF Kept
<1> QED BY <1>1, <1>4, <1>9, <1>10, <1>11 DEF Kept, IsData

LEMMA KeptOngoing ==
    ASSUME WindowInv, IdsApart, NEW c \in Clients, Kept(c), Course(c), NEW event, Reads(c, event)
    PROVE  Kept(c)'
<1>0. TypeOK
    BY DEF WindowInv
<1>1. /\ event \in Events /\ event = published[pos[c]] /\ event.serial = pos[c]
      /\ pos[c] \in 1 .. Len(published) /\ pos'[c] = pos[c] + 1
      /\ delivered'[c] = IF IsDuplicate(c, event) THEN delivered[c] ELSE Written(c, event)
      /\ initial'[c] = initial[c] /\ initialIds'[c] = initialIds[c]
      /\ sub'[c] = sub[c] /\ replayed'[c] = replayed[c] /\ UNCHANGED <<published, request>>
    BY DEF Reads, serverVars
<1>2. Len(delivered[c]) \in Nat /\ pos[c] \in Nat /\ sub[c] \in Nat
    BY <1>0, ClientTypes
<1>3. \A i : (Unwanted(c, i)' <=> Unwanted(c, i)) /\ (Pending(c, i)' <=> Pending(c, i))
    BY <1>1 DEF Unwanted, Passes, ShouldSkipEvent, ShouldSendShutdown, Pending, Final, IsData
<1>4. \/ delivered'[c] = delivered[c] /\ (IsDuplicate(c, event) \/ ~Passes(event, request[c].endpoint))
      \/ /\ Len(delivered'[c]) = Len(delivered[c]) + 1 /\ delivered'[c][Len(delivered[c]) + 1] = event
         /\ \A i \in 1 .. Len(delivered[c]) : delivered'[c][i] = delivered[c][i]
  <2>1. CASE IsDuplicate(c, event)
      BY <1>1, <2>1
  <2>2. CASE ~IsDuplicate(c, event)
    <3>1. delivered'[c] = Written(c, event)
        BY <1>1, <2>2
    <3> QED BY <1>0, <1>1, <3>1, WrittenSpec
  <2> QED BY <2>1, <2>2
<1>5. ASSUME NEW i, Sent(c, i) PROVE Sent(c, i)'
  <2>1. PICK j \in 1 .. Len(delivered[c]) : IsData(delivered[c][j]) /\ delivered[c][j].serial = i
      BY <1>5 DEF Sent
  <2>2. j \in 1 .. Len(delivered'[c]) /\ delivered'[c][j] = delivered[c][j]
      BY <1>2, <1>4
  <2> QED BY <2>1, <2>2 DEF Sent, IsData
<1>6. ASSUME NEW i, i = pos[c], IsData(published[i]), ~Unwanted(c, i), i \notin replayed[c] PROVE Sent(c, i)'
  <2>1. ~IsDuplicate(c, event)
    <3>1. ASSUME NEW l \in replayed[c], published[l].id = event.id PROVE FALSE
      <4>1. l \in 1 .. Len(published) /\ IsData(published[l])
          BY DEF Course, Positions
      <4>2. l = i
          BY <1>1, <1>6, <3>1, <4>1, IdsUnique
      <4> QED BY <1>6, <4>2
    <3> QED BY <3>1 DEF IsDuplicate, Kept
  <2>2. Passes(event, request[c].endpoint)
      BY <1>1, <1>6 DEF Unwanted
  <2>3. delivered'[c][Len(delivered[c]) + 1] = event /\ Len(delivered[c]) + 1 \in 1 .. Len(delivered'[c])
      BY <1>2, <1>4, <2>1, <2>2
  <2>4. \E j \in 1 .. Len(delivered'[c]) : IsData(delivered'[c][j]) /\ delivered'[c][j].serial = i
      BY <1>1, <1>6, <2>3
  <2> QED BY <2>4 DEF Sent, IsData
<1>7. ASSUME NEW i \in sub'[c] .. pos'[c] - 1
      PROVE  /\ i \in 1 .. Len(published)
             /\ ~IsData(published[i]) \/ Unwanted(c, i) \/ Sent(c, i)' \/ i \in replayed[c]
  <2>1. CASE i \in sub[c] .. pos[c] - 1
      BY <1>5, <2>1 DEF Kept
  <2>2. CASE i = pos[c]
      BY <1>1, <1>6, <2>2
  <2> QED BY <1>1, <1>2, <2>1, <2>2
<1>8. \A i \in replayed[c] : Pending(c, i) \/ Sent(c, i)' \/ Unwanted(c, i)
    BY <1>5 DEF Kept
<1> QED BY <1>1, <1>3, <1>7, <1>8 DEF Kept, IsData

LEMMA KeptStep ==
    ASSUME StreamInv, IdsApart, \A c \in Clients : Kept(c), [Next]_vars
    PROVE  \A c \in Clients : Kept(c)'
<1>1. WindowInv /\ BufferOrdered /\ TypeOK /\ TypeOK' /\ Grown /\ \A c \in Clients : Registration(c) /\ Course(c)
    BY TypeStep, StepGrows DEF StreamInv, WindowInv
<1>2. \A c \in Clients : SameCourse(c) /\ request'[c] = request[c] => Kept(c)'
    BY <1>1, KeptGrows
<1>3. CASE UNCHANGED <<clientVars, history>>
    BY <1>2, <1>3 DEF SameCourse, clientVars, history
<1>4. CASE RegisterNewSubscriber
  <2>1. PICK c \in Clients :
            /\ \A d \in Clients \ {c} : SameCourse(d)
            /\ SameCourse(c) \/ \E entries : Registered(c, entries)
      BY <1>1, <1>4, RegisterSpec
  <2>2. request' = request
      BY <1>4 DEF RegisterNewSubscriber
  <2>3. ASSUME NEW entries, Registered(c, entries) PROVE Kept(c)'
    <3>1. pos'[c] = sub'[c] /\ sub'[c] \in Nat /\ initialIds'[c] = {}
        BY <1>1, <2>3, ClientTypes DEF Registered
    <3>2. Queued(c)'
        BY CourseStep DEF Course
    <3>3. \A i \in replayed'[c] : Pending(c, i)'
        BY <3>1, <3>2 DEF Queued
    <3> QED BY <3>1, <3>3, KeptAtStart
  <2> QED BY <1>2, <2>1, <2>2, <2>3
<1>5. CASE ServerShutdown
    BY <1>2, <1>5 DEF ServerShutdown, SameCourse, history
<1>6. ASSUME NEW c \in Clients, NEW r \in Requests, Validate(c, r) PROVE \A d \in Clients : Kept(d)'
  <2>1. \A d \in Clients \ {c} : SameCourse(d) /\ request'[d] = request[d]
      BY <1>1, <1>6 DEF Validate, SameCourse, history, TypeOK
  <2>2. pos'[c] = sub'[c] /\ initialIds'[c] = {} /\ replayed'[c] = {} /\ sub'[c] = sub[c]
      BY <1>1, <1>6 DEF Validate, Registration, history
  <2>3. sub'[c] \in Nat
      BY <1>1, <2>2, ClientTypes
  <2>4. Kept(c)'
      BY <2>2, <2>3, KeptAtStart
  <2> QED BY <1>2, <2>1, <2>4
<1>7. ASSUME NEW c \in Clients, SendSubscriberInfo(c) PROVE \A d \in Clients : Kept(d)'
    BY <1>2, <1>7 DEF SendSubscriberInfo, SameCourse, history
<1>8. ASSUME NEW c \in Clients, Subscribe(c) PROVE \A d \in Clients : Kept(d)'
  <2>1. \A d \in Clients \ {c} : SameCourse(d) /\ request'[d] = request[d]
      BY <1>1, <1>8 DEF Subscribe, SameCourse, TypeOK
  <2> QED BY <1>1, <1>2, <1>8, <2>1, KeptSubscribe
<1>9. ASSUME NEW c \in Clients, StreamInitial(c) PROVE \A d \in Clients : Kept(d)'
  <2>1. (\E event : Takes(c, event)) /\ \A d \in Clients \ {c} : SameCourse(d)
      BY <1>1, <1>9, StreamInitialSpec DEF Course
  <2>2. Kept(c)'
      BY <1>1, <2>1, KeptInitial
  <2>3. request' = request
      BY <1>9 DEF StreamInitial
  <2> QED BY <1>2, <2>1, <2>2, <2>3
<1>10. ASSUME NEW c \in Clients, StreamOngoing(c) PROVE \A d \in Clients : Kept(d)'
  <2>1. Reads(c, published[pos[c]]) /\ \A d \in Clients \ {c} : SameCourse(d)
      BY <1>1, <1>10, StreamOngoingSpec
  <2>2. PICK event : Reads(c, event)
      BY <2>1
  <2>3. Kept(c)'
      BY <1>1, <2>2, KeptOngoing
  <2>4. request' = request
      BY <1>10 DEF StreamOngoing
  <2> QED BY <1>2, <2>1, <2>3, <2>4
<1>11. ASSUME NEW c \in Clients, EndStream(c) PROVE \A d \in Clients : Kept(d)'
  <2>1. \A d \in Clients \ {c} : SameCourse(d) /\ request'[d] = request[d]
      BY <1>1, <1>11 DEF EndStream, SameCourse, TypeOK
  <2>2. pos'[c] = sub'[c] /\ initialIds'[c] = {} /\ replayed'[c] = {} /\ sub'[c] = 1
      BY <1>1, <1>11 DEF EndStream, TypeOK
  <2>3. Kept(c)'
      BY <2>2, KeptAtStart
  <2> QED BY <1>2, <2>1, <2>3
<1>12. Producer \/ HandleIncomingData \/ BroadcastShutdown \/ UNCHANGED vars => UNCHANGED <<clientVars, history>>
    BY DEF Producer, BroadcastApiVersion, Broadcast, DropServer, HandleIncomingData, BroadcastShutdown, vars
<1> QED BY <1>3, <1>4, <1>5, <1>6, <1>7, <1>8, <1>9, <1>10, <1>11, <1>12
        DEF Next, ServerTask, Handler, Stream, StreamShutdown, StreamLagged, Disconnect

LEMMA LossCorrect == Spec => []LossInv
<1>1. Init => LossInv
  <2> SUFFICES ASSUME Init PROVE IdsApart /\ \A c \in Clients : Kept(c)
      BY DEF LossInv
  <2>1. published = <<>> /\ Len(<<>>) = 0
      BY DEF Init
  <2>2. IdsApart
      BY <2>1 DEF IdsApart
  <2>3. ASSUME NEW c \in Clients PROVE Kept(c)
    <3>1. replayed[c] = {} /\ initialIds[c] = {} /\ sub[c] = 1 /\ pos[c] = 1
        BY DEF Init
    <3>2. sub[c] .. pos[c] - 1 = {}
        BY <3>1
    <3> QED BY <3>1, <3>2 DEF Kept
  <2> QED BY <2>2, <2>3
<1>2. StreamInv /\ LossInv /\ [Next]_vars => LossInv'
  <2> SUFFICES ASSUME StreamInv, LossInv, [Next]_vars, MaxPublished <= IdCount
               PROVE  IdsApart' /\ \A c \in Clients : Kept(c)'
      BY DEF LossInv
  <2>1. IdsApart /\ \A c \in Clients : Kept(c)
      BY DEF LossInv
  <2>2. IdsApart'
      BY <2>1, IdsApartStep DEF StreamInv
  <2>3. \A c \in Clients : Kept(c)'
      BY <2>1, KeptStep
  <2> QED BY <2>2, <2>3
<1> QED BY <1>1, <1>2, StreamCorrect, PTL DEF Spec

\* A client misses nothing that its endpoint serves, from the first replayed event or
\* its registration on, except what is handled between its registration and its
\* subscription.  This is so while no id is given twice: the ids that a stream has
\* noted are never forgotten, so one that comes again, after 2^32 events, is taken
\* for a duplicate.
THEOREM LossOnlyInSeam == Spec => [](MaxPublished <= IdCount => NoLossOutsideSeam)
<1>1. StreamInv /\ LossInv => (MaxPublished <= IdCount => NoLossOutsideSeam)
  <2> SUFFICES ASSUME StreamInv, LossInv, MaxPublished <= IdCount,
                      NEW c \in Clients, InitialDone(c), reg[c] # NoId,
                      NEW i \in replayed[c] \cup (reg[c] + 1 .. pos[c] - 1)
               PROVE  \/ i \in DataSent(c)
                      \/ i > Len(published)
                      \/ ~IsData(published[i])
                      \/ ~Passes(published[i], request[c].endpoint)
                      \/ i < sub[c] /\ i \notin replayed[c]
      BY DEF NoLossOutsideSeam
  <2>1. Kept(c) /\ TypeOK
      BY DEF LossInv, StreamInv, WindowInv
  <2>2. pos[c] \in Nat /\ sub[c] \in Nat /\ reg[c] \in Int
      BY <2>1, ClientTypes
  <2>3. Sent(c, i) => i \in DataSent(c)
      BY DEF Sent, DataSent
  <2>4. CASE i \in replayed[c]
    <3>1. ~Pending(c, i)
      <4>1. Len(initial[c]) = 0
          BY DEF InitialDone
      <4> QED BY <4>1 DEF Pending
    <3> QED BY <2>1, <2>3, <2>4, <3>1 DEF Kept, Unwanted
  <2>5. CASE i \notin replayed[c]
    <3>1. i < sub[c] \/ i \in sub[c] .. pos[c] - 1
        BY <2>2, <2>5
    <3> QED BY <2>1, <2>3, <2>5, <3>1 DEF Kept, Unwanted
  <2> QED BY <2>4, <2>5
<1> QED BY <1>1, StreamCorrect, LossCorrect, PTL

-----------------------------------------------------------------------------
\* Versions.

Versionless == \A i \in 1 .. Len(published) : published[i].kind # "ApiVersion"

\* Whatever comes from a node is published under some version, and the server task
\* has handled no version while it knows none.
Ruled ==
    /\ \A i \in 1 .. Len(published) :
          /\ IsData(published[i]) /\ published[i].inbound => \E v \in Versions : InForce(v, i)
          /\ published[i].kind \in DataKinds => published[i].inbound
    /\ Versionless \/ \E v \in Versions : InForce(v, Len(published) + 1)
    /\ latest = NoVersion => \A i \in 1 .. handled : IsData(published[i])

\* The last version that c was told.
Told(c, v) == ToldBefore(c, v, Len(delivered[c]) + 1)

\* Each event in the initial channel of c has its version before it, or else the
\* event before it has the same one.
ChainedAt(c, k, v) ==
    /\ InForce(v, Final(initial[c][k]).serial)
    /\ Len(initial[c][k]) = 2 => initial[c][k][1].ver = v
    /\ Len(initial[c][k]) = 1 /\ k = 1 => Told(c, v)
    /\ Len(initial[c][k]) = 1 /\ k # 1 =>
          IsData(Final(initial[c][k - 1])) /\ InForce(v, Final(initial[c][k - 1]).serial)

Chained(c) ==
    \A k \in 1 .. Len(initial[c]) :
        IsData(Final(initial[c][k])) => \E v \in Versions : ChainedAt(c, k, v)

\* Once c has read its initial channel, the last version that it was told is v.
EndsWith(c, v) ==
    IF initial[c] = <<>>
    THEN Told(c, v)
    ELSE LET e == Final(initial[c][Len(initial[c])]) IN
         IF IsData(e) THEN InForce(v, e.serial) ELSE e.kind = "ApiVersion" /\ e.ver = v

\* If nothing gets in between, c is told the version in force at its registration, and
\* then the one in force where its receiver is.
UpToNow(c) ==
    /\ reg[c] # NoId /\ pos[c] = sub[c] /\ ReplayUpToDate(c) =>
          \A v \in Versions : InForce(v, reg[c] + 1) => EndsWith(c, v)
    /\ pos[c] > sub[c] /\ QuietSeam(c) /\ ReplayUpToDate(c) =>
          \A v \in Versions : InForce(v, pos[c]) => Told(c, v)

\* VersionAnnounced of the j-th event of one client.
AnnouncedAt(c, j) ==
    \E v \in Versions : InForce(v, delivered[c][j].serial) /\ ToldBefore(c, v, j)

Announces(c) ==
    \A j \in 1 .. Len(delivered[c]) :
        IsData(delivered[c][j]) /\ (delivered[c][j].serial \in replayed[c] \/ (QuietSeam(c) /\ ReplayUpToDate(c)))
            => AnnouncedAt(c, j)

Versioned(c) == Chained(c) /\ UpToNow(c) /\ Announces(c)

\* The inductive invariant behind VersionAnnounced.
VersionInv == Ruled /\ \A c \in Clients : Versioned(c)

\* At most one version is in force.
LEMMA InForceUnique ==
    ASSUME TypeOK, NEW v, NEW w, NEW i \in Int, InForce(v, i), InForce(w, i)
    PROVE  v = w
<1>1. Len(published) \in Nat
    BY DEF TypeOK
<1>2. PICK j \in 1 .. Len(published) :
          /\ j < i /\ published[j].kind = "ApiVersion" /\ published[j].ver = v
          /\ \A k \in 1 .. Len(published) : j < k /\ k < i => IsData(published[k])
    BY DEF InForce
<1>3. PICK l \in 1 .. Len(published) :
          /\ l < i /\ published[l].kind = "ApiVersion" /\ published[l].ver = w
          /\ \A k \in 1 .. Len(published) : l < k /\ k < i => IsData(published[k])
    BY DEF InForce
<1>4. j = l
  <2>1. ~(j < l)
      BY <1>2, <1>3 DEF IsData
  <2>2. ~(l < j)
      BY <1>2, <1>3 DEF IsData
  <2> QED BY <1>1, <2>1, <2>2
<1> QED BY <1>2, <1>3, <1>4

\* A version stays in force while only data is published.
LEMMA InForceAcross ==
    ASSUME TypeOK, NEW v, NEW a \in Int, NEW b \in Int, a <= b,
           \A i \in 1 .. Len(published) : a <= i /\ i < b => IsData(published[i])
    PROVE  InForce(v, a) <=> InForce(v, b)
<1>1. Len(published) \in Nat
    BY DEF TypeOK
<1>2. ASSUME InForce(v, a) PROVE InForce(v, b)
  <2>1. PICK j \in 1 .. Len(published) :
            /\ j < a /\ published[j].kind = "ApiVersion" /\ published[j].ver = v
            /\ \A k \in 1 .. Len(published) : j < k /\ k < a => IsData(published[k])
      BY <1>2 DEF InForce
  <2>2. j < b
      BY <1>1, <2>1
  <2>3. ASSUME NEW k \in 1 .. Len(published), j < k, k < b PROVE IsData(published[k])
    <3>1. k < a \/ a <= k
        BY <1>1
    <3> QED BY <2>1, <2>3, <3>1
  <2> QED BY <2>1, <2>2, <2>3 DEF InForce
<1>3. ASSUME InForce(v, b) PROVE InForce(v, a)
  <2>1. PICK j \in 1 .. Len(published) :
            /\ j < b /\ published[j].kind = "ApiVersion" /\ published[j].ver = v
            /\ \A k \in 1 .. Len(published) : j < k /\ k < b => IsData(published[k])
      BY <1>3 DEF InForce
  <2>2. j < a
      BY <1>1, <2>1 DEF IsData
  <2>3. ASSUME NEW k \in 1 .. Len(published), j < k, k < a PROVE IsData(published[k])
      BY <1>1, <2>1, <2>3
  <2> QED BY <2>1, <2>2, <2>3 DEF InForce
<1> QED BY <1>2, <1>3

\* What was in force at a position of the log stays so.
LEMMA InForceGrows ==
    ASSUME TypeOK, TypeOK', Grown, NEW v, NEW i \in Int, i <= Len(published) + 1
    PROVE  InForce(v, i)' <=> InForce(v, i)
<1>1. /\ Len(published) \in Nat /\ Len(published') \in Nat /\ Len(published) <= Len(published')
      /\ \A k \in 1 .. Len(published) : published'[k] = published[k]
    BY DEF TypeOK, Grown
<1>2. ASSUME NEW j \in 1 .. Len(published') PROVE j < i => j \in 1 .. Len(published)
    BY <1>1
<1>3. \A j \in 1 .. Len(published) : j \in 1 .. Len(published')
    BY <1>1
<1> QED BY <1>1, <1>2, <1>3 DEF InForce, IsData

LEMMA InForceInVersions ==
    ASSUME AnnouncedPlain, NEW v, NEW i, InForce(v, i)
    PROVE  v \in Versions
BY DEF AnnouncedPlain, InForce

LEMMA RuledStep ==
    ASSUME WindowInv, Ruled, [Next]_vars
    PROVE  Ruled'
<1>0. TypeOK /\ TypeOK' /\ Grown /\ PublishedNumbered
    BY TypeStep, StepGrows DEF WindowInv
<1>1. /\ Len(published) \in Nat /\ handled \in Nat /\ handled <= Len(published)
    BY <1>0 DEF TypeOK
<1>2. ASSUME NEW e \in Events, Publishes(e) PROVE Ruled'
  <2> DEFINE n == Len(published)
  <2>1. /\ Len(published') = n + 1 /\ published'[n + 1] = e /\ n \in Nat
        /\ \A i \in 1 .. n : published'[i] = published[i]
      BY <1>0, <1>2, PublishGrows
  <2>2. handled' = handled /\ latest' = latest /\ (IsData(e) /\ e.inbound => Announced # {})
        /\ (e.kind \in DataKinds => e.inbound) /\ (e.kind = "ApiVersion" => e.ver \in Versions)
        /\ (e.kind = "ApiVersion" \/ IsData(e))
      BY <1>2 DEF Publishes, IsData, DataKinds
  <2>3. \A v : \A i \in 1 .. n + 1 : InForce(v, i) => InForce(v, i)'
      BY <1>0, <2>1, InForceGrows
  <2>4. Announced # {} => \E v \in Versions : InForce(v, n + 1)
    <3>1. Announced # {} => ~Versionless
        BY DEF Announced, Versionless
    <3> QED BY <3>1 DEF Ruled
  <2>5. ASSUME NEW i \in 1 .. n + 1
        PROVE  /\ IsData(published'[i]) /\ published'[i].inbound => \E v \in Versions : InForce(v, i)'
               /\ published'[i].kind \in DataKinds => published'[i].inbound
    <3>1. CASE i \in 1 .. n
        BY <2>1, <2>3, <3>1 DEF Ruled
    <3>2. CASE i = n + 1
      <4>1. ASSUME IsData(e), e.inbound PROVE \E v \in Versions : InForce(v, i)'
        <5>1. PICK v \in Versions : InForce(v, n + 1)
            BY <2>2, <2>4, <4>1
        <5>2. InForce(v, i)'
            BY <2>3, <3>2, <5>1
        <5> QED BY <5>2
      <4> QED BY <2>1, <2>2, <3>2, <4>1
    <3> QED BY <2>1, <3>1, <3>2
  <2>6. Versionless' \/ \E v \in Versions : InForce(v, Len(published) + 1)'
    <3>1. CASE e.kind = "ApiVersion"
      <4>1. \E j \in 1 .. Len(published') :
               /\ j < Len(published') + 1 /\ published'[j].kind = "ApiVersion" /\ published'[j].ver = e.ver
               /\ \A k \in 1 .. Len(published') : j < k /\ k < Len(published') + 1 => IsData(published'[k])
        <5>1. n + 1 \in 1 .. Len(published')
            BY <2>1
        <5> WITNESS n + 1 \in 1 .. Len(published')
        <5> QED BY <2>1, <3>1
      <4>2. InForce(e.ver, Len(published) + 1)'
          BY <4>1 DEF InForce, IsData
      <4>3. e.ver \in Versions
          BY <2>2, <3>1
      <4>4. PICK v \in Versions : v = e.ver
          BY <4>3
      <4> QED BY <4>2, <4>4
    <3>2. CASE IsData(e) /\ Versionless
        BY <2>1, <3>2 DEF Versionless, IsData
    <3>3. ASSUME IsData(e), NEW v \in Versions, InForce(v, n + 1) PROVE InForce(v, Len(published) + 1)'
      <4>1. PICK j \in 1 .. n :
                /\ j < n + 1 /\ published[j].kind = "ApiVersion" /\ published[j].ver = v
                /\ \A k \in 1 .. n : j < k /\ k < n + 1 => IsData(published[k])
          BY <3>3 DEF InForce
      <4>2. j \in 1 .. Len(published') /\ j < Len(published') + 1 /\ published'[j] = published[j]
          BY <2>1
      <4>3. ASSUME NEW k \in 1 .. Len(published'), j < k PROVE IsData(published'[k])
        <5>1. CASE k = n + 1
            BY <2>1, <3>3, <5>1
        <5>2. CASE k \in 1 .. n
            BY <2>1, <4>1, <4>3, <5>2
        <5> QED BY <2>1, <5>1, <5>2
      <4> QED BY <4>1, <4>2, <4>3 DEF InForce, IsData
    <3> QED BY <2>2, <3>1, <3>2, <3>3 DEF Ruled
  <2>7. latest' = NoVersion => \A i \in 1 .. handled' : IsData(published'[i])
    <3>1. \A i \in 1 .. handled : published'[i] = published[i]
        BY <1>1, <2>1
    <3> QED BY <2>2, <3>1 DEF Ruled
  <2>8. \A i \in 1 .. Len(published') :
          /\ IsData(published'[i]) /\ published'[i].inbound => \E v \in Versions : InForce(v, i)'
          /\ published'[i].kind \in DataKinds => published'[i].inbound
      BY <2>1, <2>5
  <2> QED BY <2>6, <2>7, <2>8 DEF Ruled, IsData
<1>3. ASSUME UNCHANGED published, handled' = handled, latest' = latest PROVE Ruled'
    BY <1>3 DEF Ruled, Versionless, InForce, IsData
<1>4. CASE HandleIncomingData
  <2> DEFINE e == published[handled + 1]
  <2>1. published' = published /\ handled' = handled + 1 /\ handled + 1 \in 1 .. Len(published)
        /\ latest' = IF e.kind = "ApiVersion" THEN e.ver ELSE latest
      BY <1>1, <1>4 DEF HandleIncomingData
  <2>2. e.kind # "Comment" /\ (e.kind = "ApiVersion" => e.ver # NoVersion)
      BY <1>0, <2>1 DEF PublishedNumbered
  <2>3. ASSUME latest' = NoVersion, NEW i \in 1 .. handled' PROVE IsData(published'[i])
    <3>1. latest = NoVersion /\ IsData(e)
        BY <2>1, <2>2, <2>3 DEF IsData
    <3>2. i \in 1 .. handled \/ i = handled + 1
        BY <1>1, <2>1
    <3> QED BY <2>1, <3>1, <3>2 DEF Ruled
  <2>4. \A v, i : InForce(v, i)' <=> InForce(v, i)
      BY <2>1 DEF InForce, IsData
  <2>5. Versionless' <=> Versionless
      BY <2>1 DEF Versionless
  <2> QED BY <2>1, <2>3, <2>4, <2>5 DEF Ruled, IsData
<1> QED BY <1>0, <1>2, <1>3, <1>4, LogStep

\* What c was told before an event stays so as its response grows.
LEMMA ToldPrefix ==
    ASSUME TypeOK, NEW c \in Clients, NEW v, NEW j \in Int, j <= Len(delivered[c]) + 1,
           \A i \in 1 .. Len(delivered[c]) : delivered'[c][i] = delivered[c][i]
    PROVE  ToldBefore(c, v, j)' <=> ToldBefore(c, v, j)
<1>1. Len(delivered[c]) \in Nat
    BY ClientTypes
<1>2. \A i \in 1 .. j - 1 : delivered'[c][i] = delivered[c][i]
    BY <1>1
<1>3. \A i \in 1 .. j - 1 : \A k \in i + 1 .. j - 1 : k \in 1 .. j - 1
    OBVIOUS
<1>4. ASSUME NEW i \in 1 .. j - 1
      PROVE  (\A k \in i + 1 .. j - 1 : delivered'[c][k].kind # "ApiVersion")
               <=> \A k \in i + 1 .. j - 1 : delivered[c][k].kind # "ApiVersion"
    BY <1>2, <1>3, Zenon
<1> QED BY <1>2, <1>4, Zenon DEF ToldBefore

\* The response of c grows by the event.
Sends(c, event) ==
    /\ Len(delivered'[c]) = Len(delivered[c]) + 1 /\ delivered'[c][Len(delivered[c]) + 1] = event
    /\ \A i \in 1 .. Len(delivered[c]) : delivered'[c][i] = delivered[c][i]

\* The last version that a client was told is the one of the last ApiVersion event.
LEMMA ToldNext ==
    ASSUME TypeOK, NEW c \in Clients, NEW event, Sends(c, event), NEW v
    PROVE  /\ event.kind = "ApiVersion" /\ event.ver = v => Told(c, v)'
           /\ event.kind # "ApiVersion" /\ Told(c, v) => Told(c, v)'
<1> DEFINE n == Len(delivered[c])
<1>1. /\ n \in Nat /\ Len(delivered'[c]) = n + 1 /\ delivered'[c][n + 1] = event
      /\ \A i \in 1 .. n : delivered'[c][i] = delivered[c][i]
    BY ClientTypes DEF Sends
<1>2. ASSUME NEW i \in 1 .. n + 1, delivered'[c][i].kind = "ApiVersion", delivered'[c][i].ver = v,
             \A k \in i + 1 .. n + 1 : delivered'[c][k].kind # "ApiVersion"
      PROVE  Told(c, v)'
  <2>1. (Len(delivered'[c]) + 1) - 1 = n + 1
      BY <1>1
  <2> QED BY <1>2, <2>1 DEF Told, ToldBefore
<1>3. ASSUME event.kind = "ApiVersion", event.ver = v PROVE Told(c, v)'
  <2>1. n + 1 \in 1 .. n + 1 /\ \A k \in (n + 1) + 1 .. n + 1 : FALSE
      BY <1>1
  <2> QED BY <1>1, <1>2, <1>3, <2>1
<1>4. ASSUME event.kind # "ApiVersion", Told(c, v) PROVE Told(c, v)'
  <2>1. (n + 1) - 1 = n
      BY <1>1
  <2>2. PICK i \in 1 .. n : /\ delivered[c][i].kind = "ApiVersion" /\ delivered[c][i].ver = v
                            /\ \A k \in i + 1 .. n : delivered[c][k].kind # "ApiVersion"
      BY <1>4, <2>1 DEF Told, ToldBefore
  <2>3. i \in 1 .. n + 1 /\ delivered'[c][i] = delivered[c][i]
      BY <1>1
  <2>4. ASSUME NEW k \in i + 1 .. n + 1 PROVE delivered'[c][k].kind # "ApiVersion"
    <3>1. k = n + 1 \/ (k \in i + 1 .. n /\ k \in 1 .. n)
        BY <1>1
    <3> QED BY <1>1, <1>4, <2>2, <3>1
  <2> QED BY <1>2, <2>2, <2>3, <2>4
<1> QED BY <1>3, <1>4

\* Every endpoint serves the versions.
LEMMA VersionPasses ==
    ASSUME TypeOK, NEW c \in Clients, NEW event, event.kind = "ApiVersion"
    PROVE  Passes(event, request[c].endpoint)
<1>1. request[c].endpoint \in EndpointPaths
    BY DEF TypeOK
<1>2. "ApiVersion" \in EventFilter(request[c].endpoint)
    BY <1>1 DEF EndpointPaths, EventFilter
<1> QED BY <1>2 DEF Passes, ShouldSkipEvent, DataKinds

\* The conditions that VersionAnnounced makes are about a part of the log that is fixed
\* with the registration and the subscription.
LEMMA SeamGrows ==
    ASSUME TypeOK, TypeOK', Grown, NEW c \in Clients, Positions(c),
           reg'[c] = reg[c], sub'[c] = sub[c], replayed'[c] = replayed[c]
    PROVE  /\ QuietSeam(c)' => QuietSeam(c)
           /\ ReplayUpToDate(c)' <=> ReplayUpToDate(c)
<1>1. /\ Len(published) \in Nat /\ reg[c] \in Int /\ reg[c] + 1 \in Int /\ reg[c] + 1 <= Len(published) + 1
      /\ \A i \in replayed[c] : i \in Int /\ i <= Len(published) + 1
  <2>1. /\ Len(published) \in Nat /\ reg[c] \in Int /\ handled \in Nat /\ handled <= Len(published)
        /\ replayed[c] \in SUBSET Nat
      BY ClientTypes
  <2> QED BY <2>1 DEF Positions
<1>2. \A v : InForce(v, reg[c] + 1)' <=> InForce(v, reg[c] + 1)
  <2>1. PICK r \in Int : r = reg[c] + 1
      BY <1>1
  <2>2. \A v : InForce(v, r)' <=> InForce(v, r)
      BY <1>1, <2>1, InForceGrows
  <2>3. r = reg'[c] + 1
      BY <2>1
  <2> QED BY <2>1, <2>2, <2>3
<1>3. \A v : \A i \in replayed[c] : InForce(v, i)' <=> InForce(v, i)
    BY <1>1, InForceGrows
<1>4. ReplayUpToDate(c)' <=> ReplayUpToDate(c)
    BY <1>2, <1>3 DEF ReplayUpToDate
<1>5. QuietSeam(c)' => QuietSeam(c)
  <2>1. \A i \in 1 .. Len(published) : i \in 1 .. Len(published') /\ published'[i] = published[i]
    <3>1. Len(published') \in Nat
        BY DEF TypeOK
    <3> QED BY <1>1, <3>1 DEF Grown
  <2> QED BY <2>1 DEF QuietSeam, IsData
<1> QED BY <1>4, <1>5

\* The data in the initial channel of c was published.
LEMMA FinalPublished ==
    ASSUME TypeOK, NEW c \in Clients, Course(c), NEW k \in 1 .. Len(initial[c]), IsData(Final(initial[c][k]))
    PROVE  Final(initial[c][k]).serial \in 1 .. Len(published) /\ Final(initial[c][k]).serial \in replayed[c]
BY DEF Course, Queued, GroupOf, Positions

LEMMA VersionGrows ==
    ASSUME TypeOK, TypeOK', NEW c \in Clients, Course(c), Versioned(c), Grown, SameCourse(c),
           published' = published \/ pos[c] <= Len(published) + 1
    PROVE  Versioned(c)'
<1>0. /\ Len(published) \in Nat /\ Len(initial[c]) \in Nat /\ pos[c] \in Int /\ reg[c] \in Int /\ Positions(c)
      /\ reg[c] <= Len(published)
    BY ClientTypes DEF Course, Positions
<1>1. \A v : \A i \in 1 .. Len(published) : InForce(v, i)' <=> InForce(v, i)
  <2>1. \A i \in 1 .. Len(published) : i \in Int /\ i <= Len(published) + 1
      BY <1>0
  <2> QED BY <2>1, InForceGrows
<1>2. \A v : Told(c, v)' <=> Told(c, v)
    BY DEF Told, ToldBefore, SameCourse
<1>3. Chained(c)'
  <2>1. ASSUME NEW k \in 1 .. Len(initial[c]), IsData(Final(initial[c][k])), NEW v \in Versions, ChainedAt(c, k, v)
        PROVE  ChainedAt(c, k, v)'
    <3>1. InForce(v, Final(initial[c][k]).serial)'
      <4>1. PICK i \in 1 .. Len(published) : i = Final(initial[c][k]).serial
          BY <2>1, FinalPublished
      <4>2. InForce(v, i)'
          BY <1>1, <2>1, <4>1 DEF ChainedAt
      <4>3. Final(initial'[c][k]).serial = i
          BY <4>1 DEF SameCourse
      <4> QED BY <4>2, <4>3 DEF Final
    <3>2. ASSUME k # 1, IsData(Final(initial[c][k - 1])), InForce(v, Final(initial[c][k - 1]).serial)
          PROVE  IsData(Final(initial[c][k - 1]))' /\ InForce(v, Final(initial[c][k - 1]).serial)'
      <4>1. k - 1 \in 1 .. Len(initial[c])
          BY <1>0, <3>2
      <4>2. PICK i \in 1 .. Len(published) : i = Final(initial[c][k - 1]).serial
          BY <3>2, <4>1, FinalPublished
      <4>3. InForce(v, i)'
          BY <1>1, <3>2, <4>2
      <4>4. Final(initial'[c][k - 1]).serial = i
          BY <4>2 DEF SameCourse
      <4> QED BY <3>2, <4>3, <4>4 DEF Final, IsData, SameCourse
    <3> QED BY <1>2, <2>1, <3>1, <3>2 DEF ChainedAt, SameCourse, Final, IsData
  <2> QED BY <2>1 DEF Versioned, Chained, SameCourse, Final, IsData
<1>4. ASSUME NEW v, EndsWith(c, v) PROVE EndsWith(c, v)'
  <2>1. CASE initial[c] = <<>>
      BY <1>2, <1>4, <2>1 DEF EndsWith, SameCourse
  <2>2. CASE initial[c] # <<>>
    <3>1. Len(initial[c]) \in 1 .. Len(initial[c])
        BY <1>0, <2>2, ClientTypes, EmptySeq
    <3>2. CASE ~IsData(Final(initial[c][Len(initial[c])]))
        BY <1>4, <2>2, <3>2 DEF EndsWith, SameCourse, Final, IsData
    <3>3. CASE IsData(Final(initial[c][Len(initial[c])]))
      <4>1. PICK i \in 1 .. Len(published) : i = Final(initial[c][Len(initial[c])]).serial
          BY <3>1, <3>3, FinalPublished
      <4>2. InForce(v, i)'
          BY <1>1, <1>4, <2>2, <3>3, <4>1 DEF EndsWith
      <4>3. /\ Final(initial'[c][Len(initial'[c])]).serial = i /\ IsData(Final(initial'[c][Len(initial'[c])]))
            /\ initial'[c] # <<>>
          BY <2>2, <3>3, <4>1 DEF SameCourse
      <4> QED BY <4>2, <4>3 DEF EndsWith, Final, IsData
    <3> QED BY <3>2, <3>3
  <2> QED BY <2>1, <2>2
<1>5. /\ QuietSeam(c)' => QuietSeam(c)
      /\ ReplayUpToDate(c)' <=> ReplayUpToDate(c)
    BY <1>0, SeamGrows DEF SameCourse
<1>6. UpToNow(c)'
  <2>1. PICK r \in Int : r = reg[c] + 1 /\ r = reg'[c] + 1 /\ r <= Len(published) + 1
      BY <1>0 DEF SameCourse
  <2>2. \A v : InForce(v, r)' <=> InForce(v, r)
      BY <2>1, InForceGrows
  <2>3. reg'[c] # NoId /\ pos'[c] = sub'[c] /\ ReplayUpToDate(c)' =>
            \A v \in Versions : InForce(v, reg[c] + 1)' => EndsWith(c, v)'
      BY <1>4, <1>5, <2>1, <2>2 DEF Versioned, UpToNow, SameCourse
  <2>4. PICK p \in Int : p = pos[c] /\ p = pos'[c]
      BY <1>0 DEF SameCourse
  <2>5. \A v : InForce(v, p)' <=> InForce(v, p)
    <3>1. CASE published' = published
        BY <3>1 DEF InForce, IsData
    <3>2. CASE p <= Len(published) + 1
        BY <3>2, InForceGrows
    <3> QED BY <2>4, <3>1, <3>2
  <2>6. pos'[c] > sub'[c] /\ QuietSeam(c)' /\ ReplayUpToDate(c)' =>
            \A v \in Versions : InForce(v, pos[c])' => Told(c, v)'
      BY <1>2, <1>5, <2>4, <2>5 DEF Versioned, UpToNow, SameCourse
  <2> QED BY <2>3, <2>6 DEF UpToNow
<1>7. Announces(c)'
  <2>1. ASSUME NEW j \in 1 .. Len(delivered[c]), IsData(delivered[c][j]), AnnouncedAt(c, j)
        PROVE  AnnouncedAt(c, j)'
    <3>1. PICK v \in Versions : InForce(v, delivered[c][j].serial) /\ ToldBefore(c, v, j)
        BY <2>1 DEF AnnouncedAt
    <3>2. PICK i \in 1 .. Len(published) : i = delivered[c][j].serial /\ i = delivered'[c][j].serial
        BY <2>1 DEF Course, SentBefore, SameCourse
    <3>3. InForce(v, i)' /\ ToldBefore(c, v, j)'
        BY <1>1, <3>1, <3>2 DEF ToldBefore, SameCourse
    <3> QED BY <3>2, <3>3 DEF AnnouncedAt
  <2> QED BY <1>5, <2>1 DEF Versioned, Announces, SameCourse, IsData
<1> QED BY <1>3, <1>6, <1>7 DEF Versioned

LEMMA VersionSubscribe ==
    ASSUME TypeOK, NEW c \in Clients, Registration(c), Versioned(c), Subscribe(c)
    PROVE  Versioned(c)'
<1>1. /\ pos'[c] = LogLen + 1 /\ sub'[c] = LogLen + 1 /\ delivered[c] = <<>> /\ pos[c] = sub[c] /\ LogLen + 1 \in Int
      /\ UNCHANGED <<published, delivered, initial, replayed, reg>>
  <2>1. pc[c] = "announced" /\ LogLen \in Nat
      BY ClientTypes DEF Subscribe
  <2> QED BY <2>1 DEF Subscribe, Registration, TypeOK, serverVars
<1>2. \A v, i : InForce(v, i)' <=> InForce(v, i)
    BY <1>1 DEF InForce, IsData
<1>3. \A v : Told(c, v)' <=> Told(c, v)
    BY <1>1 DEF Told, ToldBefore
<1>4. Chained(c)'
    BY <1>1, <1>2, <1>3 DEF Versioned, Chained, ChainedAt, Final, IsData
<1>5. \A v : EndsWith(c, v)' <=> EndsWith(c, v)
    BY <1>1, <1>2, <1>3 DEF EndsWith, Final, IsData
<1>6. ReplayUpToDate(c)' <=> ReplayUpToDate(c)
    BY <1>1, <1>2 DEF ReplayUpToDate
<1>7. UpToNow(c)'
  <2>1. ~(pos'[c] > sub'[c])
      BY <1>1
  <2>2. \A v : InForce(v, reg[c] + 1)' <=> InForce(v, reg[c] + 1)
      BY <1>1, <1>2
  <2> QED BY <1>1, <1>5, <1>6, <2>1, <2>2 DEF Versioned, UpToNow
<1>8. Announces(c)'
  <2>1. Len(delivered'[c]) = 0
      BY <1>1
  <2> QED BY <2>1 DEF Announces
<1> QED BY <1>4, <1>7, <1>8 DEF Versioned

\* A client without a stream was told nothing.
LEMMA VersionAtStart ==
    ASSUME NEW c \in Clients, initial[c] = <<>>, delivered[c] = <<>>, pos[c] = 1, sub[c] = 1, reg[c] = NoId
    PROVE  Versioned(c)
<1>1. Len(<<>>) = 0 /\ ~(1 > 1)
    OBVIOUS
<1> QED BY <1>1 DEF Versioned, Chained, UpToNow, Announces

LEMMA VersionEnd ==
    ASSUME TypeOK, NEW c \in Clients, EndStream(c)
    PROVE  Versioned(c)'
<1>1. initial'[c] = <<>> /\ delivered'[c] = <<>> /\ pos'[c] = 1 /\ sub'[c] = 1 /\ reg'[c] = NoId
    BY DEF EndStream, TypeOK
<1>2. Len(<<>>) = 0 /\ ~(1 > 1)
    OBVIOUS
<1> QED BY <1>1, <1>2 DEF Versioned, Chained, UpToNow, Announces

LEMMA VersionRegister ==
    ASSUME WindowInv, AnnouncedPlain, Ruled, NEW c \in Clients, NEW entries, Registered(c, entries)
    PROVE  Versioned(c)'
<1> DEFINE s == initial'[c]
           n == Len(entries)
<1>1. PICK o : InitialShape(s, o, entries, latest)
    BY DEF Registered
<1>2. /\ IsReplay(entries) /\ replayed'[c] = {entries[i].event.serial : i \in 1 .. n} /\ reg'[c] = handled
      /\ delivered'[c] = <<>> /\ pos'[c] = sub'[c] /\ published' = published
    BY DEF Registered, serverVars
<1>3. /\ handled \in Nat /\ handled <= Len(published) /\ Len(published) \in Nat /\ latest \in Nat
      /\ entries \in Seq(Entries) /\ o \in {0, 1} /\ s \in Seq(Groups)
      /\ Len(s) \in Nat /\ n \in Nat /\ pos'[c] = pos[c] /\ pos[c] \in Nat
  <2>1. handled \in 0 .. Len(published) /\ Len(published) \in Nat /\ latest \in Nat /\ pos[c] \in Nat
      BY DEF WindowInv, TypeOK
  <2>2. s \in Seq(Groups) /\ o \in {0, 1} /\ entries \in Seq(Entries) /\ pos'[c] = pos[c]
      BY <1>1, <1>2 DEF InitialShape, IsReplay, Registered
  <2> QED BY <2>1, <2>2
<1> HIDE DEF s
<1>4. \A v, i : InForce(v, i)' <=> InForce(v, i)
    BY <1>2 DEF InForce, IsData
<1>5. ASSUME NEW k \in 1 .. n
      PROVE  /\ IsData(entries[k].event) /\ InForce(entries[k].ver, entries[k].event.serial)
             /\ entries[k].ver \in Versions /\ entries[k].event.serial \in Nat
  <2>1. /\ IsData(entries[k].event) /\ InForce(entries[k].ver, entries[k].event.serial)
        /\ entries[k].event.serial \in 1 .. handled
      BY <1>2 DEF IsReplay
  <2> QED BY <1>3, <2>1, InForceInVersions
<1>6. ASSUME NEW k \in 1 .. Len(s), IsData(Final(s[k])) PROVE k - o \in 1 .. n /\ SentForEntry(s[k], entries, k - o)
  <2>1. ~IsData(LegacyCommentEvent) /\ ~IsData(InitialEvent(latest))
      BY DEF IsData, LegacyCommentEvent, InitialEvent
  <2> QED BY <1>1, <1>3, <1>6, <2>1, ShapeGroups
<1>7. ASSUME NEW k \in 1 .. Len(s), IsData(Final(s[k]))
      PROVE  \E v \in Versions :
                /\ InForce(v, Final(s[k]).serial)
                /\ Len(s[k]) = 2 => s[k][1].ver = v
                /\ Len(s[k]) = 1 => k # 1 /\ IsData(Final(s[k - 1])) /\ InForce(v, Final(s[k - 1]).serial)
  <2>1. PICK i \in 1 .. n : i = k - o /\ SentForEntry(s[k], entries, i)
      BY <1>6, <1>7
  <2>2. Final(s[k]) = entries[i].event /\ InForce(entries[i].ver, Final(s[k]).serial) /\ entries[i].ver \in Versions
      BY <1>5, <2>1 DEF SentForEntry
  <2>3. Len(s[k]) = 2 => s[k][1].ver = entries[i].ver
      BY <2>1 DEF SentForEntry, InitialEvent
  <2>4. ASSUME Len(s[k]) = 1
        PROVE  k # 1 /\ IsData(Final(s[k - 1])) /\ InForce(entries[i].ver, Final(s[k - 1]).serial)
    <3>1. i - 1 \in 1 .. n /\ entries[i].ver = entries[i - 1].ver
        BY <2>1, <2>4 DEF SentForEntry
    <3>2. k # 1 /\ o + (i - 1) = k - 1 /\ k - 1 \in 1 .. Len(s)
        BY <1>3, <2>1, <3>1
    <3>3. entries # <<>>
        BY <3>1
    <3>4. s[k - 1] = SentFor(entries, i - 1)
        BY <1>1, <3>1, <3>2, <3>3 DEF InitialShape
    <3>5. Final(s[k - 1]) = entries[i - 1].event
        BY <3>4 DEF SentFor, Final
    <3> QED BY <1>5, <3>1, <3>2, <3>5
  <2> QED BY <2>2, <2>3, <2>4
<1>8. Chained(c)'
  <2>1. ASSUME NEW k \in 1 .. Len(s), IsData(Final(s[k])) PROVE \E v \in Versions : ChainedAt(c, k, v)'
      BY <1>4, <1>7, <2>1 DEF ChainedAt, Final, IsData, s
  <2> QED BY <2>1 DEF Chained, Final, IsData, s
<1>9. ASSUME ReplayUpToDate(c)', NEW v \in Versions, InForce(v, handled + 1) PROVE EndsWith(c, v)'
  <2>1. CASE entries = <<>>
    <3>1. latest # NoVersion
      <4>1. PICK j \in 1 .. Len(published) : j < handled + 1 /\ ~IsData(published[j])
          BY <1>9 DEF InForce, IsData
      <4>2. j \in 1 .. handled
          BY <1>3, <4>1
      <4> QED BY <4>1, <4>2 DEF Ruled
    <3>2. v = latest
      <4>1. InForce(latest, handled + 1) /\ handled + 1 \in Int
          BY <1>3, <3>1 DEF WindowInv, LatestInForce
      <4> QED BY <1>9, <4>1, InForceUnique DEF WindowInv
    <3>3. Len(s) = o + 1 /\ s[o + 1] = <<InitialEvent(latest)>>
        BY <1>1, <2>1, <3>1 DEF InitialShape
    <3>4. s # <<>> /\ Final(s[Len(s)]) = InitialEvent(latest)
      <4>1. Len(s) # 0
          BY <1>3, <3>3
      <4> QED BY <3>3, <4>1 DEF Final
    <3>5. /\ InitialEvent(latest).kind = "ApiVersion" /\ InitialEvent(latest).ver = latest
          /\ ~IsData(InitialEvent(latest))
        BY DEF InitialEvent, IsData
    <3> QED BY <3>2, <3>4, <3>5 DEF EndsWith, Final, IsData, s
  <2>2. CASE entries # <<>>
    <3>1. n \in 1 .. n
        BY <1>3, <2>2, EmptySeq
    <3>2. Len(s) = o + n /\ s[o + n] = SentFor(entries, n)
        BY <1>1, <2>2, <3>1 DEF InitialShape
    <3>3. s # <<>> /\ Final(s[Len(s)]) = entries[n].event
      <4>1. Final(SentFor(entries, n)) = entries[n].event
          BY DEF SentFor, Final
      <4>2. Len(s) # 0
          BY <1>3, <3>1, <3>2
      <4> QED BY <3>2, <4>1, <4>2
    <3>4. PICK i \in replayed'[c] : i = entries[n].event.serial
        BY <1>2, <3>1
    <3>5. \A k \in replayed'[c] : k <= i
      <4>1. ASSUME NEW k \in 1 .. n PROVE entries[k].event.serial <= i
        <5>1. k = n \/ k < n
            BY <1>3
        <5>2. k < n => entries[k].event.serial < entries[n].event.serial
            BY <1>2, <3>1 DEF IsReplay
        <5> QED BY <1>5, <3>1, <3>4, <5>1, <5>2
      <4> QED BY <1>2, <4>1
    <3>6. PICK w \in Versions : w = entries[n].ver /\ InForce(w, i) /\ IsData(entries[n].event)
        BY <1>5, <3>1, <3>4
    <3>7. InForce(w, handled + 1)
      <4>1. PICK h \in Int : h = handled + 1 /\ h = reg'[c] + 1
          BY <1>2, <1>3
      <4>2. InForce(w, i)'
          BY <1>4, <3>6
      <4>3. InForce(w, reg[c] + 1)'
          BY <1>9, <3>5, <4>2 DEF ReplayUpToDate
      <4>4. InForce(w, h)'
          BY <4>1, <4>3
      <4> QED BY <1>4, <4>1, <4>4
    <3>8. v = w
      <4>1. handled + 1 \in Int
          BY <1>3
      <4> QED BY <1>9, <3>7, <4>1, InForceUnique DEF WindowInv
    <3>9. InForce(v, Final(s[Len(s)]).serial) /\ IsData(Final(s[Len(s)]))
        BY <3>3, <3>4, <3>6, <3>8
    <3> QED BY <1>4, <3>3, <3>9 DEF EndsWith, Final, IsData, s
  <2> QED BY <2>1, <2>2
<1>10. UpToNow(c)'
  <2>1. ~(pos'[c] > sub'[c])
      BY <1>2, <1>3
  <2>2. PICK h \in Int : h = handled + 1 /\ h = reg'[c] + 1
      BY <1>2, <1>3
  <2>3. \A v : InForce(v, h)' <=> InForce(v, h)
      BY <1>4
  <2> QED BY <1>9, <2>1, <2>2, <2>3 DEF UpToNow
<1>11. Announces(c)'
  <2>1. Len(delivered'[c]) = 0
      BY <1>2
  <2> QED BY <2>1 DEF Announces
<1> QED BY <1>8, <1>10, <1>11 DEF Versioned

\* What c was told after its stream has yielded an event.
LEMMA ToldAfter ==
    ASSUME TypeOK, NEW c \in Clients, NEW event \in Events, delivered'[c] = Written(c, event)
    PROVE  /\ event.kind = "ApiVersion" => \A v : event.ver = v => Told(c, v)'
           /\ event.kind # "ApiVersion" => \A v : Told(c, v) => Told(c, v)'
<1>1. CASE Passes(event, request[c].endpoint)
  <2>1. Sends(c, event)
    <3>1. delivered[c] \in Seq(Events) /\ delivered'[c] = Append(delivered[c], event)
        BY <1>1, ClientTypes DEF Written
    <3> QED BY <3>1, AppendProperties DEF Sends
  <2> QED BY <2>1, ToldNext
<1>2. CASE ~Passes(event, request[c].endpoint)
  <2>1. event.kind # "ApiVersion"
      BY <1>2, VersionPasses
  <2>2. delivered'[c] = delivered[c]
      BY <1>2 DEF Written
  <2>3. \A v : Told(c, v)' <=> Told(c, v)
      BY <2>2 DEF Told, ToldBefore
  <2> QED BY <2>1, <2>3
<1> QED BY <1>1, <1>2

\* Nothing that the versions depend on changes but what c reads.
SameLog(c) ==
    /\ published' = published /\ reg'[c] = reg[c] /\ sub'[c] = sub[c] /\ replayed'[c] = replayed[c]

\* A client that was told the version of the event before is told it in time.
LEMMA AnnouncesAfter ==
    ASSUME TypeOK, NEW c \in Clients, Announces(c), SameLog(c), NEW event \in Events,
           delivered'[c] = delivered[c] \/ delivered'[c] = Written(c, event),
           delivered'[c] # delivered[c] /\ IsData(event)
             /\ (event.serial \in replayed[c] \/ (QuietSeam(c) /\ ReplayUpToDate(c)))
               => \E v \in Versions : InForce(v, event.serial) /\ Told(c, v)
    PROVE  Announces(c)'
<1> DEFINE n == Len(delivered[c])
<1>1. n \in Nat
    BY ClientTypes
<1>2. \A v, i : InForce(v, i)' <=> InForce(v, i)
    BY DEF SameLog, InForce, IsData
<1>3. (QuietSeam(c)' <=> QuietSeam(c)) /\ (ReplayUpToDate(c)' <=> ReplayUpToDate(c))
    BY <1>2 DEF SameLog, QuietSeam, ReplayUpToDate, IsData
<1>4. CASE delivered'[c] = delivered[c]
  <2>1. \A v, j : ToldBefore(c, v, j)' <=> ToldBefore(c, v, j)
      BY <1>4 DEF ToldBefore
  <2>2. \A j : AnnouncedAt(c, j)' <=> AnnouncedAt(c, j)
      BY <1>2, <1>4, <2>1 DEF AnnouncedAt
  <2> QED BY <1>3, <1>4, <2>2 DEF Announces, SameLog, IsData
<1>5. CASE delivered'[c] # delivered[c]
  <2>1. /\ Len(delivered'[c]) = n + 1 /\ delivered'[c][n + 1] = event
        /\ \A i \in 1 .. n : delivered'[c][i] = delivered[c][i]
      BY <1>5, WrittenSpec
  <2>2. \A v : \A j \in 1 .. n + 1 : ToldBefore(c, v, j)' <=> ToldBefore(c, v, j)
    <3>1. \A j \in 1 .. n + 1 : j \in Int /\ j <= Len(delivered[c]) + 1
        BY <1>1
    <3> QED BY <2>1, <3>1, ToldPrefix
  <2>3. ASSUME NEW j \in 1 .. n, AnnouncedAt(c, j) PROVE AnnouncedAt(c, j)'
    <3>1. PICK v \in Versions : InForce(v, delivered[c][j].serial) /\ ToldBefore(c, v, j)
        BY <2>3 DEF AnnouncedAt
    <3>2. j \in 1 .. n + 1 /\ delivered'[c][j].serial = delivered[c][j].serial
        BY <1>1, <2>1
    <3>3. ToldBefore(c, v, j)'
        BY <2>2, <3>1, <3>2
    <3>4. InForce(v, delivered[c][j].serial)'
        BY <1>2, <3>1, <3>2
    <3> QED BY <3>3, <3>4 DEF AnnouncedAt
  <2>4. ASSUME NEW m \in 1 .. n + 1, m = n + 1, IsData(event),
               event.serial \in replayed[c] \/ (QuietSeam(c) /\ ReplayUpToDate(c))
        PROVE  AnnouncedAt(c, m)'
    <3>1. PICK v \in Versions : InForce(v, event.serial) /\ ToldBefore(c, v, m)
        BY <1>5, <2>4 DEF Told
    <3>2. ToldBefore(c, v, m)' /\ InForce(v, event.serial)'
        BY <1>2, <2>2, <3>1
    <3>3. delivered'[c][m].serial = event.serial
        BY <2>1, <2>4
    <3> QED BY <3>2, <3>3 DEF AnnouncedAt
  <2>5. ASSUME NEW j \in 1 .. Len(delivered'[c]), IsData(delivered'[c][j]),
               delivered'[c][j].serial \in replayed[c] \/ (QuietSeam(c) /\ ReplayUpToDate(c))
        PROVE  AnnouncedAt(c, j)'
    <3>1. CASE j \in 1 .. n
        BY <2>1, <2>3, <2>5, <3>1 DEF Announces
    <3>2. CASE j = n + 1
        BY <2>1, <2>4, <2>5, <3>2
    <3> QED BY <1>1, <2>1, <3>1, <3>2
  <2> QED BY <1>3, <2>5 DEF Announces, SameLog, IsData
<1> QED BY <1>4, <1>5

LEMMA VersionInitial ==
    ASSUME WindowInv, TypeOK', NEW c \in Clients, Registration(c), Course(c), Versioned(c), NEW event, Takes(c, event)
    PROVE  Versioned(c)'
<1> DEFINE s == initial[c]
           t == initial'[c]
<1>0. TypeOK /\ Queued(c) /\ Chained(c) /\ UpToNow(c) /\ Announces(c)
    BY DEF WindowInv, Course, Versioned
<1>1. /\ event \in Events /\ 1 \in 1 .. Len(s) /\ delivered'[c] = Written(c, event)
      /\ SameLog(c) /\ pos'[c] = pos[c] /\ sub'[c] = sub[c] /\ s \in Seq(Groups) /\ Len(s) \in Nat
    BY <1>0, ClientTypes DEF Takes, SameLog, serverVars
<1>2. pos[c] = sub[c] /\ pos[c] \in Nat
  <2>1. s # <<>>
      BY <1>1
  <2> QED BY <1>0, <2>1, ClientTypes DEF Registration
<1>3. \A v, i : InForce(v, i)' <=> InForce(v, i)
    BY <1>1 DEF SameLog, InForce, IsData
<1>4. /\ event.kind = "ApiVersion" => \A v : event.ver = v => Told(c, v)'
      /\ event.kind # "ApiVersion" => \A v : Told(c, v) => Told(c, v)'
    BY <1>0, <1>1, ToldAfter
\* What the stream yields was announced, if it is data.
<1>5. ASSUME IsData(event)
      PROVE  /\ Len(s[1]) = 1 /\ event = Final(s[1]) /\ event.serial \in Int
             /\ \E v \in Versions : InForce(v, event.serial) /\ Told(c, v)
  <2>1. Len(s[1]) = 1 /\ event = Final(s[1])
      BY <1>5 DEF Takes
  <2>2. event.serial \in Int
      BY <1>1 DEF Events
  <2>3. PICK v \in Versions : ChainedAt(c, 1, v)
      BY <1>0, <1>1, <1>5, <2>1 DEF Chained
  <2>4. InForce(v, event.serial) /\ Told(c, v)
      BY <2>1, <2>3 DEF ChainedAt
  <2> QED BY <2>1, <2>2, <2>4
<1>6. ASSUME IsData(event), NEW v \in Versions, InForce(v, event.serial) PROVE Told(c, v)'
  <2>1. PICK w \in Versions : InForce(w, event.serial) /\ Told(c, w) /\ event.serial \in Int
      BY <1>5, <1>6
  <2>2. w = v
      BY <1>0, <1>6, <2>1, InForceUnique
  <2>3. event.kind # "ApiVersion"
      BY <1>6 DEF IsData
  <2> QED BY <1>4, <2>1, <2>2, <2>3
<1> HIDE DEF s, t
<1>7. t \in Seq(Groups) /\ Len(t) \in Nat
    BY DEF TypeOK, Groups, t
<1>8. ASSUME Len(s[1]) = 1 PROVE Chained(c)' /\ \A v \in Versions : EndsWith(c, v) => EndsWith(c, v)'
  <2>1. /\ event = Final(s[1]) /\ Len(t) = Len(s) - 1
        /\ \A k \in 1 .. Len(t) : k + 1 \in 2 .. Len(s) /\ t[k] = s[k + 1]
      BY <1>8 DEF Takes, s, t
  <2>2. ASSUME NEW k \in 1 .. Len(t), IsData(Final(t[k])) PROVE \E v \in Versions : ChainedAt(c, k, v)'
    <3>1. k + 1 \in 1 .. Len(s) /\ k + 1 # 1 /\ (k + 1) - 1 = k /\ t[k] = s[k + 1]
        BY <1>1, <2>1
    <3>2. PICK v \in Versions : ChainedAt(c, k + 1, v)
        BY <1>0, <2>2, <3>1 DEF Chained, s
    <3>3. /\ InForce(v, Final(t[k]).serial) /\ (Len(t[k]) = 2 => t[k][1].ver = v)
          /\ Len(t[k]) = 1 => IsData(Final(s[k])) /\ InForce(v, Final(s[k]).serial)
        BY <3>1, <3>2 DEF ChainedAt, s
    <3>4. Len(t[k]) = 1 /\ k = 1 => Told(c, v)'
        BY <1>6, <2>1, <3>3
    <3>5. ASSUME Len(t[k]) = 1, k # 1 PROVE IsData(Final(t[k - 1])) /\ InForce(v, Final(t[k - 1]).serial)
      <4>1. k - 1 \in 1 .. Len(t) /\ (k - 1) + 1 = k
          BY <1>1, <2>1, <3>5
      <4>2. t[k - 1] = s[k]
          BY <2>1, <4>1
      <4> QED BY <3>3, <3>5, <4>2
    <3>6. ChainedAt(c, k, v)'
        BY <1>3, <3>3, <3>4, <3>5 DEF ChainedAt, Final, IsData, t
    <3> QED BY <3>6
  <2>3. Chained(c)'
      BY <2>2 DEF Chained, Final, IsData, t
  <2>4. ASSUME NEW v \in Versions, EndsWith(c, v) PROVE EndsWith(c, v)'
    <3>1. s # <<>>
        BY <1>1
    <3>2. CASE t = <<>>
      <4>1. Len(s) = 1
          BY <1>1, <2>1, <3>2
      <4>2. IF IsData(event) THEN InForce(v, event.serial) ELSE event.kind = "ApiVersion" /\ event.ver = v
          BY <2>1, <2>4, <3>1, <4>1 DEF EndsWith, s
      <4>3. Told(c, v)'
          BY <1>4, <1>6, <4>2
      <4> QED BY <3>2, <4>3 DEF EndsWith, t
    <3>3. CASE t # <<>>
      <4>1. Len(t) \in 1 .. Len(t) /\ Len(t) + 1 = Len(s)
        <5>1. Len(t) # 0
            BY <1>7, <3>3, EmptySeq
        <5> QED BY <1>1, <1>7, <2>1, <5>1
      <4>2. t[Len(t)] = s[Len(s)]
          BY <2>1, <4>1
      <4> QED BY <1>3, <2>4, <3>1, <3>3, <4>2 DEF EndsWith, Final, IsData, s, t
    <3> QED BY <3>2, <3>3
  <2> QED BY <2>3, <2>4
<1>9. ASSUME Len(s[1]) # 1 PROVE Chained(c)' /\ \A v \in Versions : EndsWith(c, v) => EndsWith(c, v)'
  <2>1. /\ event = s[1][1] /\ event.kind = "ApiVersion" /\ Len(s[1]) = 2 /\ Len(t) = Len(s)
        /\ Len(t[1]) = 1 /\ Final(t[1]) = Final(s[1])
        /\ \A k \in 2 .. Len(s) : t[k] = s[k]
      BY <1>9 DEF Takes, s, t
  <2>2. \A k \in 1 .. Len(s) : Final(t[k]) = Final(s[k])
    <3>1. \A k \in 1 .. Len(s) : k = 1 \/ k \in 2 .. Len(s)
        BY <1>1
    <3> QED BY <2>1, <3>1
  <2>3. ASSUME NEW k \in 1 .. Len(t), IsData(Final(t[k])) PROVE \E v \in Versions : ChainedAt(c, k, v)'
    <3>1. k \in 1 .. Len(s) /\ IsData(Final(s[k])) /\ Final(t[k]) = Final(s[k])
        BY <2>1, <2>2, <2>3
    <3>2. PICK v \in Versions : ChainedAt(c, k, v)
        BY <1>0, <3>1 DEF Chained, s
    <3>3. CASE k = 1
      <4>1. InForce(v, Final(t[1]).serial) /\ event.ver = v
          BY <2>1, <3>2, <3>3 DEF ChainedAt, s
      <4>2. Told(c, v)'
          BY <1>4, <2>1, <4>1
      <4>3. ChainedAt(c, 1, v)'
          BY <1>3, <2>1, <4>1, <4>2 DEF ChainedAt, Final, t
      <4> QED BY <3>3, <4>3
    <3>4. CASE k # 1
      <4>1. k \in 2 .. Len(s) /\ k - 1 \in 1 .. Len(s)
          BY <1>1, <3>1, <3>4
      <4>2. t[k] = s[k] /\ Final(t[k - 1]) = Final(s[k - 1])
          BY <2>1, <2>2, <4>1
      <4>3. /\ InForce(v, Final(t[k]).serial) /\ (Len(t[k]) = 2 => t[k][1].ver = v)
            /\ Len(t[k]) = 1 => IsData(Final(t[k - 1])) /\ InForce(v, Final(t[k - 1]).serial)
          BY <3>2, <3>4, <4>2 DEF ChainedAt, s
      <4>4. ChainedAt(c, k, v)'
          BY <1>3, <3>4, <4>3 DEF ChainedAt, Final, IsData, t
      <4> QED BY <4>4
    <3> QED BY <3>3, <3>4
  <2>4. Chained(c)'
      BY <2>3 DEF Chained, Final, IsData, t
  <2>5. ASSUME NEW v \in Versions, EndsWith(c, v) PROVE EndsWith(c, v)'
    <3>1. s # <<>> /\ t # <<>> /\ Len(t) \in 1 .. Len(s) /\ Len(t) = Len(s)
      <4>1. s # <<>> /\ Len(s) # 0
          BY <1>1
      <4>2. t # <<>>
          BY <2>1, <4>1, EmptySeq
      <4> QED BY <1>1, <2>1, <4>1, <4>2
    <3>2. Final(t[Len(t)]) = Final(s[Len(s)])
        BY <2>2, <3>1
    <3> QED BY <1>3, <2>5, <3>1, <3>2 DEF EndsWith, Final, IsData, s, t
  <2> QED BY <2>4, <2>5
<1>10. Chained(c)' /\ \A v \in Versions : EndsWith(c, v) => EndsWith(c, v)'
    BY <1>8, <1>9
<1>11. UpToNow(c)'
  <2>1. ~(pos'[c] > sub'[c])
      BY <1>1, <1>2
  <2>2. ReplayUpToDate(c)' <=> ReplayUpToDate(c)
      BY <1>1, <1>3 DEF SameLog, ReplayUpToDate
  <2>3. \A v : InForce(v, reg[c] + 1)' <=> InForce(v, reg[c] + 1)
      BY <1>1, <1>3 DEF SameLog
  <2>4. reg'[c] = reg[c]
      BY <1>1 DEF SameLog
  <2> QED BY <1>0, <1>2, <1>10, <2>1, <2>2, <2>3, <2>4 DEF UpToNow
<1>12. Announces(c)'
    BY <1>0, <1>1, <1>5, AnnouncesAfter
<1> QED BY <1>10, <1>11, <1>12 DEF Versioned

LEMMA VersionOngoing ==
    ASSUME WindowInv, Ruled, AnnouncedPlain, NEW c \in Clients, Course(c), Versioned(c), NEW event, Reads(c, event)
    PROVE  Versioned(c)'
<1>0. TypeOK /\ PublishedNumbered /\ UpToNow(c) /\ Announces(c) /\ Positions(c)
    BY DEF WindowInv, Course, Versioned
<1>1. /\ event \in Events /\ event = published[pos[c]] /\ event.serial = pos[c]
      /\ pos[c] \in 1 .. Len(published) /\ pos'[c] = pos[c] + 1 /\ sub'[c] = sub[c]
      /\ initial[c] = <<>> /\ initial'[c] = <<>> /\ SameLog(c)
      /\ delivered'[c] = IF IsDuplicate(c, event) THEN delivered[c] ELSE Written(c, event)
    BY DEF Reads, SameLog, serverVars
<1>2. /\ pos[c] \in Int /\ sub[c] \in Nat \ {0} /\ reg[c] \in Nat \cup {NoId} /\ reg[c] \in Int
      /\ Len(published) \in Nat /\ sub[c] <= pos[c]
    BY <1>0, ClientTypes DEF Positions
<1>3. event.kind # "Comment" /\ (event.kind = "ApiVersion" \/ IsData(event))
    BY <1>0, <1>1 DEF PublishedNumbered, IsData
<1>4. \A v, i : InForce(v, i)' <=> InForce(v, i)
    BY <1>1 DEF SameLog, InForce, IsData
<1>5. (QuietSeam(c)' <=> QuietSeam(c)) /\ (ReplayUpToDate(c)' <=> ReplayUpToDate(c))
    BY <1>1, <1>4 DEF SameLog, QuietSeam, ReplayUpToDate, IsData
\* What c was told last is the version in force where its receiver is.
<1>6. ASSUME QuietSeam(c), ReplayUpToDate(c), NEW v \in Versions, InForce(v, pos[c]) PROVE Told(c, v)
  <2>1. CASE pos[c] > sub[c]
      BY <1>0, <1>6, <2>1 DEF UpToNow
  <2>2. CASE pos[c] = sub[c] /\ reg[c] # NoId
    <3>1. CASE reg[c] + 1 <= sub[c]
      <4>1. \A i \in 1 .. Len(published) : reg[c] + 1 <= i /\ i < sub[c] => IsData(published[i])
        <5>1. \A i \in 1 .. Len(published) : reg[c] + 1 <= i => reg[c] < i
            BY <1>2
        <5> QED BY <1>6, <5>1 DEF QuietSeam
      <4>2. InForce(v, reg[c] + 1) <=> InForce(v, sub[c])
          BY <1>0, <1>2, <3>1, <4>1, InForceAcross
      <4> QED BY <1>0, <1>1, <1>6, <2>2, <4>2 DEF UpToNow, EndsWith
    <3>2. CASE sub[c] <= reg[c] + 1
      <4>1. \A i \in 1 .. Len(published) : sub[c] <= i /\ i < reg[c] + 1 => IsData(published[i])
        <5>1. \A i \in 1 .. Len(published) : i < reg[c] + 1 => i <= reg[c]
            BY <1>2
        <5> QED BY <1>6, <5>1 DEF QuietSeam
      <4>2. InForce(v, sub[c]) <=> InForce(v, reg[c] + 1)
          BY <1>0, <1>2, <3>2, <4>1, InForceAcross
      <4> QED BY <1>0, <1>1, <1>6, <2>2, <4>2 DEF UpToNow, EndsWith
    <3> QED BY <1>2, <3>1, <3>2
  <2>3. CASE pos[c] = sub[c] /\ reg[c] = NoId
    <3>1. PICK j \in 1 .. Len(published) : j < sub[c] /\ ~IsData(published[j])
        BY <1>6, <2>3 DEF InForce, IsData
    <3>2. reg[c] < j
        BY <1>2, <2>3 DEF NoId
    <3> QED BY <1>6, <3>1, <3>2 DEF QuietSeam
  <2> QED BY <1>2, <2>1, <2>2, <2>3
<1>7. Chained(c)'
  <2>1. Len(initial'[c]) = 0
      BY <1>1
  <2> QED BY <2>1 DEF Chained
<1>8. ASSUME QuietSeam(c), ReplayUpToDate(c), NEW v \in Versions, InForce(v, pos[c] + 1) PROVE Told(c, v)'
  <2>1. CASE IsData(event)
    <3>1. \A i \in 1 .. Len(published) : pos[c] <= i /\ i < pos[c] + 1 => IsData(published[i])
      <4>1. \A i \in 1 .. Len(published) : pos[c] <= i /\ i < pos[c] + 1 => i = pos[c]
          BY <1>2
      <4> QED BY <1>1, <2>1, <4>1
    <3>2. pos[c] + 1 \in Int /\ pos[c] <= pos[c] + 1
        BY <1>2
    <3>3. InForce(v, pos[c])
        BY <1>0, <1>2, <1>8, <3>1, <3>2, InForceAcross
    <3>4. Told(c, v)
        BY <1>6, <1>8, <3>3
    <3>5. CASE delivered'[c] = delivered[c]
        BY <3>4, <3>5 DEF Told, ToldBefore
    <3>6. CASE delivered'[c] = Written(c, event)
      <4>1. event.kind # "ApiVersion"
          BY <2>1 DEF IsData
      <4> QED BY <1>0, <1>1, <3>4, <3>6, <4>1, ToldAfter
    <3> QED BY <1>1, <3>5, <3>6
  <2>2. CASE event.kind = "ApiVersion"
    <3>1. event.id = NoId
        BY <1>1, <2>2 DEF AnnouncedPlain
    <3>2. delivered'[c] = Written(c, event)
        BY <1>1, <3>1 DEF IsDuplicate
    <3>3. InForce(event.ver, pos[c] + 1)
      <4>1. /\ pos[c] < pos[c] + 1
            /\ \A k \in 1 .. Len(published) : pos[c] < k /\ k < pos[c] + 1 => IsData(published[k])
          BY <1>2
      <4> QED BY <1>1, <2>2, <4>1 DEF InForce
    <3>4. event.ver = v
      <4>1. pos[c] + 1 \in Int
          BY <1>2
      <4> QED BY <1>0, <1>8, <3>3, <4>1, InForceUnique
    <3> QED BY <1>0, <1>1, <2>2, <3>2, <3>4, ToldAfter
  <2> QED BY <1>3, <2>1, <2>2
<1>9. UpToNow(c)'
  <2>1. pos'[c] # sub'[c]
      BY <1>1, <1>2
  <2>2. \A v : InForce(v, pos[c])' <=> InForce(v, pos[c] + 1)
      BY <1>1, <1>4
  <2> QED BY <1>5, <1>8, <2>1, <2>2 DEF UpToNow
<1>10. ASSUME delivered'[c] # delivered[c], IsData(event),
              event.serial \in replayed[c] \/ (QuietSeam(c) /\ ReplayUpToDate(c))
       PROVE  \E v \in Versions : InForce(v, event.serial) /\ Told(c, v)
  <2>1. ~IsDuplicate(c, event) /\ delivered'[c] = Written(c, event)
      BY <1>1, <1>10
  <2>2. Passes(event, request[c].endpoint)
      BY <1>10, <2>1 DEF Written
  <2>3. QuietSeam(c) /\ ReplayUpToDate(c)
      BY <1>10, <2>1, FreshNotReplayed
  <2>4. event.inbound
    <3>1. event.kind \in DataKinds \cup {"Shutdown"}
        BY <1>1, <1>10 DEF Events, IsData
    <3> QED BY <1>1, <2>2, <3>1 DEF Passes, ShouldSendShutdown, Ruled
  <2>5. PICK v \in Versions : InForce(v, event.serial)
      BY <1>1, <1>10, <2>4 DEF Ruled
  <2>6. Told(c, v)
      BY <1>1, <1>6, <2>3, <2>5
  <2> QED BY <2>5, <2>6
<1>11. Announces(c)'
  <2>1. delivered'[c] = delivered[c] \/ delivered'[c] = Written(c, event)
      BY <1>1
  <2> QED BY <1>0, <1>1, <1>10, <2>1, AnnouncesAfter
<1> QED BY <1>7, <1>9, <1>11 DEF Versioned

LEMMA VersionStep ==
    ASSUME StreamInv, VersionInv, [Next]_vars
    PROVE  \A c \in Clients : Versioned(c)'
<1>1. /\ WindowInv /\ BufferOrdered /\ AnnouncedPlain /\ TypeOK /\ TypeOK' /\ Grown /\ Ruled
      /\ \A c \in Clients : Registration(c) /\ Course(c) /\ Versioned(c)
    BY TypeStep, StepGrows DEF StreamInv, WindowInv, VersionInv
<1>2. ASSUME NEW c \in Clients PROVE published' = published \/ pos[c] <= Len(published) + 1
  <2>1. ASSUME NEW e \in Events, Publishes(e) PROVE pos[c] <= Len(published) + 1
    <3>1. LogLen = handled
        BY <2>1 DEF Publishes, LogLen, ShutdownSent
    <3>2. /\ pos[c] <= handled + 1 /\ handled <= Len(published)
          /\ handled \in Nat /\ Len(published) \in Nat /\ pos[c] \in Nat
        BY <1>1, <3>1, ClientTypes DEF Course, Positions
    <3> QED BY <3>2
  <2> QED BY <1>1, <2>1, LogStep
<1>3. \A c \in Clients : SameCourse(c) => Versioned(c)'
    BY <1>1, <1>2, VersionGrows
<1>4. CASE UNCHANGED <<clientVars, history>>
    BY <1>3, <1>4 DEF SameCourse, clientVars, history
<1>5. CASE RegisterNewSubscriber
  <2>1. PICK c \in Clients :
            /\ \A d \in Clients \ {c} : SameCourse(d)
            /\ SameCourse(c) \/ \E entries : Registered(c, entries)
      BY <1>1, <1>5, RegisterSpec
  <2>2. Versioned(c)'
      BY <1>1, <1>3, <2>1, VersionRegister
  <2> QED BY <1>3, <2>1, <2>2
<1>6. CASE ServerShutdown
    BY <1>3, <1>6 DEF ServerShutdown, SameCourse, history
<1>7. ASSUME NEW c \in Clients, (\E r \in Requests : Validate(c, r)) \/ SendSubscriberInfo(c)
      PROVE  \A d \in Clients : Versioned(d)'
    BY <1>3, <1>7 DEF Validate, SendSubscriberInfo, SameCourse, history
<1>8. ASSUME NEW c \in Clients, Subscribe(c) PROVE \A d \in Clients : Versioned(d)'
    BY <1>1, <1>3, <1>8, SubscribeCourse, VersionSubscribe
<1>9. ASSUME NEW c \in Clients, StreamInitial(c) PROVE \A d \in Clients : Versioned(d)'
  <2>1. (\E event : Takes(c, event)) /\ \A d \in Clients \ {c} : SameCourse(d)
      BY <1>1, <1>9, StreamInitialSpec DEF Course
  <2>2. Versioned(c)'
      BY <1>1, <2>1, VersionInitial
  <2> QED BY <1>3, <2>1, <2>2
<1>10. ASSUME NEW c \in Clients, StreamOngoing(c) PROVE \A d \in Clients : Versioned(d)'
  <2>1. Reads(c, published[pos[c]]) /\ \A d \in Clients \ {c} : SameCourse(d)
      BY <1>1, <1>10, StreamOngoingSpec
  <2>2. PICK event : Reads(c, event)
      BY <2>1
  <2>3. Versioned(c)'
      BY <1>1, <2>2, VersionOngoing
  <2> QED BY <1>3, <2>1, <2>3
<1>11. ASSUME NEW c \in Clients, EndStream(c) PROVE \A d \in Clients : Versioned(d)'
    BY <1>1, <1>3, <1>11, EndCourse, VersionEnd
<1>12. Producer \/ HandleIncomingData \/ BroadcastShutdown \/ UNCHANGED vars => UNCHANGED <<clientVars, history>>
    BY DEF Producer, BroadcastApiVersion, Broadcast, DropServer, HandleIncomingData, BroadcastShutdown, vars
<1> QED BY <1>4, <1>5, <1>6, <1>7, <1>8, <1>9, <1>10, <1>11, <1>12
        DEF Next, ServerTask, Handler, Stream, StreamShutdown, StreamLagged, Disconnect

LEMMA VersionCorrect == Spec => []VersionInv
<1>1. Init => VersionInv
  <2> SUFFICES ASSUME Init PROVE VersionInv
      OBVIOUS
  <2>1. published = <<>> /\ Len(<<>>) = 0 /\ handled = 0
      BY DEF Init
  <2>2. Ruled
      BY <2>1 DEF Ruled, Versionless
  <2>3. ASSUME NEW c \in Clients PROVE Versioned(c)
    <3>1. initial[c] = <<>> /\ delivered[c] = <<>> /\ pos[c] = 1 /\ sub[c] = 1 /\ reg[c] = NoId
        BY DEF Init
    <3> QED BY <3>1, VersionAtStart
  <2> QED BY <2>2, <2>3 DEF VersionInv
<1>2. StreamInv /\ VersionInv /\ [Next]_vars => VersionInv'
    BY RuledStep, VersionStep DEF StreamInv, VersionInv
<1> QED BY <1>1, <1>2, StreamCorrect, PTL DEF Spec

\* Every replayed event comes after an ApiVersion event with the version it was
\* published under, and so does every later event of a stream, unless a version was
\* handled between its registration and its subscription or after the last replayed
\* event: for every number of versions and clients.
THEOREM VersionBeforeEvent == Spec => []VersionAnnounced
<1>1. VersionInv => VersionAnnounced
    BY DEF VersionInv, Versioned, Announces, AnnouncedAt, VersionAnnounced
<1> QED BY <1>1, VersionCorrect, PTL
=============================================================================
