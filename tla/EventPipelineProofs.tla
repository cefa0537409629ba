------------------------- MODULE EventPipelineProofs -------------------------
(***************************************************************************)
(* What holds of the pipeline for every number of nodes, every size of the *)
(* channels and any number of events, faults and crashes: what is stored   *)
(* and broadcast, and that the broadcast messages are an OutboundFeed.     *)
(***************************************************************************)
EXTENDS EventPipeline, TLAPS, SequenceTheorems, FiniteSetTheorems

-----------------------------------------------------------------------------
\* The inductive invariants.

\* What the listener of node s may put in its channel.
NodeMessages(s) ==
    {m \in Messages :
        /\ m.source = s /\ m.ver \in Versions
        /\ \/ m.kind = "BlockAdded" /\ m.key \in Blocks
           \/ m.kind = "Other" /\ m.key \in Others
           \/ m.kind \in {"Shutdown", "ApiVersion"} /\ m.key = NoKey}

\* The channels hold messages of their node, and a worker is only where its message
\* may be.
MessagesInPlace ==
    \A s \in Sources :
        /\ inbound[s] \in Seq(NodeMessages(s)) /\ queue[s] \in Seq(NodeMessages(s))
        /\ worker[s].at # "idle" => worker[s].event \in NodeMessages(s)
        /\ worker[s].at \in {"locking", "announcing"} => worker[s].event.kind = "ApiVersion"
        /\ worker[s].at \in {"saving", "inserting", "committing"} => HasDatabase
        /\ worker[s].at \in {"saving", "inserting", "committing", "sending"} => worker[s].event.kind # "ApiVersion"
        /\ worker[s].at = "notifying" => worker[s].event.kind = "BlockAdded"

TypeInv == TypeOK /\ MessagesInPlace

\* Everything that was passed on in this life of the process.
Passed == out \o outbound

\* A transaction is open while its worker inserts, and holds what that worker has
\* inserted.
TransactionOpen(s) ==
    /\ ~Running \/ worker[s].at \notin {"inserting", "committing"} => tx[s] = NoRows
    /\ Running /\ worker[s].at \in {"inserting", "committing"} =>
           \E key \in RowKeys(s) : tx[s].log = {[source |-> s, key |-> key]}
    /\ Running /\ worker[s].at = "inserting" => tx[s].rows = {}
    /\ Running /\ worker[s].at = "committing" => \E key \in RowKeys(s) : tx[s].rows = {key}

TransactionsOpen == \A s \in Sources : TransactionOpen(s)

\* What a transaction inserts is in no other transaction and not committed.
TransactionsApart ==
    \A s \in Sources :
        /\ tx[s].rows \cap rows = {}
        /\ \A r \in Sources \ {s} : tx[r].rows \cap tx[s].rows = {}

StoreInv == TypeInv /\ TransactionsOpen /\ TransactionsApart /\ LogMatchesRows

\* The worker has an event that is stored, or needs not be, and has to be passed on.
Carries(s) == worker[s].at \in {"notifying", "sending"} /\ worker[s].event.key \in Keys

PassedOnce ==
    \A i \in 1 .. Len(Passed) : Passed[i].key \in Keys =>
        /\ Passed[i].key \in rows /\ Passed[i].key \notin told
        /\ \A j \in 1 .. Len(Passed) : Passed[j].key = Passed[i].key => i = j

\* What workers carry is stored, and was not passed on before.
CarriedOnce ==
    \A s \in Sources : Carries(s) =>
        /\ worker[s].event.key \in rows /\ worker[s].event.key \notin told
        /\ \A i \in 1 .. Len(Passed) : Passed[i].key # worker[s].event.key
        /\ \A r \in Sources : Carries(r) /\ worker[r].event.key = worker[s].event.key => r = s

PublishInv ==
    HasDatabase =>
        /\ PassedOnce /\ CarriedOnce
        /\ told \subseteq rows
        /\ \A i \in 1 .. Len(bus) : bus[i] \in rows

\* The sidecar's own Shutdown has not been passed on.
NoEndYet == phase = "running" => \A i \in 1 .. Len(Passed) : Passed[i].kind # "SidecarShutdown"

AllEnded == phase = "stopping" => \A s \in Sources : ~consumer[s]

\* A consumer that handles the events itself leaves nothing behind when it ends.
LeftNothing(s) ==
    /\ queue[s] = <<>>
    /\ ~consumer[s] => ended[s] /\ inbound[s] = <<>> /\ worker[s].at = "idle"

EndIsLast == \A i \in 1 .. Len(Passed) : Passed[i].kind = "SidecarShutdown" => i = Len(Passed)

EndInv ==
    /\ NoEndYet /\ AllEnded
    /\ ~MultiThreaded => (\A s \in Sources : LeftNothing(s)) /\ EndIsLast

\* A version at least as new as v was passed on.
Announced(v) == \E i \in 1 .. Len(Passed) : Passed[i].kind = "ApiVersion" /\ Passed[i].ver >= v

\* The lock is held by the worker that announces the newest version, and all others
\* that were passed on are older; while it is free, the newest one was passed on.
LockInv ==
    /\ \A s \in Sources : worker[s].at = "announcing" => lock = s /\ worker[s].event.ver = newest
    /\ lock # None => worker[lock].at = "announcing"
    /\ \A i \in 1 .. Len(Passed) : Passed[i].kind = "ApiVersion" =>
           Passed[i].ver <= newest /\ (lock # None => Passed[i].ver < newest)
    /\ open /\ newest # None /\ lock = None => Announced(newest)
    /\ ~open => Passed = <<>>

\* The messages of node s that its worker has not taken.
Chain(s) == queue[s] \o inbound[s]

\* Version v is announced, or will be before the worker takes message n of the chain.
Covered(s, v, n) ==
    \/ Announced(v)
    \/ worker[s].at \in {"locking", "announcing"} /\ worker[s].event.ver >= v
    \/ \E i \in 1 .. n : Chain(s)[i].kind = "ApiVersion" /\ Chain(s)[i].ver >= v

\* Every message of node s comes after a version at least as new as its own.
CoverOf(s) ==
    /\ \A n \in 1 .. Len(Chain(s)) : Chain(s)[n].kind = "ApiVersion" \/ Covered(s, Chain(s)[n].ver, n - 1)
    /\ link[s] # None => Covered(s, link[s], Len(Chain(s)))
    /\ worker[s].at \notin {"idle", "locking", "announcing"} => Announced(worker[s].event.ver)

CoverInv == open => \A s \in Sources : CoverOf(s)

\* Message m may follow the first n messages that were passed on.
Follows(m, n) ==
    /\ m.kind = "ApiVersion" => \A j \in 1 .. n : Passed[j].kind = "ApiVersion" => Passed[j].ver < m.ver
    /\ m.kind \notin {"ApiVersion", "SidecarShutdown"} =>
          \E j \in 1 .. n : Passed[j].kind = "ApiVersion" /\ Passed[j].ver >= m.ver
    /\ m.kind = "SidecarShutdown" => \A j \in 1 .. n : Passed[j].kind # "SidecarShutdown"

\* What was passed on is an OutboundFeed.
FeedInv == \A i \in 1 .. Len(Passed) : Follows(Passed[i], i - 1)

-----------------------------------------------------------------------------
\* Two channels in a row.

LEMMA MoveHead ==
    ASSUME NEW S, NEW a \in Seq(S), NEW b \in Seq(S), b # <<>>
    PROVE  Append(a, Head(b)) \o Tail(b) = a \o b
<1>1. b = <<Head(b)>> \o Tail(b) /\ Head(b) \in S /\ Tail(b) \in Seq(S)
    BY HeadTailProperties
<1>2. Append(a, Head(b)) = a \o <<Head(b)>> /\ <<Head(b)>> \in Seq(S)
    BY <1>1, AppendIsConcat
<1>3. (a \o <<Head(b)>>) \o Tail(b) = a \o (<<Head(b)>> \o Tail(b))
    BY <1>1, <1>2, ConcatAssociative
<1> QED BY <1>1, <1>2, <1>3

LEMMA AppendToSecond ==
    ASSUME NEW S, NEW a \in Seq(S), NEW b \in Seq(S), NEW m \in S
    PROVE  a \o Append(b, m) = Append(a \o b, m)
<1>1. Append(b, m) = b \o <<m>>
    BY AppendIsConcat
<1>2. <<m>> \in Seq(S)
    OBVIOUS
<1>3. a \o (b \o <<m>>) = (a \o b) \o <<m>>
    BY <1>2, ConcatAssociative
<1>4. a \o b \in Seq(S)
    BY ConcatProperties
<1>5. Append(a \o b, m) = (a \o b) \o <<m>>
    BY <1>4, AppendIsConcat
<1> QED BY <1>1, <1>3, <1>5

LEMMA TakeFirst ==
    ASSUME NEW S, NEW a \in Seq(S), NEW b \in Seq(S), a # <<>>
    PROVE  /\ Len(a \o b) >= 1 /\ (a \o b)[1] = Head(a)
           /\ Len(Tail(a) \o b) = Len(a \o b) - 1
           /\ \A i \in 1 .. Len(a \o b) - 1 : (Tail(a) \o b)[i] = (a \o b)[i + 1]
<1>1. /\ Head(a) = a[1] /\ Tail(a) \in Seq(S) /\ Len(Tail(a)) = Len(a) - 1
      /\ \A i \in 1 .. Len(Tail(a)) : Tail(a)[i] = a[i + 1]
      /\ Len(a) \in Nat \ {0} /\ Len(b) \in Nat
    BY HeadTailProperties, LenProperties, EmptySeq
<1> DEFINE c == a \o b
           d == Tail(a) \o b
<1>2. Len(c) = Len(a) + Len(b)
      /\ \A i \in 1 .. Len(a) + Len(b) : c[i] = IF i <= Len(a) THEN a[i] ELSE b[i - Len(a)]
    BY ConcatProperties
<1>3. Len(d) = Len(Tail(a)) + Len(b)
      /\ \A i \in 1 .. Len(Tail(a)) + Len(b) : d[i] = IF i <= Len(Tail(a)) THEN Tail(a)[i] ELSE b[i - Len(Tail(a))]
    BY <1>1, ConcatProperties
<1> HIDE DEF c, d
<1>4. ASSUME NEW i \in 1 .. Len(c) - 1 PROVE d[i] = c[i + 1]
  <2>1. CASE i <= Len(Tail(a))
      BY <1>1, <1>2, <1>3, <1>4, <2>1
  <2>2. CASE i > Len(Tail(a))
    <3>1. d[i] = b[i - Len(Tail(a))]
        BY <1>1, <1>2, <1>3, <1>4, <2>2
    <3>2. c[i + 1] = b[i + 1 - Len(a)]
        BY <1>1, <1>2, <1>4, <2>2
    <3>3. i - Len(Tail(a)) = i + 1 - Len(a)
        BY <1>1
    <3> QED BY <3>1, <3>2, <3>3
  <2> QED BY <1>1, <1>2, <2>1, <2>2
<1>5. Len(c) >= 1 /\ c[1] = Head(a) /\ Len(d) = Len(c) - 1
    BY <1>1, <1>2, <1>3
<1> QED BY <1>4, <1>5 DEF c, d

-----------------------------------------------------------------------------
\* Types.

Steps == {"idle", "locking", "announcing", "saving", "inserting", "committing", "notifying", "sending"}

LEMMA MessageTypes ==
    ASSUME NEW s \in Sources
    PROVE  /\ NodeMessages(s) \subseteq Messages
           /\ Seq(NodeMessages(s)) \subseteq Seq(Messages)
           /\ Idle \in Messages
           /\ [at |-> "idle", event |-> Idle] \in [at : Steps, event : Messages]
           /\ NoRows.log = {} /\ NoRows.rows = {}
<1>1. NodeMessages(s) \subseteq Messages
    BY DEF NodeMessages
<1>2. Idle \in Messages
    BY DEF Messages, Idle, Kinds, None
<1>3. [at |-> "idle", event |-> Idle] \in [at : Steps, event : Messages]
    BY <1>2 DEF Steps
<1>4. NoRows.log = {} /\ NoRows.rows = {}
    BY DEF NoRows
<1>5. Seq(NodeMessages(s)) \subseteq Seq(Messages)
    BY <1>1
<1> QED BY <1>1, <1>2, <1>3, <1>4, <1>5

LEMMA MadeByListener ==
    ASSUME NEW s \in Sources, NEW v \in Versions
    PROVE  /\ \A k \in Blocks : Message(s, "BlockAdded", k, v) \in NodeMessages(s)
           /\ \A k \in Others : Message(s, "Other", k, v) \in NodeMessages(s)
           /\ Message(s, "Shutdown", NoKey, v) \in NodeMessages(s)
           /\ Message(s, "ApiVersion", NoKey, v) \in NodeMessages(s)
BY PipelineAssumption DEF Message, NodeMessages, Messages, Kinds, Keys

LEMMA SendKeepsTypes ==
    ASSUME TypeInv, NEW s \in Sources, NEW m \in NodeMessages(s), Send(s, m),
           link' \in [Sources -> Versions \cup {None}]
    PROVE  TypeInv'
<1>1. inbound'[s] = Append(inbound[s], m) /\ \A r \in Sources \ {s} : inbound'[r] = inbound[r]
    BY DEF Send, TypeInv, TypeOK
<1>2. inbound'[s] \in Seq(NodeMessages(s)) /\ Len(inbound'[s]) <= InboundSize
    BY <1>1, PipelineAssumption, AppendProperties DEF Send, TypeInv, TypeOK, MessagesInPlace
<1>3. inbound' \in [Sources -> Seq(Messages)]
    BY <1>2, MessageTypes DEF Send, TypeInv, TypeOK
<1>4. TypeOK'
    BY <1>1, <1>2, <1>3 DEF Send, TypeInv, TypeOK, storage, history
<1>5. MessagesInPlace'
    BY <1>1, <1>2 DEF Send, TypeInv, MessagesInPlace, HasDatabase, storage
<1> QED BY <1>4, <1>5 DEF TypeInv

LEMMA ListenerKeepsTypes ==
    ASSUME TypeInv, NEW s \in Sources, Listener(s)
    PROVE  TypeInv'
<1>1. ASSUME NEW v \in Versions, Connect(s, v) PROVE TypeInv'
  <2>1. link' \in [Sources -> Versions \cup {None}]
      BY <1>1 DEF Connect, TypeInv, TypeOK
  <2> QED BY <1>1, <2>1, SendKeepsTypes, MadeByListener DEF Connect
<1>2. CASE Deliver(s)
  <2>1. link[s] \in Versions /\ link' \in [Sources -> Versions \cup {None}]
      BY <1>2 DEF Deliver, TypeInv, TypeOK
  <2>2. PICK m \in NodeMessages(s) : Send(s, m)
      BY <1>2, <2>1, MadeByListener DEF Deliver
  <2> QED BY <2>1, <2>2, SendKeepsTypes
<1>3. CASE Disconnect(s)
  <2>1. link' \in [Sources -> Versions \cup {None}]
      BY <1>3 DEF Disconnect, TypeInv, TypeOK
  <2> QED BY <1>3, <2>1 DEF Disconnect, TypeInv, TypeOK, MessagesInPlace, HasDatabase, storage, bounds, history
<1>4. CASE GiveUp(s)
  <2>1. ended' \in [Sources -> BOOLEAN]
      BY <1>4 DEF GiveUp, TypeInv, TypeOK
  <2> QED BY <1>4, <2>1 DEF GiveUp, TypeInv, TypeOK, MessagesInPlace, HasDatabase, storage, bounds, history
<1> QED BY <1>1, <1>2, <1>3, <1>4 DEF Listener

LEMMA GotoFacts ==
    ASSUME TypeOK, NEW s \in Sources, NEW step \in Steps, Goto(s, step)
    PROVE  /\ worker' \in [Sources -> [at : Steps, event : Messages]]
           /\ worker'[s].at = step /\ worker'[s].event = worker[s].event
           /\ \A r \in Sources \ {s} : worker'[r] = worker[r]
BY DEF TypeOK, Goto, Steps

LEMMA DoneFacts ==
    ASSUME TypeOK, NEW s \in Sources, Done(s)
    PROVE  /\ worker' \in [Sources -> [at : Steps, event : Messages]]
           /\ worker'[s].at = "idle" /\ worker'[s].event = Idle
           /\ \A r \in Sources \ {s} : worker'[r] = worker[r]
BY MessageTypes DEF TypeOK, Done, Steps

LEMMA RollbackFacts ==
    ASSUME TypeOK, NEW s \in Sources, Rollback(s)
    PROVE  /\ tx' \in [Sources -> [log : SUBSET [source : Sources, key : Keys \cup ShutdownKeys],
                                   rows : SUBSET (Keys \cup ShutdownKeys)]]
           /\ tx'[s] = NoRows
           /\ \A r \in Sources \ {s} : tx'[r] = tx[r]
<1>1. NoRows \in [log : SUBSET [source : Sources, key : Keys \cup ShutdownKeys],
                  rows : SUBSET (Keys \cup ShutdownKeys)]
    BY DEF NoRows
<1> QED BY <1>1 DEF TypeOK, Rollback

LEMMA SendOutboundFacts ==
    ASSUME TypeOK, NEW m \in Messages, SendOutbound(m)
    PROVE  /\ outbound' \in Seq(Messages) /\ Len(outbound') <= OutboundSize
           /\ open => outbound' = Append(outbound, m)
           /\ ~open => outbound' = outbound
<1>1. outbound \in Seq(Messages) /\ Len(outbound) <= OutboundSize /\ OutboundSize \in Nat
    BY PipelineAssumption DEF TypeOK
<1>2. CASE open
  <2>1. outbound' = Append(outbound, m) /\ Len(outbound) < OutboundSize
      BY <1>2 DEF SendOutbound
  <2> QED BY <1>1, <1>2, <2>1, AppendProperties
<1>3. CASE ~open
    BY <1>1, <1>3 DEF SendOutbound
<1> QED BY <1>2, <1>3

LEMMA RowKeysType ==
    ASSUME TypeInv, NEW s \in Sources, worker[s].at \in {"saving", "inserting", "committing"}
    PROVE  /\ RowKeys(s) \subseteq Keys \cup ShutdownKeys
           /\ worker[s].event.kind # "Shutdown" => RowKeys(s) = {worker[s].event.key} /\ worker[s].event.key \in Keys
           /\ worker[s].event.kind = "Shutdown" => RowKeys(s) \cap Keys = {} /\ worker[s].event.key = NoKey
<1>1. worker[s].event \in NodeMessages(s) /\ worker[s].event.kind # "ApiVersion"
    BY DEF TypeInv, MessagesInPlace
<1>2. CASE worker[s].event.kind = "Shutdown"
  <2>1. RowKeys(s) \subseteq Sources \X Seconds
      BY <1>2 DEF RowKeys
  <2> QED BY <1>1, <1>2, <2>1, PipelineAssumption DEF ShutdownKeys, Keys, NodeMessages
<1>3. CASE worker[s].event.kind # "Shutdown"
    BY <1>1, <1>3 DEF RowKeys, NodeMessages, Keys
<1> QED BY <1>2, <1>3

LEMMA ConsumerKeepsTypes ==
    ASSUME TypeInv, NEW s \in Sources, Forward(s) \/ Finish(s)
    PROVE  TypeInv'
<1>1. CASE Forward(s)
  <2>1. /\ inbound'[s] = Tail(inbound[s]) /\ queue'[s] = Append(queue[s], Head(inbound[s]))
        /\ \A r \in Sources \ {s} : inbound'[r] = inbound[r] /\ queue'[r] = queue[r]
      BY <1>1 DEF Forward, TypeInv, TypeOK
  <2>2. Head(inbound[s]) \in NodeMessages(s) /\ inbound[s] \in Seq(NodeMessages(s)) /\ inbound[s] # <<>>
      BY <1>1 DEF Forward, TypeInv, MessagesInPlace
  <2>3. inbound'[s] \in Seq(NodeMessages(s)) /\ Len(inbound'[s]) <= InboundSize
      BY <2>1, <2>2, PipelineAssumption, HeadTailProperties DEF TypeInv, TypeOK
  <2>4. queue'[s] \in Seq(NodeMessages(s)) /\ Len(queue'[s]) <= QueueSize
      BY <1>1, <2>1, <2>2, PipelineAssumption, AppendProperties DEF Forward, TypeInv, TypeOK, MessagesInPlace
  <2>5. inbound' \in [Sources -> Seq(Messages)] /\ queue' \in [Sources -> Seq(Messages)]
      BY <1>1, <2>3, <2>4, MessageTypes DEF Forward, TypeInv, TypeOK
  <2>6. TypeOK'
      BY <1>1, <2>1, <2>3, <2>4, <2>5 DEF Forward, TypeInv, TypeOK, storage, bounds, history
  <2>7. MessagesInPlace'
      BY <1>1, <2>1, <2>3, <2>4 DEF Forward, TypeInv, MessagesInPlace, HasDatabase, storage
  <2> QED BY <2>6, <2>7 DEF TypeInv
<1>2. CASE Finish(s)
  <2>1. consumer' \in [Sources -> BOOLEAN]
      BY <1>2 DEF Finish, TypeInv, TypeOK
  <2> QED BY <1>2, <2>1 DEF Finish, TypeInv, TypeOK, MessagesInPlace, HasDatabase, storage, bounds, history
<1> QED BY <1>1, <1>2

LEMMA TakeKeepsTypes ==
    ASSUME TypeInv, NEW s \in Sources, Take(s)
    PROVE  TypeInv'
<1> DEFINE m == Head(Waiting(s))
<1>1. Waiting(s) \in Seq(NodeMessages(s)) /\ Waiting(s) # <<>>
    BY DEF Take, Waiting, TypeInv, MessagesInPlace
<1>2. m \in NodeMessages(s) /\ m \in Messages
    BY <1>1, MessageTypes
<1>3. /\ Tail(Waiting(s)) \in Seq(NodeMessages(s)) /\ Tail(Waiting(s)) \in Seq(Messages)
      /\ Len(Tail(Waiting(s))) <= Len(Waiting(s))
    BY <1>1, MessageTypes, HeadTailProperties
<1>4. FirstStep(m) \in Steps
    BY DEF FirstStep, DbSavingStep, NoDbStep, Steps
<1>5. /\ worker' = [worker EXCEPT ![s] = [at |-> FirstStep(m), event |-> m]]
      /\ queue' = IF MultiThreaded THEN [queue EXCEPT ![s] = Tail(@)] ELSE queue
      /\ inbound' = IF MultiThreaded THEN inbound ELSE [inbound EXCEPT ![s] = Tail(@)]
    BY DEF Take
<1> HIDE DEF m
<1>6. /\ worker' \in [Sources -> [at : Steps, event : Messages]]
      /\ worker'[s].at = FirstStep(m) /\ worker'[s].event = m
      /\ \A r \in Sources \ {s} : worker'[r] = worker[r]
    BY <1>2, <1>4, <1>5 DEF TypeInv, TypeOK, Steps
<1>7. /\ queue' \in [Sources -> Seq(Messages)] /\ inbound' \in [Sources -> Seq(Messages)]
      /\ \A r \in Sources : queue'[r] \in Seq(NodeMessages(r)) /\ Len(queue'[r]) <= QueueSize
      /\ \A r \in Sources : inbound'[r] \in Seq(NodeMessages(r)) /\ Len(inbound'[r]) <= InboundSize
  <2>1. CASE MultiThreaded
      BY <1>3, <1>5, <2>1, PipelineAssumption DEF Waiting, TypeInv, TypeOK, MessagesInPlace
  <2>2. CASE ~MultiThreaded
      BY <1>3, <1>5, <2>2, PipelineAssumption DEF Waiting, TypeInv, TypeOK, MessagesInPlace
  <2> QED BY <2>1, <2>2
<1>8. TypeOK'
    BY <1>6, <1>7 DEF Take, TypeInv, TypeOK, Steps, storage, bounds, history
<1>9. MessagesInPlace'
    BY <1>2, <1>6, <1>7 DEF Take, TypeInv, MessagesInPlace, FirstStep, DbSavingStep, NoDbStep, HasDatabase, storage
<1> QED BY <1>8, <1>9 DEF TypeInv

LEMMA WorkerStaysInPlace ==
    ASSUME TypeInv, NEW s \in Sources, UNCHANGED <<db, inbound, queue>>,
           \/ Done(s)
           \/ \E step \in Steps \ {"idle", "locking"} :
                 /\ Goto(s, step) /\ worker[s].at # "idle"
                 /\ step = "announcing" => worker[s].event.kind = "ApiVersion"
                 /\ step # "announcing" => worker[s].event.kind # "ApiVersion"
                 /\ step = "notifying" => worker[s].event.kind = "BlockAdded"
                 /\ step \in {"saving", "inserting", "committing"} => HasDatabase
    PROVE  MessagesInPlace' /\ worker' \in [Sources -> [at : Steps, event : Messages]]
<1>1. CASE Done(s)
    BY <1>1, DoneFacts DEF TypeInv, MessagesInPlace, HasDatabase
<1>2. ASSUME NEW step \in Steps \ {"idle", "locking"}, Goto(s, step), worker[s].at # "idle",
             step = "announcing" => worker[s].event.kind = "ApiVersion",
             step # "announcing" => worker[s].event.kind # "ApiVersion",
             step = "notifying" => worker[s].event.kind = "BlockAdded",
             step \in {"saving", "inserting", "committing"} => HasDatabase
      PROVE  MessagesInPlace' /\ worker' \in [Sources -> [at : Steps, event : Messages]]
    BY <1>2, GotoFacts DEF TypeInv, MessagesInPlace, HasDatabase, Steps
<1> QED BY <1>1, <1>2

LEMMA VersionKeepsTypes ==
    ASSUME TypeInv, NEW s \in Sources, StoreVersion(s) \/ Announce(s)
    PROVE  TypeInv'
<1>0. worker[s].at # "idle" /\ worker[s].event \in NodeMessages(s) /\ worker[s].event.kind = "ApiVersion"
    BY DEF StoreVersion, Announce, TypeInv, MessagesInPlace
<1>1. worker[s].event \in Messages /\ worker[s].event.ver \in Nat
    BY <1>0, MessageTypes DEF Messages
<1>2. CASE StoreVersion(s)
  <2>1. MessagesInPlace' /\ worker' \in [Sources -> [at : Steps, event : Messages]]
      BY <1>0, <1>2, WorkerStaysInPlace DEF StoreVersion, storage, Steps
  <2>2. newest' \in Nat /\ lock' \in Sources \cup {None}
      BY <1>1, <1>2 DEF StoreVersion, TypeInv, TypeOK
  <2> QED BY <1>2, <2>1, <2>2 DEF StoreVersion, TypeInv, TypeOK, Steps, storage, bounds, history
<1>3. CASE Announce(s)
  <2>1. MessagesInPlace' /\ worker' \in [Sources -> [at : Steps, event : Messages]]
      BY <1>3, WorkerStaysInPlace DEF Announce, storage
  <2>2. outbound' \in Seq(Messages) /\ Len(outbound') <= OutboundSize
      BY <1>1, <1>3, SendOutboundFacts DEF Announce, TypeInv
  <2> QED BY <1>3, <2>1, <2>2 DEF Announce, TypeInv, TypeOK, Steps, storage, bounds, history
<1> QED BY <1>2, <1>3

LEMMA DuplicateKeepsTypes ==
    ASSUME TypeInv, NEW s \in Sources, Duplicate(s),
           worker[s].at \in {"saving", "inserting"}, UNCHANGED <<db, inbound, queue>>
    PROVE  /\ MessagesInPlace' /\ worker' \in [Sources -> [at : Steps, event : Messages]]
           /\ tx' \in [Sources -> [log : SUBSET [source : Sources, key : Keys \cup ShutdownKeys],
                                   rows : SUBSET (Keys \cup ShutdownKeys)]]
<1>1. tx' \in [Sources -> [log : SUBSET [source : Sources, key : Keys \cup ShutdownKeys],
                           rows : SUBSET (Keys \cup ShutdownKeys)]]
    BY RollbackFacts DEF Duplicate, TypeInv
<1>2. CASE worker[s].event.kind = "Shutdown"
    BY <1>1, <1>2, WorkerStaysInPlace DEF Duplicate, Steps
<1>3. CASE worker[s].event.kind # "Shutdown"
    BY <1>1, <1>3, WorkerStaysInPlace DEF Duplicate
<1> QED BY <1>2, <1>3

LEMMA InsertKeepsTypes ==
    ASSUME TypeInv, NEW s \in Sources, InsertEventLog(s) \/ InsertEntity(s)
    PROVE  TypeInv'
<1> DEFINE TxType == [Sources -> [log : SUBSET [source : Sources, key : Keys \cup ShutdownKeys],
                                  rows : SUBSET (Keys \cup ShutdownKeys)]]
<1>0. /\ worker[s].at \in {"saving", "inserting"} /\ UNCHANGED <<db, inbound, queue>>
      /\ HasDatabase /\ worker[s].event.kind # "ApiVersion" /\ worker[s].at # "idle"
    BY DEF InsertEventLog, InsertEntity, storage, TypeInv, MessagesInPlace
<1>1. MessagesInPlace' /\ worker' \in [Sources -> [at : Steps, event : Messages]] /\ tx' \in TxType
  <2>1. CASE Duplicate(s)
      BY <1>0, <2>1, DuplicateKeepsTypes
  <2>2. ASSUME NEW key \in RowKeys(s), tx' = [tx EXCEPT ![s].log = {[source |-> s, key |-> key]}],
               Goto(s, "inserting")
        PROVE  MessagesInPlace' /\ worker' \in [Sources -> [at : Steps, event : Messages]] /\ tx' \in TxType
    <3>1. key \in Keys \cup ShutdownKeys
        BY <1>0, RowKeysType
    <3>2. [source |-> s, key |-> key] \in [source : Sources, key : Keys \cup ShutdownKeys]
        BY <3>1
    <3>3. tx' \in TxType
      <4> DEFINE L == {[source |-> s, key |-> key]}
      <4>1. L \in SUBSET [source : Sources, key : Keys \cup ShutdownKeys]
          BY <3>2
      <4>2. tx' = [tx EXCEPT ![s].log = L]
          BY <2>2
      <4> HIDE DEF L
      <4> QED BY <4>1, <4>2 DEF TypeInv, TypeOK
    <3> QED BY <1>0, <2>2, <3>3, WorkerStaysInPlace DEF Steps
  <2>3. ASSUME NEW key \in RowKeys(s), tx' = [tx EXCEPT ![s].rows = {key}], Goto(s, "committing")
        PROVE  MessagesInPlace' /\ worker' \in [Sources -> [at : Steps, event : Messages]] /\ tx' \in TxType
    <3>1. key \in Keys \cup ShutdownKeys
        BY <1>0, RowKeysType
    <3>2. tx' \in TxType
        BY <2>3, <3>1 DEF TypeInv, TypeOK
    <3> QED BY <1>0, <2>3, <3>2, WorkerStaysInPlace DEF Steps
  <2> QED BY <2>1, <2>2, <2>3 DEF InsertEventLog, InsertEntity
<1>2. TypeOK'
  <2>1. /\ UNCHANGED <<storage, link, ended, inbound, consumer, queue, lock, newest, bus,
                       outbound, open, out, phase, bounds, history>>
      BY DEF InsertEventLog, InsertEntity
  <2> QED BY <1>1, <2>1 DEF TypeInv, TypeOK, Steps, storage, bounds, history
<1> QED BY <1>1, <1>2 DEF TypeInv

LEMMA SaveKeepsTypes ==
    ASSUME TypeInv, NEW s \in Sources, Commit(s) \/ SaveFails(s) \/ Notify(s) \/ PassOn(s)
    PROVE  TypeInv'
<1>0. /\ worker[s].at \in {"saving", "inserting", "committing", "notifying", "sending"} /\ worker[s].at # "idle"
      /\ worker[s].event \in NodeMessages(s) /\ worker[s].event \in Messages
      /\ worker[s].event.kind # "ApiVersion"
      /\ UNCHANGED <<db, inbound, queue>>
    BY MessageTypes DEF Commit, SaveFails, Notify, PassOn, storage, TypeInv, MessagesInPlace
<1>1. CASE Commit(s)
  <2>1. AfterSave(s) \in Steps \ {"idle", "locking", "announcing", "saving", "inserting", "committing"}
        /\ (AfterSave(s) = "notifying" => worker[s].event.kind = "BlockAdded")
      BY DEF AfterSave, Steps
  <2>2. MessagesInPlace' /\ worker' \in [Sources -> [at : Steps, event : Messages]]
      BY <1>0, <1>1, <2>1, WorkerStaysInPlace DEF Commit
  <2>3. tx' \in [Sources -> [log : SUBSET [source : Sources, key : Keys \cup ShutdownKeys],
                             rows : SUBSET (Keys \cup ShutdownKeys)]]
      BY <1>1, RollbackFacts DEF Commit, TypeInv
  <2>4. /\ log' \subseteq [source : Sources, key : Keys \cup ShutdownKeys]
        /\ rows' \subseteq Keys \cup ShutdownKeys
      BY <1>1 DEF Commit, TypeInv, TypeOK
  <2> QED BY <1>1, <2>2, <2>3, <2>4 DEF Commit, TypeInv, TypeOK, Steps, bounds, history
<1>2. CASE SaveFails(s)
  <2>2. MessagesInPlace' /\ worker' \in [Sources -> [at : Steps, event : Messages]]
      BY <1>0, <1>2, WorkerStaysInPlace DEF SaveFails
  <2>3. tx' \in [Sources -> [log : SUBSET [source : Sources, key : Keys \cup ShutdownKeys],
                             rows : SUBSET (Keys \cup ShutdownKeys)]]
      BY <1>2, RollbackFacts DEF SaveFails, TypeInv
  <2>4. /\ log' \subseteq [source : Sources, key : Keys \cup ShutdownKeys]
        /\ rows' \subseteq Keys \cup ShutdownKeys /\ unsure' \subseteq Keys \cup ShutdownKeys
      BY <1>2 DEF SaveFails, TypeInv, TypeOK
  <2> QED BY <1>2, <2>2, <2>3, <2>4 DEF SaveFails, TypeInv, TypeOK, Steps
<1>3. CASE Notify(s)
  <2>1. worker[s].event.key \in Blocks
      BY <1>0, <1>3, PipelineAssumption DEF Notify, TypeInv, MessagesInPlace, NodeMessages
  <2>2. bus' \in Seq(Blocks)
      BY <1>3, <2>1, AppendProperties DEF Notify, TypeInv, TypeOK
  <2>3. MessagesInPlace' /\ worker' \in [Sources -> [at : Steps, event : Messages]]
      BY <1>0, <1>3, WorkerStaysInPlace DEF Notify, Steps
  <2> QED BY <1>3, <2>2, <2>3 DEF Notify, TypeInv, TypeOK, Steps, storage, bounds, history
<1>4. CASE PassOn(s)
  <2>1. MessagesInPlace' /\ worker' \in [Sources -> [at : Steps, event : Messages]]
      BY <1>0, <1>4, WorkerStaysInPlace DEF PassOn
  <2>2. outbound' \in Seq(Messages) /\ Len(outbound') <= OutboundSize
      BY <1>0, <1>4, SendOutboundFacts DEF PassOn, TypeInv
  <2> QED BY <1>4, <2>1, <2>2 DEF PassOn, TypeInv, TypeOK, Steps, storage, bounds, history
<1> QED BY <1>1, <1>2, <1>3, <1>4

LEMMA ProcessKeepsTypes ==
    ASSUME TypeInv, Broadcast \/ StartFails \/ SendShutdown \/ Exit
    PROVE  TypeInv'
<1>1. CASE Broadcast
  <2>1. outbound \in Seq(Messages) /\ outbound # <<>> /\ out \in Seq(Messages)
      BY <1>1 DEF Broadcast, TypeInv, TypeOK
  <2>2. /\ out' \in Seq(Messages) /\ outbound' \in Seq(Messages)
        /\ Len(outbound') <= Len(outbound)
      BY <1>1, <2>1, HeadTailProperties, AppendProperties DEF Broadcast
  <2>3. Len(outbound') <= OutboundSize
      BY <2>1, <2>2, PipelineAssumption DEF TypeInv, TypeOK
  <2> QED BY <1>1, <2>2, <2>3 DEF Broadcast, TypeInv, TypeOK, MessagesInPlace, HasDatabase, storage, bounds, history
<1>2. CASE StartFails
  <2>1. outbound' = <<>> /\ outbound' \in Seq(Messages) /\ Len(outbound') <= OutboundSize /\ open' \in BOOLEAN
    <3>1. OutboundSize \in Nat
        BY PipelineAssumption
    <3>2. outbound' = <<>> /\ open' = FALSE
        BY <1>2 DEF StartFails
    <3>3. outbound' \in Seq(Messages)
        BY <3>2
    <3>4. Len(outbound') = 0
        BY <3>2
    <3>5. Len(outbound') <= OutboundSize
        BY <3>1, <3>4
    <3> QED BY <3>2, <3>3, <3>5, Zenon
  <2> QED BY <1>2, <2>1 DEF StartFails, TypeInv, TypeOK, MessagesInPlace, HasDatabase, storage, bounds, history
<1>3. CASE SendShutdown
  <2> DEFINE m == [kind |-> "SidecarShutdown", key |-> NoKey, ver |-> None, source |-> None]
  <2>1. m \in Messages
      BY DEF Messages, Kinds, None
  <2>2. SendOutbound(m)
      BY <1>3 DEF SendShutdown
  <2> HIDE DEF m
  <2>3. outbound' \in Seq(Messages) /\ Len(outbound') <= OutboundSize
      BY <2>1, <2>2, SendOutboundFacts DEF TypeInv
  <2> QED BY <1>3, <2>3 DEF SendShutdown, TypeInv, TypeOK, MessagesInPlace, HasDatabase, storage, bounds, history
<1>4. CASE Exit
  <2>1. tx' \in [Sources -> [log : SUBSET [source : Sources, key : Keys \cup ShutdownKeys],
                             rows : SUBSET (Keys \cup ShutdownKeys)]]
      BY <1>4 DEF Exit, NoRows
  <2> QED BY <1>4, <2>1 DEF Exit, TypeInv, TypeOK, MessagesInPlace, HasDatabase, storage, bounds, history
<1> QED BY <1>1, <1>2, <1>3, <1>4

\* The state at the start of a life of the process.
Fresh ==
    /\ tx = Volatile.tx /\ link = Volatile.link /\ ended = Volatile.ended
    /\ inbound = Volatile.channel /\ queue = Volatile.channel
    /\ consumer = Volatile.consumer /\ worker = Volatile.worker
    /\ lock = None /\ newest = None
    /\ bus = <<>> /\ outbound = <<>> /\ out = <<>>
    /\ open = TRUE /\ phase = "running"

LEMMA FreshFacts ==
    ASSUME Fresh
    PROVE  /\ tx = [s \in Sources |-> NoRows] /\ link = [s \in Sources |-> None]
           /\ ended = [s \in Sources |-> FALSE] /\ consumer = [s \in Sources |-> TRUE]
           /\ inbound = [s \in Sources |-> <<>>] /\ queue = [s \in Sources |-> <<>>]
           /\ worker = [s \in Sources |-> [at |-> "idle", event |-> Idle]]
BY DEF Fresh, Volatile

HistoryTypes ==
    /\ db \in {"sqlite", "postgresql", "none"}
    /\ log \subseteq [source : Sources, key : Keys \cup ShutdownKeys]
    /\ rows \subseteq Keys \cup ShutdownKeys
    /\ told \subseteq Keys /\ unsure \subseteq Keys \cup ShutdownKeys

LEMMA FreshTypes ==
    Fresh /\ HistoryTypes => TypeInv
<1> SUFFICES ASSUME Fresh, HistoryTypes PROVE TypeInv
    OBVIOUS
<1>0. NoRows \in [log : SUBSET [source : Sources, key : Keys \cup ShutdownKeys],
                  rows : SUBSET (Keys \cup ShutdownKeys)]
    BY DEF NoRows
<1>1. /\ tx \in [Sources -> [log : SUBSET [source : Sources, key : Keys \cup ShutdownKeys],
                             rows : SUBSET (Keys \cup ShutdownKeys)]]
      /\ link \in [Sources -> Versions \cup {None}]
      /\ ended \in [Sources -> BOOLEAN] /\ consumer \in [Sources -> BOOLEAN]
    BY <1>0, FreshFacts
<1>2. /\ inbound \in [Sources -> Seq(Messages)] /\ queue \in [Sources -> Seq(Messages)]
      /\ \A s \in Sources : inbound[s] = <<>> /\ queue[s] = <<>>
  <2> DEFINE e == <<>>
  <2>1. e \in Seq(Messages)
      OBVIOUS
  <2>2. inbound = [s \in Sources |-> e] /\ queue = [s \in Sources |-> e]
      BY FreshFacts
  <2>3. inbound \in [Sources -> Seq(Messages)] /\ queue \in [Sources -> Seq(Messages)]
    <3> HIDE DEF e
    <3> QED BY <2>1, <2>2
  <2>4. \A s \in Sources : inbound[s] = e /\ queue[s] = e
    <3> HIDE DEF e
    <3> QED BY <2>2
  <2> QED BY <2>3, <2>4
<1>7. \A s \in Sources : Len(inbound[s]) <= InboundSize /\ Len(queue[s]) <= QueueSize
  <2>1. InboundSize \in Nat /\ QueueSize \in Nat
      BY PipelineAssumption
  <2>2. \A s \in Sources : Len(inbound[s]) = 0 /\ Len(queue[s]) = 0
      BY <1>2
  <2> QED BY <2>1, <2>2
<1>3. worker \in [Sources -> [at : Steps, event : Messages]] /\ \A s \in Sources : worker[s].at = "idle"
    BY FreshFacts, MessageTypes
<1>4. /\ outbound \in Seq(Messages) /\ out \in Seq(Messages) /\ bus \in Seq(Blocks)
      /\ Len(outbound) <= OutboundSize
    BY PipelineAssumption, EmptySeq DEF Fresh
<1>5. TypeOK
    BY <1>1, <1>2, <1>3, <1>4, <1>7 DEF TypeOK, Fresh, HistoryTypes, Steps, None
<1>6. MessagesInPlace
    BY <1>2, <1>3, EmptySeq DEF MessagesInPlace
<1> QED BY <1>5, <1>6 DEF TypeInv

LEMMA TypeInvInit ==
    Init => TypeInv
BY FreshTypes, PipelineAssumption DEF Init, Fresh, HistoryTypes

LEMMA KeysOfType ==
    ASSUME NEW msgs PROVE KeysOf(msgs) \subseteq Keys
BY DEF KeysOf

LEMMA CrashKeepsTypes ==
    TypeInv /\ Crash => TypeInv'
<1>1. TypeInv /\ Crash => Fresh'
    BY DEF Crash, Fresh, Volatile
<1>2. TypeInv /\ Crash => HistoryTypes'
    BY KeysOfType DEF Crash, TypeInv, TypeOK, HistoryTypes, storage
<1> QED BY <1>1, <1>2, FreshTypes, PTL

LEMMA TypeInvStep ==
    TypeInv /\ [Next]_vars => TypeInv'
<1> SUFFICES ASSUME TypeInv, [Next]_vars PROVE TypeInv'
    OBVIOUS
<1>1. ASSUME NEW s \in Sources,
             Listener(s) \/ Forward(s) \/ Finish(s) \/ Take(s) \/ Work(s) \/ SaveFails(s)
      PROVE  TypeInv'
    BY <1>1, ListenerKeepsTypes, ConsumerKeepsTypes, TakeKeepsTypes, VersionKeepsTypes,
       InsertKeepsTypes, SaveKeepsTypes DEF Work, Save
<1>2. CASE Broadcast \/ StartFails \/ SendShutdown \/ Exit \/ Crash
    BY <1>2, ProcessKeepsTypes, CrashKeepsTypes
<1>3. CASE UNCHANGED vars
    BY <1>3 DEF vars, TypeInv, TypeOK, MessagesInPlace, HasDatabase, storage, bounds, history
<1> QED BY <1>1, <1>2, <1>3 DEF Next

LEMMA TypeInvHolds ==
    Spec => []TypeInv
BY TypeInvInit, TypeInvStep, PTL DEF Spec

\* Every variable keeps the type of its Rust counterpart and no channel exceeds its
\* size, whatever the listeners send and wherever the process crashes.
THEOREM TypeCorrect ==
    Spec => []TypeOK
<1>1. TypeInv => TypeOK
    BY DEF TypeInv
<1> QED BY <1>1, TypeInvHolds, PTL
-----------------------------------------------------------------------------
\* The database.

\* Worker s has an open transaction.
Writing(s) == Running /\ worker[s].at \in {"inserting", "committing"}

\* The step neither writes nor begins or ends a transaction.
StoreUntouched ==
    /\ UNCHANGED <<db, log, rows, tx>> /\ (Running' <=> Running)
    /\ \A r \in Sources :
          \/ worker'[r] = worker[r]
          \/ {worker[r].at, worker'[r].at} \cap {"inserting", "committing"} = {}

LEMMA UntouchedKeepsStore ==
    ASSUME StoreInv, StoreUntouched
    PROVE  TransactionsOpen' /\ TransactionsApart' /\ LogMatchesRows'
<1>1. TransactionsOpen'
    BY DEF StoreInv, StoreUntouched, TransactionsOpen, TransactionOpen, RowKeys
<1>2. TransactionsApart'
    BY DEF StoreInv, StoreUntouched, TransactionsApart
<1>3. LogMatchesRows'
    BY DEF StoreInv, StoreUntouched, LogMatchesRows
<1> QED BY <1>1, <1>2, <1>3

\* The steps that leave the database alone.
LEMMA QuietSteps ==
    ASSUME TypeInv, NEW s \in Sources,
           \/ Listener(s) \/ Forward(s) \/ Finish(s) \/ Take(s) \/ StoreVersion(s) \/ Announce(s)
           \/ Notify(s) \/ PassOn(s) \/ Broadcast \/ StartFails \/ SendShutdown
    PROVE  StoreUntouched
<1>1. CASE Listener(s) \/ Forward(s) \/ Finish(s) \/ Broadcast \/ StartFails
    BY <1>1 DEF Listener, Connect, Deliver, Disconnect, GiveUp, Send, Forward, Finish, Broadcast,
                StartFails, StoreUntouched, Running, storage
<1>2. CASE SendShutdown
    BY <1>2 DEF SendShutdown, StoreUntouched, Running, storage
<1>3. CASE Take(s)
  <2>1. FirstStep(Head(Waiting(s))) \notin {"inserting", "committing"}
      BY DEF FirstStep, DbSavingStep, NoDbStep
  <2>2. worker'[s].at = FirstStep(Head(Waiting(s))) /\ \A r \in Sources \ {s} : worker'[r] = worker[r]
      BY <1>3 DEF Take, TypeInv, TypeOK
  <2> QED BY <1>3, <2>1, <2>2 DEF Take, StoreUntouched, Running, storage
<1>4. CASE StoreVersion(s)
    BY <1>4, GotoFacts, DoneFacts DEF StoreVersion, TypeInv, StoreUntouched, Running, storage, Steps
<1>5. CASE Announce(s) \/ PassOn(s)
    BY <1>5, DoneFacts DEF Announce, PassOn, TypeInv, StoreUntouched, Running, storage, Steps
<1>6. CASE Notify(s)
    BY <1>6, GotoFacts DEF Notify, TypeInv, StoreUntouched, Running, storage, Steps
<1> QED BY <1>1, <1>2, <1>3, <1>4, <1>5, <1>6

LEMMA SameTransaction ==
    ASSUME TransactionsOpen, UNCHANGED phase, NEW r \in Sources, tx'[r] = tx[r], worker'[r] = worker[r]
    PROVE  TransactionOpen(r)'
BY DEF TransactionsOpen, TransactionOpen, RowKeys, Running

\* A transaction that is rolled back leaves no trace.
LEMMA RollbackKeepsStore ==
    ASSUME StoreInv, NEW s \in Sources, Rollback(s), UNCHANGED <<db, log, rows, phase>>,
           worker'[s].at \notin {"inserting", "committing"},
           \A r \in Sources \ {s} : worker'[r] = worker[r]
    PROVE  TransactionsOpen' /\ TransactionsApart' /\ LogMatchesRows'
<1>1. tx'[s] = NoRows /\ NoRows.rows = {} /\ \A r \in Sources \ {s} : tx'[r] = tx[r]
    BY RollbackFacts, MessageTypes DEF StoreInv, TypeInv
<1>2. TransactionsOpen'
  <2>1. \A r \in Sources \ {s} : TransactionOpen(r)'
      BY <1>1, SameTransaction DEF StoreInv
  <2>2. TransactionOpen(s)'
      BY <1>1 DEF TransactionOpen
  <2> QED BY <2>1, <2>2 DEF TransactionsOpen
<1>3. TransactionsApart'
    BY <1>1 DEF StoreInv, TransactionsApart
<1>4. LogMatchesRows'
    BY DEF StoreInv, LogMatchesRows
<1> QED BY <1>2, <1>3, <1>4

LEMMA InsertKeepsStore ==
    ASSUME StoreInv, NEW s \in Sources, InsertEventLog(s) \/ InsertEntity(s)
    PROVE  TransactionsOpen' /\ TransactionsApart' /\ LogMatchesRows'
<1>0. TypeOK /\ Running /\ UNCHANGED <<db, log, rows, phase>>
      /\ worker[s].at \in {"saving", "inserting"}
    BY DEF InsertEventLog, InsertEntity, StoreInv, TypeInv, storage
<1>1. CASE Duplicate(s)
    BY <1>0, <1>1, RollbackKeepsStore, GotoFacts, DoneFacts DEF Duplicate, Steps
<1>2. ASSUME worker[s].at = "saving",
             NEW key \in RowKeys(s), tx' = [tx EXCEPT ![s].log = {[source |-> s, key |-> key]}],
             Goto(s, "inserting")
      PROVE  TransactionsOpen' /\ TransactionsApart' /\ LogMatchesRows'
  <2>1. /\ worker'[s].at = "inserting" /\ worker'[s].event = worker[s].event
        /\ \A r \in Sources \ {s} : worker'[r] = worker[r]
      BY <1>0, <1>2, GotoFacts DEF Steps
  <2>2. tx[s] = NoRows /\ tx[s].rows = {}
      BY <1>2, MessageTypes DEF StoreInv, TransactionsOpen, TransactionOpen
  <2>3. /\ tx'[s].log = {[source |-> s, key |-> key]} /\ tx'[s].rows = {}
        /\ \A r \in Sources \ {s} : tx'[r] = tx[r]
      BY <1>0, <1>2, <2>2 DEF TypeOK
  <2>4. key \in RowKeys(s)'
      BY <1>2, <2>1 DEF RowKeys
  <2>5. TransactionsOpen'
    <3>1. \A r \in Sources \ {s} : TransactionOpen(r)'
        BY <1>0, <2>1, <2>3, SameTransaction DEF StoreInv
    <3>2. TransactionOpen(s)'
        BY <1>0, <2>1, <2>3, <2>4 DEF TransactionOpen, Running
    <3> QED BY <3>1, <3>2 DEF TransactionsOpen
  <2>6. TransactionsApart'
      BY <1>0, <2>3 DEF StoreInv, TransactionsApart
  <2> QED BY <1>0, <2>5, <2>6 DEF StoreInv, LogMatchesRows
<1>3. ASSUME worker[s].at = "inserting", NEW key \in RowKeys(s), MayInsert(s, key), key \notin rows,
             tx' = [tx EXCEPT ![s].rows = {key}], Goto(s, "committing")
      PROVE  TransactionsOpen' /\ TransactionsApart' /\ LogMatchesRows'
  <2>1. /\ worker'[s].at = "committing" /\ worker'[s].event = worker[s].event
        /\ \A r \in Sources \ {s} : worker'[r] = worker[r]
      BY <1>0, <1>3, GotoFacts DEF Steps
  <2>2. /\ tx'[s].log = tx[s].log /\ tx'[s].rows = {key}
        /\ \A r \in Sources \ {s} : tx'[r] = tx[r]
      BY <1>0, <1>3 DEF TypeOK
  <2>3. \A r \in Sources \ {s} : key \notin tx[r].rows
      BY <1>3, MessageTypes DEF MayInsert
  <2>4. RowKeys(s)' = RowKeys(s)
      BY <2>1 DEF RowKeys
  <2>5. PICK k \in RowKeys(s) : tx[s].log = {[source |-> s, key |-> k]}
      BY <1>0, <1>3 DEF StoreInv, TransactionsOpen, TransactionOpen
  <2>6. TransactionsOpen'
    <3>1. \A r \in Sources \ {s} : TransactionOpen(r)'
        BY <1>0, <2>1, <2>2, SameTransaction DEF StoreInv
    <3>2. TransactionOpen(s)'
        BY <1>0, <1>3, <2>1, <2>2, <2>4, <2>5 DEF TransactionOpen, Running
    <3> QED BY <3>1, <3>2 DEF TransactionsOpen
  <2>7. TransactionsApart'
      BY <1>0, <1>3, <2>2, <2>3 DEF StoreInv, TransactionsApart
  <2> QED BY <1>0, <2>6, <2>7 DEF StoreInv, LogMatchesRows
<1> QED BY <1>1, <1>2, <1>3 DEF InsertEventLog, InsertEntity

\* A transaction that is committed adds the two rows of one event.
LEMMA CommittedRows ==
    ASSUME StoreInv, Running, NEW s \in Sources, worker[s].at = "committing"
    PROVE  /\ worker[s].event.key \in Keys =>
                /\ tx[s].log = {[source |-> s, key |-> worker[s].event.key]}
                /\ tx[s].rows = {worker[s].event.key}
                /\ worker[s].event.key \notin rows
           /\ worker[s].event.key \notin Keys =>
                /\ \A k \in Keys : k \notin tx[s].rows
                /\ \A k \in Keys, r \in Sources : [source |-> r, key |-> k] \notin tx[s].log
<1>1. PICK k1 \in RowKeys(s), k2 \in RowKeys(s) : tx[s].log = {[source |-> s, key |-> k1]} /\ tx[s].rows = {k2}
    BY DEF StoreInv, TransactionsOpen, TransactionOpen
<1>2. NoKey \notin Keys
    BY PipelineAssumption DEF Keys
<1>3. CASE worker[s].event.kind = "Shutdown"
    BY <1>1, <1>2, <1>3, RowKeysType DEF StoreInv
<1>4. CASE worker[s].event.kind # "Shutdown"
  <2>1. RowKeys(s) = {worker[s].event.key} /\ worker[s].event.key \in Keys
      BY <1>4, RowKeysType DEF StoreInv
  <2> QED BY <1>1, <2>1 DEF StoreInv, TransactionsApart
<1> QED BY <1>3, <1>4

LEMMA CommitKeepsStore ==
    ASSUME StoreInv, Running, NEW s \in Sources, worker[s].at = "committing",
           log' = log \cup tx[s].log, rows' = rows \cup tx[s].rows, Rollback(s), UNCHANGED phase,
           worker'[s].at \notin {"inserting", "committing"},
           \A r \in Sources \ {s} : worker'[r] = worker[r]
    PROVE  TransactionsOpen' /\ TransactionsApart' /\ LogMatchesRows'
<1>1. tx'[s] = NoRows /\ NoRows.rows = {} /\ \A r \in Sources \ {s} : tx'[r] = tx[r]
    BY RollbackFacts, MessageTypes DEF StoreInv, TypeInv
<1>2. TransactionsOpen'
  <2>1. \A r \in Sources \ {s} : TransactionOpen(r)'
      BY <1>1, SameTransaction DEF StoreInv
  <2>2. TransactionOpen(s)'
      BY <1>1 DEF TransactionOpen
  <2> QED BY <2>1, <2>2 DEF TransactionsOpen
<1>3. TransactionsApart'
    BY <1>1 DEF StoreInv, TransactionsApart
<1>4. LogMatchesRows'
  <2>1. CASE worker[s].event.key \in Keys
      BY <2>1, CommittedRows DEF StoreInv, LogMatchesRows
  <2>2. CASE worker[s].event.key \notin Keys
      BY <2>2, CommittedRows DEF StoreInv, LogMatchesRows
  <2> QED BY <2>1, <2>2
<1> QED BY <1>2, <1>3, <1>4

LEMMA FreshStore ==
    Fresh /\ LogMatchesRows => TransactionsOpen /\ TransactionsApart
BY FreshFacts, MessageTypes DEF Fresh, TransactionsOpen, TransactionOpen, TransactionsApart

LEMMA StoreInvStep ==
    StoreInv /\ [Next]_vars => StoreInv'
<1> SUFFICES ASSUME StoreInv, [Next]_vars PROVE TransactionsOpen' /\ TransactionsApart' /\ LogMatchesRows'
    BY TypeInvStep DEF StoreInv
<1>0. TypeInv /\ TypeOK
    BY DEF StoreInv, TypeInv
<1>1. ASSUME NEW s \in Sources,
             \/ Listener(s) \/ Forward(s) \/ Finish(s) \/ Take(s) \/ StoreVersion(s) \/ Announce(s)
             \/ Notify(s) \/ PassOn(s)
      PROVE  TransactionsOpen' /\ TransactionsApart' /\ LogMatchesRows'
    BY <1>0, <1>1, QuietSteps, UntouchedKeepsStore
<1>2. ASSUME NEW s \in Sources, InsertEventLog(s) \/ InsertEntity(s)
      PROVE  TransactionsOpen' /\ TransactionsApart' /\ LogMatchesRows'
    BY <1>2, InsertKeepsStore
<1>3. ASSUME NEW s \in Sources, Commit(s)
      PROVE  TransactionsOpen' /\ TransactionsApart' /\ LogMatchesRows'
  <2>1. AfterSave(s) \in Steps \ {"inserting", "committing"}
      BY DEF AfterSave, Steps
  <2>2. worker'[s].at \notin {"inserting", "committing"} /\ \A r \in Sources \ {s} : worker'[r] = worker[r]
      BY <1>0, <1>3, <2>1, GotoFacts DEF Commit
  <2> QED BY <1>3, <2>2, CommitKeepsStore DEF Commit
<1>4. ASSUME NEW s \in Sources, SaveFails(s)
      PROVE  TransactionsOpen' /\ TransactionsApart' /\ LogMatchesRows'
  <2>1. worker'[s].at \notin {"inserting", "committing"} /\ \A r \in Sources \ {s} : worker'[r] = worker[r]
      BY <1>0, <1>4, DoneFacts DEF SaveFails
  <2>2. CASE UNCHANGED <<log, rows>>
      BY <1>4, <2>1, <2>2, RollbackKeepsStore DEF SaveFails
  <2>3. CASE worker[s].at = "committing" /\ log' = log \cup tx[s].log /\ rows' = rows \cup tx[s].rows
      BY <1>4, <2>1, <2>3, CommitKeepsStore DEF SaveFails
  <2> QED BY <1>4, <2>2, <2>3 DEF SaveFails
<1>5. CASE Broadcast \/ StartFails \/ SendShutdown
  <2>1. StoreUntouched
      BY <1>5 DEF Broadcast, StartFails, SendShutdown, StoreUntouched, Running, storage
  <2> QED BY <2>1, UntouchedKeepsStore
<1>6. CASE Exit
  <2>1. UNCHANGED <<log, rows>> /\ ~Running' /\ \A s \in Sources : tx'[s] = NoRows
      BY <1>6 DEF Exit, Running, storage
  <2> QED BY <2>1, MessageTypes DEF StoreInv, TransactionsOpen, TransactionOpen, TransactionsApart, LogMatchesRows
<1>7. CASE Crash
  <2>1. Fresh' /\ LogMatchesRows'
      BY <1>7 DEF Crash, Fresh, Volatile, StoreInv, LogMatchesRows, storage
  <2> QED BY <2>1, FreshStore, PTL
<1>8. CASE UNCHANGED vars
  <2>1. StoreUntouched
      BY <1>8 DEF vars, StoreUntouched, Running, storage
  <2> QED BY <2>1, UntouchedKeepsStore
<1> QED BY <1>1, <1>2, <1>3, <1>4, <1>5, <1>6, <1>7, <1>8 DEF Next, Work, Save

LEMMA StoreInvHolds ==
    Spec => []StoreInv
<1>1. Init => StoreInv
  <2>1. Init => Fresh /\ LogMatchesRows
      BY DEF Init, Fresh, LogMatchesRows
  <2> QED BY <2>1, TypeInvInit, FreshStore DEF StoreInv
<1> QED BY <1>1, StoreInvStep, PTL DEF Spec

\* event_log and the entity tables agree and hold one row for every event, although
\* several workers write at the same time, commits fail and the process crashes.
THEOREM LogMatches ==
    Spec => []LogMatchesRows
<1>1. StoreInv => LogMatchesRows
    BY DEF StoreInv
<1> QED BY <1>1, StoreInvHolds, PTL
-----------------------------------------------------------------------------
\* What is passed on.

LEMMA PassedType ==
    ASSUME TypeOK
    PROVE  /\ Passed \in Seq(Messages) /\ Len(Passed) = Len(out) + Len(outbound)
           /\ Len(out) \in Nat /\ Len(outbound) \in Nat /\ Len(Passed) \in Nat
           /\ \A i \in 1 .. Len(out) : Passed[i] = out[i]
           /\ \A i \in 1 .. Len(outbound) : Passed[Len(out) + i] = outbound[i]
<1>1. out \in Seq(Messages) /\ outbound \in Seq(Messages)
    BY DEF TypeOK
<1> QED BY <1>1, ConcatProperties, LenProperties DEF Passed

LEMMA BroadcastMoves ==
    ASSUME TypeOK, Broadcast
    PROVE  Passed' = Passed
BY MoveHead DEF TypeOK, Broadcast, Passed

\* Message m comes after everything that was passed on.
PassedAnother(m) ==
    /\ Passed' = Append(Passed, m)
    /\ Len(Passed') = Len(Passed) + 1
    /\ \A i \in 1 .. Len(Passed) : Passed'[i] = Passed[i]
    /\ Passed'[Len(Passed) + 1] = m

LEMMA SendPasses ==
    ASSUME TypeOK, NEW m \in Messages, SendOutbound(m), UNCHANGED out
    PROVE  /\ open => PassedAnother(m)
           /\ ~open => Passed' = Passed
<1>1. out \in Seq(Messages) /\ outbound \in Seq(Messages) /\ Passed \in Seq(Messages)
    BY PassedType DEF TypeOK
<1>2. CASE open
  <2>4. Passed' = Append(Passed, m)
    <3>1. out \o Append(outbound, m) = Append(out \o outbound, m)
        BY <1>1, AppendToSecond
    <3> QED BY <1>2, <3>1 DEF SendOutbound, Passed
  <2> HIDE DEF Passed
  <2> QED BY <1>1, <1>2, <2>4, AppendProperties DEF PassedAnother
<1>3. CASE ~open
    BY <1>3 DEF SendOutbound, Passed
<1> QED BY <1>2, <1>3

LEMMA EmptyPassed ==
    TypeOK /\ out = <<>> /\ outbound = <<>> => Passed = <<>> /\ Len(Passed) = 0
<1> SUFFICES ASSUME TypeOK, out = <<>>, outbound = <<>> PROVE Passed = <<>> /\ Len(Passed) = 0
    OBVIOUS
<1>1. Passed \in Seq(Messages) /\ Len(Passed) = Len(out) + Len(outbound)
    BY PassedType
<1>2. Len(out) = 0 /\ Len(outbound) = 0
    OBVIOUS
<1>3. Len(Passed) = 0
    BY <1>1, <1>2
<1> QED BY <1>1, <1>3, EmptySeq

\* A step that passes no event on, or one that has no key, and takes up no new one.
LEMMA NothingPublished ==
    ASSUME TypeOK, PublishInv, UNCHANGED <<db, told, bus>>, rows \subseteq rows',
           \/ Passed' = Passed
           \/ Len(Passed') = 0
           \/ \E m \in Messages : m.key \notin Keys /\ PassedAnother(m),
           \A r \in Sources : Carries(r)' => Carries(r) /\ worker'[r].event.key = worker[r].event.key
    PROVE  PublishInv'
<1> SUFFICES ASSUME HasDatabase PROVE PublishInv'
    BY DEF PublishInv, HasDatabase
<1>1. \A i \in 1 .. Len(Passed') : Passed'[i].key \in Keys => i \in 1 .. Len(Passed) /\ Passed[i] = Passed'[i]
  <2>1. Len(Passed) \in Nat
      BY PassedType
  <2> QED BY <2>1 DEF PassedAnother
<1>2. PassedOnce'
    BY <1>1 DEF PublishInv, PassedOnce
<1>3. CarriedOnce'
    BY <1>1 DEF PublishInv, CarriedOnce, Carries
<1> QED BY <1>2, <1>3 DEF PublishInv

\* The steps of a worker other than passing on, and those of the listeners and
\* consumers, pass nothing on.
LEMMA QuietPassed ==
    ASSUME NEW s \in Sources,
           \/ Listener(s) \/ Forward(s) \/ Finish(s) \/ Take(s) \/ StoreVersion(s)
           \/ Save(s) \/ SaveFails(s) \/ Exit
    PROVE  UNCHANGED <<db, told, out, outbound, open, crashes>> /\ Passed' = Passed
<1>1. UNCHANGED <<db, told, out, outbound, open, crashes>>
    BY DEF Listener, Connect, Deliver, Disconnect, GiveUp, Send, Forward, Finish, Take, StoreVersion,
           Save, InsertEventLog, InsertEntity, Commit, Notify, SaveFails, Exit, storage, bounds, history
<1> QED BY <1>1 DEF Passed

\* A worker takes up an event to pass on only when it has saved it.
LEMMA QuietCarries ==
    ASSUME TypeInv, HasDatabase, NEW s \in Sources,
           \/ Listener(s) \/ Forward(s) \/ Finish(s) \/ Take(s) \/ StoreVersion(s) \/ Announce(s)
           \/ InsertEventLog(s) \/ InsertEntity(s) \/ SaveFails(s) \/ Notify(s) \/ PassOn(s) \/ Exit
    PROVE  \A r \in Sources : Carries(r)' => Carries(r) /\ worker'[r].event.key = worker[r].event.key
<1>0. TypeOK
    BY DEF TypeInv
<1>1. CASE Listener(s) \/ Forward(s) \/ Finish(s) \/ Exit
    BY <1>1 DEF Listener, Connect, Deliver, Disconnect, GiveUp, Send, Forward, Finish, Exit, Carries
<1>2. CASE Take(s)
  <2>1. FirstStep(Head(Waiting(s))) \notin {"notifying", "sending"}
      BY DEF FirstStep, DbSavingStep
  <2>2. worker'[s].at = FirstStep(Head(Waiting(s))) /\ \A r \in Sources \ {s} : worker'[r] = worker[r]
      BY <1>2 DEF Take, TypeInv, TypeOK
  <2> QED BY <2>1, <2>2 DEF Carries
<1>3. CASE Done(s)
    BY <1>0, <1>3, DoneFacts DEF Carries
<1>4. CASE StoreVersion(s)
    BY <1>0, <1>3, <1>4, GotoFacts DEF StoreVersion, Carries, Steps
<1>5. CASE Announce(s) \/ SaveFails(s) \/ PassOn(s)
    BY <1>3, <1>5 DEF Announce, SaveFails, PassOn
<1>6. CASE Notify(s)
    BY <1>0, <1>6, GotoFacts DEF Notify, Carries, Steps
<1>7. CASE InsertEventLog(s) \/ InsertEntity(s)
  <2>1. CASE Duplicate(s)
    <3>1. CASE worker[s].event.kind = "Shutdown"
      <4>1. worker[s].event.key = NoKey /\ NoKey \notin Keys
          BY <1>7, <3>1, RowKeysType, PipelineAssumption DEF InsertEventLog, InsertEntity, Keys
      <4> QED BY <1>0, <2>1, <3>1, <4>1, GotoFacts DEF Duplicate, Carries, Steps
    <3>2. CASE worker[s].event.kind # "Shutdown"
        BY <1>3, <2>1, <3>2 DEF Duplicate
    <3> QED BY <3>1, <3>2
  <2>2. CASE Goto(s, "inserting") \/ Goto(s, "committing")
      BY <1>0, <2>2, GotoFacts DEF Carries, Steps
  <2> QED BY <1>7, <2>1, <2>2 DEF InsertEventLog, InsertEntity
<1> QED BY <1>1, <1>2, <1>4, <1>5, <1>6, <1>7

LEMMA CommitPublishes ==
    ASSUME StoreInv, PublishInv, NEW s \in Sources, Commit(s)
    PROVE  PublishInv'
<1> DEFINE k == worker[s].event.key
<1>0. TypeInv /\ TypeOK /\ Running /\ worker[s].at = "committing"
      /\ UNCHANGED <<db, told, bus, out, outbound>> /\ Passed' = Passed /\ rows' = rows \cup tx[s].rows
    BY DEF StoreInv, TypeInv, Commit, history, Passed
<1>1. /\ worker'[s].event = worker[s].event /\ \A r \in Sources \ {s} : worker'[r] = worker[r]
    BY <1>0, GotoFacts DEF Commit, AfterSave, Steps
<1>2. CASE k \notin Keys
    BY <1>0, <1>1, <1>2, NothingPublished DEF Carries
<1>3. CASE k \in Keys
  <2> SUFFICES ASSUME HasDatabase PROVE PublishInv'
      BY <1>0 DEF PublishInv, HasDatabase
  <2>1. k \notin rows /\ rows' = rows \cup {k}
      BY <1>0, <1>3, CommittedRows
  <2>2. k \notin told /\ (\A i \in 1 .. Len(Passed) : Passed[i].key # k) /\ \A r \in Sources : Carries(r) => worker[r].event.key # k
      BY <2>1, <1>3 DEF PublishInv, PassedOnce, CarriedOnce
  <2>3. \A r \in Sources \ {s} : (Carries(r)' <=> Carries(r))
      BY <1>1 DEF Carries
  <2> HIDE DEF Passed, Carries
  <2>4. PassedOnce'
      BY <1>0, <2>1 DEF PublishInv, PassedOnce
  <2>5. ASSUME NEW q \in Sources, Carries(q)'
        PROVE  /\ worker'[q].event.key \in rows' /\ worker'[q].event.key \notin told'
               /\ \A i \in 1 .. Len(Passed') : Passed'[i].key # worker'[q].event.key
               /\ \A r \in Sources : Carries(r)' /\ worker'[r].event.key = worker'[q].event.key => r = q
    <3>1. CASE q = s
        BY <1>0, <1>1, <2>1, <2>2, <2>3, <3>1
    <3>2. CASE q # s
        BY <1>0, <1>1, <2>1, <2>2, <2>3, <2>5, <3>2 DEF PublishInv, CarriedOnce
    <3> QED BY <3>1, <3>2
  <2>6. CarriedOnce'
      BY <2>5 DEF CarriedOnce
  <2> QED BY <1>0, <2>1, <2>4, <2>6 DEF PublishInv
<1> QED BY <1>2, <1>3

LEMMA NotifyPublishes ==
    ASSUME TypeInv, PublishInv, NEW s \in Sources, Notify(s)
    PROVE  PublishInv'
<1> SUFFICES ASSUME HasDatabase PROVE PublishInv'
    BY DEF PublishInv, HasDatabase, Notify, storage
<1>0. UNCHANGED <<db, rows, told, out, outbound>> /\ Passed' = Passed /\ bus' = Append(bus, worker[s].event.key)
    BY DEF Notify, storage, history, Passed
<1>1. worker[s].event.key \in Blocks
    BY PipelineAssumption DEF Notify, TypeInv, MessagesInPlace, NodeMessages
<1>2. worker[s].event.key \in rows
    BY <1>1 DEF Notify, PublishInv, CarriedOnce, Carries, Keys
<1>3. \A r \in Sources : Carries(r)' => Carries(r) /\ worker'[r].event.key = worker[r].event.key
    BY QuietCarries
<1> HIDE DEF Passed, Carries
<1>4. PassedOnce' /\ CarriedOnce' /\ told' \subseteq rows'
    BY <1>0, <1>3 DEF PublishInv, PassedOnce, CarriedOnce
<1>5. \A i \in 1 .. Len(bus') : bus'[i] \in rows'
  <2>1. bus \in Seq(Blocks)
      BY DEF TypeInv, TypeOK
  <2>2. /\ Len(bus') = Len(bus) + 1 /\ bus'[Len(bus) + 1] = worker[s].event.key
        /\ \A i \in 1 .. Len(bus) : bus'[i] = bus[i]
      BY <1>0, <1>1, <2>1, AppendProperties
  <2> QED BY <1>0, <1>2, <2>1, <2>2, LenProperties DEF PublishInv
<1> QED BY <1>4, <1>5 DEF PublishInv

LEMMA PassOnPublishes ==
    ASSUME TypeInv, PublishInv, NEW s \in Sources, PassOn(s)
    PROVE  PublishInv'
<1> DEFINE k == worker[s].event.key
<1>0. UNCHANGED <<db, rows, told, bus, out, open>> /\ TypeOK /\ worker[s].at = "sending"
      /\ worker[s].event \in Messages
    BY MessageTypes DEF PassOn, storage, history, TypeInv, MessagesInPlace
<1> SUFFICES ASSUME HasDatabase PROVE PublishInv'
    BY <1>0 DEF PublishInv, HasDatabase
<1>1. \A r \in Sources : Carries(r)' => Carries(r) /\ worker'[r].event.key = worker[r].event.key
    BY QuietCarries
<1>2. CASE ~open \/ k \notin Keys
    BY <1>0, <1>1, <1>2, SendPasses, NothingPublished DEF PassOn
<1>3. CASE open /\ k \in Keys
  <2>1. PassedAnother(worker[s].event) /\ Len(Passed) \in Nat
      BY <1>0, <1>3, SendPasses, PassedType DEF PassOn
  <2>2. /\ k \in rows /\ k \notin told /\ \A i \in 1 .. Len(Passed) : Passed[i].key # k
        /\ \A r \in Sources : Carries(r) /\ worker[r].event.key = k => r = s
      BY <1>0, <1>3 DEF PublishInv, CarriedOnce, Carries
  <2>3. ~Carries(s)'
      BY <1>0, DoneFacts DEF PassOn, Carries
  <2> HIDE DEF Passed, Carries
  <2>4. PassedOnce'
    <3> SUFFICES ASSUME NEW i \in 1 .. Len(Passed'), Passed'[i].key \in Keys
                 PROVE  /\ Passed'[i].key \in rows' /\ Passed'[i].key \notin told'
                        /\ \A j \in 1 .. Len(Passed') : Passed'[j].key = Passed'[i].key => i = j
        BY DEF PassedOnce
    <3>1. CASE i = Len(Passed) + 1
        BY <1>0, <2>1, <2>2, <3>1 DEF PassedAnother
    <3>2. CASE i # Len(Passed) + 1
        BY <1>0, <2>1, <2>2, <3>2 DEF PassedAnother, PublishInv, PassedOnce
    <3> QED BY <3>1, <3>2
  <2>5. CarriedOnce'
    <3> SUFFICES ASSUME NEW q \in Sources, Carries(q)'
                 PROVE  /\ worker'[q].event.key \in rows' /\ worker'[q].event.key \notin told'
                        /\ \A i \in 1 .. Len(Passed') : Passed'[i].key # worker'[q].event.key
                        /\ \A r \in Sources : Carries(r)' /\ worker'[r].event.key = worker'[q].event.key => r = q
        BY DEF CarriedOnce
    <3>1. q # s /\ Carries(q) /\ worker'[q].event.key = worker[q].event.key /\ worker[q].event.key # k
        BY <1>1, <2>2, <2>3
    <3>2. \A i \in 1 .. Len(Passed') : Passed'[i].key # worker'[q].event.key
        BY <2>1, <3>1 DEF PassedAnother, PublishInv, CarriedOnce
    <3> QED BY <1>0, <1>1, <3>1, <3>2 DEF PublishInv, CarriedOnce
  <2> QED BY <1>0, <2>4, <2>5 DEF PublishInv
<1> QED BY <1>2, <1>3

LEMMA FreshPublished ==
    TypeOK /\ Fresh /\ (HasDatabase => told \subseteq rows) => PublishInv
<1> SUFFICES ASSUME TypeOK, Fresh, HasDatabase => told \subseteq rows PROVE PublishInv
    OBVIOUS
<1>1. Len(Passed) = 0 /\ Len(bus) = 0
    BY EmptyPassed DEF Fresh
<1>2. \A s \in Sources : ~Carries(s)
    BY FreshFacts DEF Carries
<1> HIDE DEF Passed, Carries
<1> QED BY <1>1, <1>2 DEF PublishInv, PassedOnce, CarriedOnce

\* The keys of everything that was passed on.
PassedKeys == {Passed[i].key : i \in {j \in 1 .. Len(Passed) : Passed[j].key \in Keys}}

LEMMA PassedKeysFact ==
    ASSUME TypeOK
    PROVE  PassedKeys = KeysOf(out) \cup KeysOf(outbound)
<1> HIDE DEF Passed
<1>0. Len(Passed) = Len(out) + Len(outbound) /\ Len(out) \in Nat /\ Len(outbound) \in Nat
    BY PassedType
<1>1. ASSUME NEW k \in KeysOf(out) PROVE k \in PassedKeys
    BY <1>0, <1>1, PassedType DEF KeysOf, PassedKeys
<1>2. ASSUME NEW k \in KeysOf(outbound) PROVE k \in PassedKeys
  <2>1. PICK i \in 1 .. Len(outbound) : outbound[i].key = k /\ k \in Keys
      BY <1>2 DEF KeysOf
  <2>2. Len(out) + i \in 1 .. Len(Passed) /\ Passed[Len(out) + i].key = k
      BY <1>0, <2>1, PassedType
  <2> QED BY <2>1, <2>2 DEF PassedKeys
<1>3. ASSUME NEW k \in PassedKeys PROVE k \in KeysOf(out) \cup KeysOf(outbound)
  <2>1. PICK i \in 1 .. Len(Passed) : Passed[i].key = k /\ k \in Keys
      BY <1>3 DEF PassedKeys
  <2>2. CASE i <= Len(out)
      BY <1>0, <2>1, <2>2, PassedType DEF KeysOf
  <2>3. CASE i > Len(out)
    <3>1. i - Len(out) \in 1 .. Len(outbound) /\ Len(out) + (i - Len(out)) = i
        BY <1>0, <2>3
    <3>2. outbound[i - Len(out)].key = k
        BY <2>1, <3>1, PassedType
    <3> QED BY <2>1, <3>1, <3>2 DEF KeysOf
  <2> QED BY <1>0, <2>2, <2>3
<1> QED BY <1>1, <1>2, <1>3

LEMMA PublishInvStep ==
    StoreInv /\ PublishInv /\ [Next]_vars => PublishInv'
<1> SUFFICES ASSUME StoreInv, PublishInv, [Next]_vars PROVE PublishInv'
    OBVIOUS
<1>0. TypeInv /\ TypeOK /\ TypeOK'
    BY TypeInvStep DEF StoreInv, TypeInv
<1>1. ASSUME NEW s \in Sources,
             \/ Listener(s) \/ Forward(s) \/ Finish(s) \/ Take(s) \/ StoreVersion(s)
             \/ InsertEventLog(s) \/ InsertEntity(s) \/ SaveFails(s) \/ Exit
      PROVE  PublishInv'
  <2>1. UNCHANGED <<db, told>> /\ Passed' = Passed
      BY <1>1, QuietPassed DEF Save
  <2>2. UNCHANGED bus /\ rows \subseteq rows'
      BY <1>1 DEF Listener, Connect, Deliver, Disconnect, GiveUp, Send, Forward, Finish, Take, StoreVersion,
                  InsertEventLog, InsertEntity, SaveFails, Exit, storage
  <2>3. CASE HasDatabase
    <3>1. \A r \in Sources : Carries(r)' => Carries(r) /\ worker'[r].event.key = worker[r].event.key
        BY <1>0, <1>1, <2>3, QuietCarries
    <3> QED BY <1>0, <2>1, <2>2, <3>1, NothingPublished
  <2>4. CASE ~HasDatabase
      BY <2>1, <2>4 DEF PublishInv, HasDatabase
  <2> QED BY <2>3, <2>4
<1>2. ASSUME NEW s \in Sources, Announce(s)
      PROVE  PublishInv'
  <2>1. worker[s].event \in Messages /\ worker[s].event.key = NoKey /\ NoKey \notin Keys
      BY <1>0, <1>2, MessageTypes, PipelineAssumption DEF Announce, TypeInv, MessagesInPlace, NodeMessages, Keys
  <2>2. UNCHANGED <<db, told, bus, rows>>
      BY <1>2 DEF Announce, storage, history
  <2>3. Passed' = Passed \/ PassedAnother(worker[s].event)
      BY <1>0, <1>2, <2>1, SendPasses DEF Announce
  <2>4. \A r \in Sources : Carries(r)' => Carries(r) /\ worker'[r].event.key = worker[r].event.key
      BY <1>0, <1>2, DoneFacts DEF Announce, Carries
  <2> QED BY <1>0, <2>1, <2>2, <2>3, <2>4, NothingPublished
<1>3. ASSUME NEW s \in Sources, Commit(s) \/ Notify(s) \/ PassOn(s)
      PROVE  PublishInv'
    BY <1>0, <1>3, CommitPublishes, NotifyPublishes, PassOnPublishes
<1>4. CASE Broadcast \/ StartFails
  <2>1. UNCHANGED <<db, told, bus, rows, worker>>
      BY <1>4 DEF Broadcast, StartFails, storage, history
  <2>2. Passed' = Passed \/ Len(Passed') = 0
    <3>1. CASE Broadcast
        BY <1>0, <3>1, BroadcastMoves
    <3>2. CASE StartFails
      <4>1. (out = <<>> /\ outbound = <<>>)'
          BY <3>2 DEF StartFails
      <4>2. (Passed = <<>> /\ Len(Passed) = 0)'
          BY <1>0, <4>1, EmptyPassed, PTL
      <4> QED BY <4>2
    <3> QED BY <1>4, <3>1, <3>2
  <2> QED BY <1>0, <2>1, <2>2, NothingPublished DEF Carries
<1>5. CASE SendShutdown
  <2> DEFINE m == [kind |-> "SidecarShutdown", key |-> NoKey, ver |-> None, source |-> None]
  <2>1. m \in Messages /\ m.key \notin Keys
      BY PipelineAssumption DEF Messages, Kinds, None, Keys
  <2>2. UNCHANGED <<db, told, bus, rows, worker, out>> /\ SendOutbound(m)
      BY <1>5 DEF SendShutdown, storage, history
  <2> HIDE DEF m
  <2>3. Passed' = Passed \/ PassedAnother(m)
      BY <1>0, <2>1, <2>2, SendPasses
  <2> QED BY <1>0, <2>1, <2>2, <2>3, NothingPublished DEF Carries
<1>6. CASE Crash
  <2>1. Fresh'
      BY <1>6 DEF Crash, Fresh, Volatile
  <2>2. (HasDatabase => told \subseteq rows)'
    <3>1. HasDatabase => PassedKeys \subseteq rows
        BY DEF PublishInv, PassedOnce, PassedKeys
    <3>2. HasDatabase => KeysOf(out) \subseteq rows
        BY <1>0, <3>1, PassedKeysFact
    <3> QED BY <1>6, <3>2 DEF Crash, PublishInv, HasDatabase, storage
  <2> QED BY <1>0, <2>1, <2>2, FreshPublished, PTL
<1>7. CASE UNCHANGED vars
    BY <1>7 DEF vars, PublishInv, PassedOnce, CarriedOnce, Carries, Passed, HasDatabase, storage, history
<1>8. CASE Exit
  <2>1. UNCHANGED <<db, told, bus, rows, worker>> /\ Passed' = Passed
      BY <1>8 DEF Exit, storage, history, Passed
  <2> QED BY <1>0, <2>1, NothingPublished DEF Carries
<1> QED BY <1>1, <1>2, <1>3, <1>4, <1>5, <1>6, <1>7, <1>8 DEF Next, Work, Save

LEMMA PublishInvHolds ==
    Spec => []PublishInv
<1>1. Init => PublishInv
  <2>1. Init => Fresh /\ told \subseteq rows
      BY DEF Init, Fresh
  <2>2. Init => TypeOK
      BY TypeInvInit DEF TypeInv
  <2> QED BY <2>1, <2>2, FreshPublished
<1> QED BY <1>1, StoreInvHolds, PublishInvStep, PTL DEF Spec

\* With a database no event is broadcast twice, whichever nodes report it and
\* however often, nor again after a crash: for any number of nodes and workers.
THEOREM NeverPublishedTwice ==
    Spec => []PublishedOnce
<1>1. TypeInv /\ PublishInv => PublishedOnce
  <2> SUFFICES ASSUME TypeInv, PublishInv, HasDatabase, NEW i \in 1 .. Len(out), NEW j \in 1 .. Len(out),
                      out[i].key \in Keys
               PROVE  out[i].key \notin told /\ (out[i].key = out[j].key => i = j)
      BY DEF PublishedOnce
  <2>1. i \in 1 .. Len(Passed) /\ Passed[i] = out[i] /\ j \in 1 .. Len(Passed) /\ Passed[j] = out[j]
      BY PassedType DEF TypeInv
  <2> QED BY <2>1 DEF PublishInv, PassedOnce
<1> QED BY <1>1, TypeInvHolds, PublishInvHolds, PTL

\* With a database everything that reaches broadcast() or the event bus was stored
\* before, in this life of the process or an earlier one.
THEOREM StoredBeforePublished ==
    Spec => []PublishedIsStored
<1>1. TypeInv /\ PublishInv => PublishedIsStored
  <2> SUFFICES ASSUME TypeInv, PublishInv, HasDatabase
               PROVE  /\ KeysOf(out) \cup KeysOf(outbound) \cup told \subseteq rows
                      /\ \A i \in 1 .. Len(bus) : bus[i] \in rows
      BY DEF PublishedIsStored
  <2>1. PassedKeys \subseteq rows
      BY DEF PublishInv, PassedOnce, PassedKeys
  <2> QED BY <2>1, PassedKeysFact DEF PublishInv, TypeInv
<1> QED BY <1>1, TypeInvHolds, PublishInvHolds, PTL

\* An event with key k was passed on, is carried by a worker, or its commit was
\* reported as failed.
Accounted(k) ==
    \/ \E i \in 1 .. Len(Passed) : Passed[i].key = k
    \/ \E s \in Sources : Carries(s) /\ worker[s].event.key = k
    \/ k \in unsure

\* What is stored is accounted for in the first life of the process.
AccountInv ==
    /\ crashes \in Nat
    /\ HasDatabase /\ crashes = 0 /\ open => \A k \in rows \cap Keys : Accounted(k)

\* A step in which no worker drops an event it carries and nothing is stored.
LEMMA NothingStored ==
    ASSUME TypeOK, AccountInv, UNCHANGED <<db, crashes>>, open' => open, rows' \cap Keys \subseteq rows \cup unsure',
           unsure \subseteq unsure',
           Passed' = Passed \/ \E m \in Messages : PassedAnother(m),
           \A r \in Sources : Carries(r) =>
               \/ Carries(r)' /\ worker'[r].event.key = worker[r].event.key
               \/ PassedAnother(worker[r].event)
    PROVE  AccountInv'
<1> SUFFICES ASSUME HasDatabase, crashes = 0, open, NEW k \in rows' \cap Keys PROVE Accounted(k)'
    BY DEF AccountInv, HasDatabase
<1>0. Len(Passed) \in Nat
    BY PassedType
<1> HIDE DEF Passed, Carries
<1>1. CASE k \in unsure'
    BY <1>1 DEF Accounted
<1>2. CASE k \notin unsure'
  <2>1. Accounted(k) /\ k \notin unsure
      BY <1>2 DEF AccountInv
  <2>2. CASE \E i \in 1 .. Len(Passed) : Passed[i].key = k
    <3>1. PICK i \in 1 .. Len(Passed) : Passed[i].key = k
        BY <2>2
    <3>2. i \in 1 .. Len(Passed') /\ Passed'[i] = Passed[i]
        BY <1>0 DEF PassedAnother
    <3> QED BY <3>1, <3>2 DEF Accounted
  <2>3. CASE \E s \in Sources : Carries(s) /\ worker[s].event.key = k
    <3>1. PICK s \in Sources : Carries(s) /\ worker[s].event.key = k
        BY <2>3
    <3>2. CASE Carries(s)' /\ worker'[s].event.key = worker[s].event.key
        BY <3>1, <3>2 DEF Accounted
    <3>3. CASE PassedAnother(worker[s].event)
      <4>1. Len(Passed) + 1 \in 1 .. Len(Passed') /\ Passed'[Len(Passed) + 1].key = k
          BY <1>0, <3>1, <3>3 DEF PassedAnother
      <4> QED BY <4>1 DEF Accounted
    <3> QED BY <3>1, <3>2, <3>3
  <2> QED BY <2>1, <2>2, <2>3 DEF Accounted
<1> QED BY <1>1, <1>2

\* No worker drops an event it carries, unless it passes it on.
LEMMA CarriesOn ==
    ASSUME TypeInv, open, NEW s \in Sources,
           Listener(s) \/ Forward(s) \/ Finish(s) \/ Take(s) \/ Work(s) \/ SaveFails(s)
    PROVE  \A r \in Sources : Carries(r) =>
               \/ Carries(r)' /\ worker'[r].event.key = worker[r].event.key
               \/ PassedAnother(worker[r].event)
<1>0. TypeOK
    BY DEF TypeInv
<1>1. CASE Listener(s) \/ Forward(s) \/ Finish(s)
    BY <1>1 DEF Listener, Connect, Deliver, Disconnect, GiveUp, Send, Forward, Finish, Carries
<1>2. CASE worker[s].at \notin {"notifying", "sending"} /\ \A r \in Sources \ {s} : worker'[r] = worker[r]
    BY <1>2 DEF Carries
<1>3. CASE Take(s)
    BY <1>2, <1>3 DEF Take, TypeInv, TypeOK
<1>4. CASE StoreVersion(s) \/ Announce(s) \/ SaveFails(s)
    BY <1>0, <1>2, <1>4, GotoFacts, DoneFacts DEF StoreVersion, Announce, SaveFails, Steps
<1>5. CASE InsertEventLog(s) \/ InsertEntity(s)
    BY <1>0, <1>2, <1>5, GotoFacts, DoneFacts DEF InsertEventLog, InsertEntity, Duplicate, Steps
<1>6. CASE Commit(s)
    BY <1>0, <1>2, <1>6, GotoFacts DEF Commit, AfterSave, Steps
<1>7. CASE Notify(s)
    BY <1>0, <1>7, GotoFacts DEF Notify, Carries, Steps
<1>8. CASE PassOn(s)
  <2>1. worker[s].event \in Messages
      BY <1>8, MessageTypes DEF PassOn, TypeInv, MessagesInPlace
  <2>2. PassedAnother(worker[s].event)
      BY <1>0, <1>8, <2>1, SendPasses DEF PassOn
  <2> QED BY <1>0, <1>8, <2>2, DoneFacts DEF PassOn, Carries
<1> QED BY <1>1, <1>3, <1>4, <1>5, <1>6, <1>7, <1>8 DEF Work, Save

LEMMA CommitAccounts ==
    ASSUME StoreInv, AccountInv, NEW s \in Sources, Commit(s)
    PROVE  AccountInv'
<1>k. PICK k : k = worker[s].event.key
    OBVIOUS
<1>0. TypeInv /\ TypeOK /\ Running /\ worker[s].at = "committing"
      /\ UNCHANGED <<db, unsure, crashes, open>> /\ Passed' = Passed /\ rows' = rows \cup tx[s].rows
    BY DEF StoreInv, TypeInv, Commit, history, bounds, Passed
<1>1. CASE ~open
    BY <1>0, <1>1 DEF AccountInv
<1>2. CASE open
  <2>1. \A r \in Sources : Carries(r) =>
            \/ Carries(r)' /\ worker'[r].event.key = worker[r].event.key
            \/ PassedAnother(worker[r].event)
      BY <1>0, <1>2, CarriesOn DEF Work, Save
  <2>2. CASE k \notin Keys
    <3>1. rows' \cap Keys \subseteq rows
        BY <1>0, <1>k, <2>2, CommittedRows
    <3> QED BY <1>0, <2>1, <3>1, NothingStored
  <2>3. CASE k \in Keys
    <3>1. rows' = rows \cup {k}
        BY <1>0, <1>k, <2>3, CommittedRows
    <3>2. Carries(s)' /\ worker'[s].event.key = k /\ \A r \in Sources \ {s} : worker'[r] = worker[r]
        BY <1>0, <1>k, <2>3, GotoFacts DEF Commit, AfterSave, Steps, Carries
    <3>3. ASSUME NEW q \in rows, q \in Keys, HasDatabase, crashes = 0 PROVE Accounted(q)'
      <4>1. Accounted(q)
          BY <1>2, <3>3 DEF AccountInv
      <4>2. ~Carries(s) /\ \A r \in Sources \ {s} : Carries(r) => Carries(r)'
          BY <1>0, <3>2 DEF Carries
      <4> HIDE DEF Passed, Carries
      <4> QED BY <1>0, <3>2, <4>1, <4>2 DEF Accounted
    <3>4. Accounted(k)'
        BY <3>2 DEF Accounted
    <3> QED BY <1>0, <3>1, <3>3, <3>4 DEF AccountInv, HasDatabase
  <2> QED BY <2>2, <2>3
<1> QED BY <1>1, <1>2 DEF TypeOK

LEMMA AccountInvStep ==
    StoreInv /\ AccountInv /\ [Next]_vars => AccountInv'
<1> SUFFICES ASSUME StoreInv, AccountInv, [Next]_vars PROVE AccountInv'
    OBVIOUS
<1>0. TypeInv /\ TypeOK /\ crashes \in Nat
    BY DEF StoreInv, TypeInv, AccountInv
<1>1. CASE Crash
    BY <1>0, <1>1 DEF Crash, AccountInv
<1>2. CASE StartFails
    BY <1>0, <1>2 DEF StartFails, AccountInv, bounds
<1>3. CASE ~open /\ UNCHANGED <<open, crashes>>
    BY <1>0, <1>3 DEF AccountInv
<1>4. CASE open
  <2>1. ASSUME NEW s \in Sources,
               \/ Listener(s) \/ Forward(s) \/ Finish(s) \/ Take(s) \/ StoreVersion(s)
               \/ InsertEventLog(s) \/ InsertEntity(s) \/ SaveFails(s) \/ Notify(s)
        PROVE  AccountInv'
    <3>1. UNCHANGED <<db, open, crashes>> /\ Passed' = Passed
        BY <2>1, QuietPassed DEF Save
    <3>2. rows' \subseteq rows \cup unsure' /\ unsure \subseteq unsure'
        BY <2>1 DEF Listener, Connect, Deliver, Disconnect, GiveUp, Send, Forward, Finish, Take, StoreVersion,
                    InsertEventLog, InsertEntity, SaveFails, Notify, storage, history
    <3>3. \A r \in Sources : Carries(r) =>
              \/ Carries(r)' /\ worker'[r].event.key = worker[r].event.key
              \/ PassedAnother(worker[r].event)
        BY <1>0, <1>4, <2>1, CarriesOn DEF Work, Save
    <3> QED BY <1>0, <3>1, <3>2, <3>3, NothingStored
  <2>2. ASSUME NEW s \in Sources, Announce(s) \/ PassOn(s)
        PROVE  AccountInv'
    <3>1. UNCHANGED <<db, open, crashes, rows, unsure, out>>
        BY <2>2 DEF Announce, PassOn, storage, history, bounds
    <3>2. worker[s].event \in Messages
        BY <1>0, <2>2, MessageTypes DEF Announce, PassOn, TypeInv, MessagesInPlace
    <3>3. PassedAnother(worker[s].event)
        BY <1>0, <1>4, <2>2, <3>1, <3>2, SendPasses DEF Announce, PassOn
    <3>4. \A r \in Sources : Carries(r) =>
              \/ Carries(r)' /\ worker'[r].event.key = worker[r].event.key
              \/ PassedAnother(worker[r].event)
        BY <1>0, <1>4, <2>2, CarriesOn DEF Work
    <3> QED BY <1>0, <3>1, <3>2, <3>3, <3>4, NothingStored
  <2>3. ASSUME NEW s \in Sources, Commit(s)
        PROVE  AccountInv'
      BY <2>3, CommitAccounts
  <2>4. CASE Broadcast \/ Exit \/ UNCHANGED vars
    <3>1. UNCHANGED <<db, open, crashes, rows, unsure, worker>>
        BY <2>4 DEF Broadcast, Exit, vars, storage, history, bounds
    <3>2. Passed' = Passed
        BY <1>0, <2>4, BroadcastMoves DEF Exit, vars, Passed
    <3> QED BY <1>0, <3>1, <3>2, NothingStored DEF Carries
  <2>5. CASE SendShutdown
    <3> DEFINE m == [kind |-> "SidecarShutdown", key |-> NoKey, ver |-> None, source |-> None]
    <3>1. m \in Messages
        BY DEF Messages, Kinds, None
    <3>2. UNCHANGED <<db, open, crashes, rows, unsure, worker, out>> /\ SendOutbound(m)
        BY <2>5 DEF SendShutdown, storage, history, bounds
    <3> HIDE DEF m
    <3>3. PassedAnother(m)
        BY <1>0, <1>4, <3>1, <3>2, SendPasses
    <3> QED BY <1>0, <3>1, <3>2, <3>3, NothingStored DEF Carries
  <2> QED BY <1>1, <1>2, <2>1, <2>2, <2>3, <2>4, <2>5 DEF Next, Work, Save
<1>5. Crash \/ StartFails \/ UNCHANGED <<open, crashes>>
    BY DEF Next, Work, Save, Listener, Connect, Deliver, Disconnect, GiveUp, Send, Forward, Finish, Take,
           StoreVersion, Announce, InsertEventLog, InsertEntity, Commit, SaveFails, Notify, PassOn, Broadcast,
           SendShutdown, Exit, vars, bounds
<1> QED BY <1>1, <1>2, <1>3, <1>4, <1>5

\* What is in the database was passed on or is being passed on, unless the process
\* crashed in between or the commit was reported as failed: no event is stored and
\* then lost by the way the workers interleave.
THEOREM NothingStoredIsLost ==
    Spec => []StoredIsPublished
<1>1. Init => AccountInv
    BY DEF Init, AccountInv
<1>2. Spec => []AccountInv
    BY <1>1, StoreInvHolds, AccountInvStep, PTL DEF Spec
<1>3. TypeInv /\ AccountInv => StoredIsPublished
  <2> SUFFICES ASSUME TypeInv, AccountInv, HasDatabase, crashes = 0, open, NEW k \in rows \cap Keys
               PROVE  k \in PassedKeys \cup InFlight \cup unsure
      BY PassedKeysFact DEF StoredIsPublished, TypeInv
  <2>1. Accounted(k)
      BY DEF AccountInv
  <2>2. (\E i \in 1 .. Len(Passed) : Passed[i].key = k) => k \in PassedKeys
      BY DEF PassedKeys
  <2>3. (\E s \in Sources : Carries(s) /\ worker[s].event.key = k) => k \in InFlight
      BY DEF InFlight, Carries
  <2> QED BY <2>1, <2>2, <2>3 DEF Accounted
<1> QED BY <1>2, <1>3, TypeInvHolds, PTL
-----------------------------------------------------------------------------
\* The end of the process.

LEMMA WorkerPasses ==
    ASSUME TypeInv, NEW s \in Sources, Announce(s) \/ PassOn(s)
    PROVE  /\ worker[s].event \in NodeMessages(s) /\ worker[s].event \in Messages
           /\ worker[s].event.kind # "SidecarShutdown"
           /\ open => PassedAnother(worker[s].event)
           /\ ~open => Passed' = Passed
           /\ UNCHANGED <<db, phase, open, consumer, ended, inbound, queue>>
           /\ Done(s) /\ Running /\ worker[s].at # "idle"
<1>1. worker[s].event \in NodeMessages(s) /\ worker[s].event \in Messages /\ TypeOK
    BY MessageTypes DEF Announce, PassOn, TypeInv, MessagesInPlace
<1>2. worker[s].event.kind # "SidecarShutdown"
    BY <1>1 DEF NodeMessages
<1>3. SendOutbound(worker[s].event) /\ UNCHANGED <<db, out, phase, open, consumer, ended, inbound, queue>>
      /\ Done(s) /\ Running /\ worker[s].at # "idle"
    BY DEF Announce, PassOn, storage
<1> QED BY <1>1, <1>2, <1>3, SendPasses

EndMessage == [kind |-> "SidecarShutdown", key |-> NoKey, ver |-> None, source |-> None]

LEMMA EndPasses ==
    ASSUME TypeInv, SendShutdown
    PROVE  /\ EndMessage \in Messages /\ EndMessage.kind = "SidecarShutdown"
           /\ open => PassedAnother(EndMessage)
           /\ ~open => Passed' = Passed
<1>1. EndMessage \in Messages /\ EndMessage.kind = "SidecarShutdown"
    BY DEF EndMessage, Messages, Kinds, None
<1>2. SendOutbound(EndMessage) /\ UNCHANGED out
    BY DEF SendShutdown, EndMessage
<1> QED BY <1>1, <1>2, SendPasses DEF TypeInv

LEMMA ClosedPasses ==
    TypeInv /\ StartFails => Passed' = <<>> /\ Len(Passed') = 0
<1> SUFFICES ASSUME TypeInv, StartFails PROVE Passed' = <<>> /\ Len(Passed') = 0
    OBVIOUS
<1>1. (TypeOK /\ out = <<>> /\ outbound = <<>>)'
    BY ProcessKeepsTypes DEF StartFails, TypeInv
<1>2. (Passed = <<>> /\ Len(Passed) = 0)'
    BY <1>1, EmptyPassed, PTL
<1> QED BY <1>2

LEMMA FreshPassed ==
    TypeInv /\ Crash => (Fresh /\ Passed = <<>> /\ Len(Passed) = 0)'
<1>1. TypeInv /\ Crash => Fresh'
    BY DEF Crash, Fresh, Volatile
<1>2. Fresh => out = <<>> /\ outbound = <<>>
    BY DEF Fresh
<1>3. TypeInv => TypeOK
    BY DEF TypeInv
<1> QED BY <1>1, <1>2, <1>3, CrashKeepsTypes, EmptyPassed, PTL

LEMMA StaysEnded ==
    ASSUME TypeInv, Next, ~Crash
    PROVE  /\ UNCHANGED db
           /\ \A r \in Sources : (consumer'[r] => consumer[r]) /\ (ended[r] => ended'[r])
           /\ phase' = "running" => phase = "running"
           /\ phase' = "stopping" => phase = "stopping" \/ SendShutdown
<1>1. ASSUME NEW s \in Sources, Finish(s)
      PROVE  UNCHANGED <<db, ended, phase>> /\ \A r \in Sources : consumer'[r] => consumer[r]
    BY <1>1 DEF Finish, TypeInv, TypeOK, storage
<1>2. ASSUME NEW s \in Sources, GiveUp(s)
      PROVE  UNCHANGED <<db, consumer, phase>> /\ \A r \in Sources : ended[r] => ended'[r]
    BY <1>2 DEF GiveUp, TypeInv, TypeOK, storage
<1>3. CASE UNCHANGED <<db, consumer, ended>>
  <2>1. \/ UNCHANGED phase
        \/ phase = "running" /\ SendShutdown
        \/ phase' = "exited"
      BY DEF Next, Work, Save, Listener, Connect, Deliver, Disconnect, GiveUp, Send, Forward, Finish, Take,
             StoreVersion, Announce, InsertEventLog, InsertEntity, Commit, SaveFails, Notify, PassOn, Broadcast,
             StartFails, SendShutdown, Exit
  <2> QED BY <1>3, <2>1
<1>4. UNCHANGED <<db, consumer, ended>> \/ (\E s \in Sources : Finish(s) \/ GiveUp(s))
    BY DEF Next, Work, Save, Listener, Connect, Deliver, Disconnect, Send, Forward, Take, storage,
           StoreVersion, Announce, InsertEventLog, InsertEntity, Commit, SaveFails, Notify, PassOn, Broadcast,
           StartFails, SendShutdown, Exit
<1> QED BY <1>1, <1>2, <1>3, <1>4

\* A consumer that has ended is given nothing to do, and one that is running hands
\* nothing to a queue.
LEMMA LeavesNothing ==
    ASSUME TypeInv, EndInv, Next, ~Crash, ~MultiThreaded
    PROVE  \A r \in Sources : LeftNothing(r)'
<1>0. TypeOK /\ UNCHANGED db /\ \A r \in Sources : LeftNothing(r)
    BY StaysEnded DEF TypeInv, EndInv
<1>1. ASSUME NEW s \in Sources, NEW m \in NodeMessages(s), Send(s, m)
      PROVE  \A r \in Sources : LeftNothing(r)'
  <2>1. consumer[s] /\ UNCHANGED <<queue, consumer, ended, worker>>
      BY <1>0, <1>1 DEF Send, LeftNothing
  <2>2. \A r \in Sources \ {s} : inbound'[r] = inbound[r]
      BY <1>0, <1>1 DEF Send, TypeOK
  <2> QED BY <1>0, <2>1, <2>2 DEF LeftNothing
<1>2. ASSUME NEW s \in Sources, Listener(s) PROVE \A r \in Sources : LeftNothing(r)'
  <2>1. CASE \E m \in NodeMessages(s) : Send(s, m)
      BY <1>1, <2>1
  <2>2. CASE Disconnect(s)
      BY <1>0, <2>2 DEF Disconnect, LeftNothing
  <2>3. CASE GiveUp(s)
    <3>1. UNCHANGED <<queue, consumer, inbound, worker>> /\ \A r \in Sources : ended[r] => ended'[r]
        BY <1>0, <2>3 DEF GiveUp, TypeOK
    <3> QED BY <1>0, <3>1 DEF LeftNothing
  <2>4. ASSUME NEW v \in Versions, Connect(s, v) PROVE \E m \in NodeMessages(s) : Send(s, m)
      BY <2>4, MadeByListener DEF Connect
  <2>5. ASSUME Deliver(s) PROVE \E m \in NodeMessages(s) : Send(s, m)
    <3>1. link[s] \in Versions
        BY <1>0, <2>5 DEF Deliver, TypeOK
    <3> QED BY <2>5, <3>1, MadeByListener DEF Deliver
  <2> QED BY <1>2, <2>1, <2>2, <2>3, <2>4, <2>5 DEF Listener
<1>3. ASSUME NEW s \in Sources, Finish(s) PROVE \A r \in Sources : LeftNothing(r)'
  <2>1. /\ worker[s].at = "idle" /\ ended[s] /\ inbound[s] = <<>> /\ UNCHANGED <<queue, ended, inbound, worker>>
        /\ \A r \in Sources \ {s} : consumer'[r] = consumer[r]
      BY <1>0, <1>3 DEF Finish, TypeOK
  <2> QED BY <1>0, <2>1 DEF LeftNothing
<1>4. ASSUME NEW s \in Sources, Take(s) PROVE \A r \in Sources : LeftNothing(r)'
  <2>1. inbound[s] # <<>> /\ UNCHANGED <<queue, consumer, ended>>
      BY <1>4 DEF Take, Waiting
  <2>2. \A r \in Sources \ {s} : inbound'[r] = inbound[r] /\ worker'[r] = worker[r]
      BY <1>0, <1>4 DEF Take, TypeOK
  <2> QED BY <1>0, <2>1, <2>2 DEF LeftNothing
<1>5. ASSUME NEW s \in Sources, Work(s) \/ SaveFails(s) PROVE \A r \in Sources : LeftNothing(r)'
  <2>1. worker[s].at # "idle" /\ UNCHANGED <<queue, consumer, ended, inbound>>
      BY <1>5 DEF Work, Save, StoreVersion, Announce, InsertEventLog, InsertEntity, Commit, SaveFails, Notify, PassOn
  <2>2. CASE Done(s) \/ (\E step \in Steps : Goto(s, step))
    <3>1. \A r \in Sources \ {s} : worker'[r] = worker[r]
        BY <1>0, <2>2, DoneFacts, GotoFacts
    <3> QED BY <1>0, <2>1, <3>1 DEF LeftNothing
  <2>3. Done(s) \/ (\E step \in Steps : Goto(s, step))
      BY <1>5 DEF Work, Save, StoreVersion, Announce, InsertEventLog, InsertEntity, Duplicate, Commit, SaveFails,
                  Notify, PassOn, AfterSave, Steps
  <2> QED BY <2>2, <2>3
<1>6. CASE Broadcast \/ StartFails \/ SendShutdown \/ Exit
    BY <1>0, <1>6 DEF Broadcast, StartFails, SendShutdown, Exit, LeftNothing
<1>7. ASSUME NEW s \in Sources, Forward(s) PROVE FALSE
    BY <1>7 DEF Forward
<1> QED BY <1>2, <1>3, <1>4, <1>5, <1>6, <1>7 DEF Next

LEMMA EndInvStep ==
    TypeInv /\ EndInv /\ [Next]_vars => EndInv'
<1> SUFFICES ASSUME TypeInv, EndInv, [Next]_vars PROVE EndInv'
    OBVIOUS
<1>0. TypeOK /\ Len(Passed) \in Nat
    BY PassedType DEF TypeInv
<1>1. CASE UNCHANGED vars
    BY <1>1 DEF vars, EndInv, NoEndYet, AllEnded, LeftNothing, EndIsLast, MultiThreaded, Passed, storage
<1>2. CASE Crash
  <2>1. phase' = "running" /\ Len(Passed') = 0 /\ Fresh'
      BY <1>2, FreshPassed DEF Crash
  <2>2. \A s \in Sources : queue'[s] = <<>> /\ consumer'[s]
      BY <1>2 DEF Crash, Volatile
  <2> HIDE DEF Passed
  <2> QED BY <2>1, <2>2 DEF EndInv, NoEndYet, AllEnded, LeftNothing, EndIsLast
<1>3. CASE Next /\ ~Crash
  <2>1. UNCHANGED db
      BY <1>3, StaysEnded
  <2>2. AllEnded'
      BY <1>3, StaysEnded DEF EndInv, AllEnded, SendShutdown
  <2>3. ~MultiThreaded => \A r \in Sources : LeftNothing(r)'
      BY <1>3, LeavesNothing
  <2>4. NoEndYet' /\ (~MultiThreaded => EndIsLast')
    <3>1. CASE Passed' = Passed
      <4>1. phase' = "running" => phase = "running"
          BY <1>3, StaysEnded
      <4> HIDE DEF Passed
      <4> QED BY <3>1, <4>1 DEF EndInv, NoEndYet, EndIsLast
    <3>2. CASE StartFails
      <4>1. Len(Passed') = 0
          BY <3>2, ClosedPasses
      <4> HIDE DEF Passed
      <4> QED BY <4>1 DEF NoEndYet, EndIsLast
    <3>3. CASE open /\ SendShutdown
      <4>1. phase = "running" /\ phase' = "stopping" /\ PassedAnother(EndMessage)
          BY <3>3, EndPasses DEF SendShutdown
      <4> HIDE DEF Passed
      <4> QED BY <1>0, <4>1 DEF EndInv, NoEndYet, EndIsLast, PassedAnother
    <3>4. ASSUME NEW s \in Sources, Announce(s) \/ PassOn(s), open PROVE NoEndYet' /\ (~MultiThreaded => EndIsLast')
      <4>1. /\ PassedAnother(worker[s].event) /\ worker[s].event.kind # "SidecarShutdown" /\ UNCHANGED phase
            /\ Running /\ worker[s].at # "idle"
          BY <3>4, WorkerPasses
      <4>2. ~MultiThreaded => phase = "running"
          BY <1>0, <4>1 DEF EndInv, AllEnded, LeftNothing, Running, TypeOK
      <4> HIDE DEF Passed
      <4> QED BY <1>0, <4>1, <4>2 DEF EndInv, NoEndYet, EndIsLast, PassedAnother
    <3>5. ASSUME NEW s \in Sources, Announce(s) \/ PassOn(s), ~open PROVE Passed' = Passed
        BY <3>5, WorkerPasses
    <3>6. CASE ~open /\ SendShutdown
        BY <3>1, <3>6, EndPasses
    <3>7. CASE Broadcast \/ Exit
        BY <1>0, <3>1, <3>7, BroadcastMoves DEF Exit, Passed
    <3>8. ASSUME NEW s \in Sources,
                 \/ Listener(s) \/ Forward(s) \/ Finish(s) \/ Take(s) \/ StoreVersion(s) \/ Save(s) \/ SaveFails(s)
          PROVE  Passed' = Passed
        BY <3>8, QuietPassed
    <3> QED BY <1>3, <3>1, <3>2, <3>3, <3>4, <3>5, <3>6, <3>7, <3>8 DEF Next, Work
  <2> QED BY <2>1, <2>2, <2>3, <2>4 DEF EndInv, MultiThreaded
<1> QED BY <1>1, <1>2, <1>3

LEMMA EndInvHolds ==
    Spec => []EndInv
<1>1. Init => EndInv
  <2> SUFFICES ASSUME Init PROVE EndInv
      OBVIOUS
  <2>1. Len(Passed) = 0
      BY TypeInvInit, EmptyPassed DEF Init, TypeInv
  <2>2. phase = "running" /\ \A s \in Sources : queue[s] = <<>> /\ consumer[s]
      BY DEF Init, Volatile
  <2> HIDE DEF Passed
  <2> QED BY <2>1, <2>2 DEF EndInv, NoEndYet, AllEnded, LeftNothing, EndIsLast
<1> QED BY <1>1, TypeInvHolds, EndInvStep, PTL DEF Spec

\* What was passed on of node s after the sidecar's own Shutdown.
LaterThanEnd(s) ==
    {i \in 1 .. Len(Passed) : Passed[i].source = s /\ \E j \in 1 .. i - 1 : Passed[j].kind = "SidecarShutdown"}

\* What the worker of node s still has to handle.
LeftOver(s) == IF worker[s].at = "idle" THEN Len(queue[s]) ELSE Len(queue[s]) + 1

FollowBound(s) ==
    /\ IsFiniteSet(LaterThanEnd(s))
    /\ Cardinality(LaterThanEnd(s)) + LeftOver(s) <= QueueSize + 1

\* From the end of the consumers on, a message follows only for one that was left.
FollowInv == phase # "running" => \A s \in Sources : FollowBound(s)

LEMMA LeftOverType ==
    ASSUME TypeOK, NEW s \in Sources
    PROVE  LeftOver(s) \in Nat /\ LeftOver(s) <= QueueSize + 1
<1>1. Len(queue[s]) \in Nat /\ Len(queue[s]) <= QueueSize /\ QueueSize \in Nat
    BY PipelineAssumption DEF TypeOK
<1> QED BY <1>1 DEF LeftOver

\* Where nothing has followed the Shutdown, the bound is that of the queue.
QuietBound == \A s \in Sources : LaterThanEnd(s) = {} => FollowBound(s)

LEMMA NothingLater ==
    TypeOK => QuietBound
<1> SUFFICES ASSUME TypeOK, NEW s \in Sources, LaterThanEnd(s) = {} PROVE FollowBound(s)
    BY DEF QuietBound
<1>1. IsFiniteSet({}) /\ Cardinality({}) = 0
    BY FS_EmptySet
<1>2. LeftOver(s) \in Nat /\ LeftOver(s) <= QueueSize + 1 /\ QueueSize \in Nat
    BY LeftOverType, PipelineAssumption
<1> QED BY <1>1, <1>2 DEF FollowBound

\* A step that adds at most one follower for a message that was left keeps the bound.
LEMMA BoundKept ==
    ASSUME NEW S, IsFiniteSet(S), NEW T, NEW x, T \subseteq S \cup {x}, NEW a \in Nat, NEW b \in Nat,
           Cardinality(S) + a <= QueueSize + 1, b <= a, T \subseteq S \/ b < a
    PROVE  IsFiniteSet(T) /\ Cardinality(T) + b <= QueueSize + 1
<1>0. QueueSize \in Nat /\ Cardinality(S) \in Nat
    BY FS_CardinalityType, PipelineAssumption
<1>1. CASE T \subseteq S
  <2>1. IsFiniteSet(T) /\ Cardinality(T) <= Cardinality(S)
      BY <1>1, FS_Subset
  <2>2. Cardinality(T) \in Nat
      BY <2>1, FS_CardinalityType
  <2> QED BY <1>0, <2>1, <2>2
<1>2. CASE b < a
  <2>1. IsFiniteSet(S \cup {x}) /\ Cardinality(S \cup {x}) <= Cardinality(S) + 1 /\ Cardinality(S \cup {x}) \in Nat
    <3>1. IsFiniteSet(S \cup {x}) /\ (Cardinality(S \cup {x}) = Cardinality(S) \/ Cardinality(S \cup {x}) = Cardinality(S) + 1)
        BY FS_AddElement
    <3> QED BY <1>0, <3>1
  <2>2. IsFiniteSet(T) /\ Cardinality(T) <= Cardinality(S \cup {x})
      BY <2>1, FS_Subset
  <2>3. Cardinality(T) \in Nat
      BY <2>2, FS_CardinalityType
  <2> QED BY <1>0, <1>2, <2>1, <2>2, <2>3
<1> QED BY <1>1, <1>2

NoEnd == \A i \in 1 .. Len(Passed) : Passed[i].kind # "SidecarShutdown"

LEMMA LaterGrows ==
    ASSUME TypeOK, NEW m, PassedAnother(m), NEW s \in Sources
    PROVE  /\ LaterThanEnd(s)' \subseteq LaterThanEnd(s) \cup {Len(Passed) + 1}
           /\ m.source # s => LaterThanEnd(s)' \subseteq LaterThanEnd(s)
           /\ NoEnd => LaterThanEnd(s)' = {}
<1>0. Len(Passed) \in Nat
    BY PassedType
<1>1. ASSUME NEW i \in LaterThanEnd(s)', i # Len(Passed) + 1 PROVE i \in LaterThanEnd(s)
  <2>1. i \in 1 .. Len(Passed) /\ Passed[i].source = s
      BY <1>0, <1>1 DEF LaterThanEnd, PassedAnother
  <2>2. PICK j \in 1 .. i - 1 : Passed'[j].kind = "SidecarShutdown"
      BY <1>1 DEF LaterThanEnd
  <2>3. Passed[j].kind = "SidecarShutdown"
      BY <1>0, <2>1, <2>2 DEF PassedAnother
  <2> QED BY <2>1, <2>2, <2>3 DEF LaterThanEnd
<1>2. Len(Passed) + 1 \in LaterThanEnd(s)' => m.source = s
    BY DEF LaterThanEnd, PassedAnother
<1>3. ASSUME NoEnd, NEW i \in LaterThanEnd(s)' PROVE FALSE
  <2>1. PICK j \in 1 .. i - 1 : Passed'[j].kind = "SidecarShutdown"
      BY <1>3 DEF LaterThanEnd
  <2>2. i \in 1 .. Len(Passed) + 1
      BY <1>3 DEF LaterThanEnd, PassedAnother
  <2>3. j \in 1 .. Len(Passed) /\ Passed'[j] = Passed[j]
      BY <1>0, <2>1, <2>2 DEF PassedAnother
  <2> QED BY <1>3, <2>1, <2>3 DEF NoEnd
<1> QED BY <1>1, <1>2, <1>3

\* One step after the end of the consumers: what follows was left over.
UsesUp(s) ==
    /\ LaterThanEnd(s)' \subseteq LaterThanEnd(s) \cup {Len(Passed) + 1}
    /\ LeftOver(s)' <= LeftOver(s)
    /\ LaterThanEnd(s)' \subseteq LaterThanEnd(s) \/ LeftOver(s)' < LeftOver(s)

LEMMA WorkFollows ==
    ASSUME TypeInv, TypeOK', NEW s \in Sources, Work(s) \/ SaveFails(s), NEW r \in Sources
    PROVE  UsesUp(r)
<1>0. TypeOK
    BY DEF TypeInv
<1>1. worker[s].at # "idle" /\ UNCHANGED queue
    BY DEF Work, Save, StoreVersion, Announce, InsertEventLog, InsertEntity, Commit, SaveFails, Notify, PassOn
<1>2. LeftOver(r) \in Nat /\ LeftOver(r)' \in Nat
  <2>1. Len(queue[r]) \in Nat
      BY <1>0 DEF TypeOK
  <2> QED BY <1>1, <2>1 DEF LeftOver
<1>3. Done(s) \/ (\E step \in Steps : Goto(s, step))
    BY DEF Work, Save, StoreVersion, Announce, InsertEventLog, InsertEntity, Duplicate, Commit, SaveFails,
           Notify, PassOn, AfterSave, Steps
<1>4. worker'[r] = worker[r] \/ r = s
    BY <1>0, <1>3, DoneFacts, GotoFacts
<1>5. LeftOver(r)' <= LeftOver(r)
    BY <1>1, <1>2, <1>4 DEF LeftOver
<1>6. CASE Passed' = Passed
    BY <1>5, <1>6 DEF UsesUp, LaterThanEnd
<1>7. CASE (Announce(s) \/ PassOn(s)) /\ open
  <2>1. PassedAnother(worker[s].event) /\ worker[s].event.source = s /\ Done(s)
      BY <1>7, WorkerPasses DEF NodeMessages
  <2>2. /\ LaterThanEnd(r)' \subseteq LaterThanEnd(r) \cup {Len(Passed) + 1}
        /\ r # s => LaterThanEnd(r)' \subseteq LaterThanEnd(r)
      BY <1>0, <2>1, LaterGrows
  <2>3. r = s => LeftOver(r)' < LeftOver(r)
    <3>1. worker'[s].at = "idle"
        BY <1>0, <2>1, DoneFacts
    <3>2. Len(queue[s]) \in Nat
        BY <1>0 DEF TypeOK
    <3> QED BY <1>1, <3>1, <3>2 DEF LeftOver
  <2> QED BY <1>5, <2>2, <2>3 DEF UsesUp
<1>8. ((Announce(s) \/ PassOn(s)) /\ open) \/ Passed' = Passed
    BY WorkerPasses, QuietPassed DEF Work
<1> QED BY <1>6, <1>7, <1>8

LEMMA TakeFollows ==
    ASSUME TypeInv, EndInv, phase # "running", NEW s \in Sources, Take(s), NEW r \in Sources
    PROVE  UsesUp(r)
<1>0. TypeOK
    BY DEF TypeInv
<1>1. phase = "stopping" /\ ~consumer[s]
    BY <1>0 DEF Take, Running, TypeOK, EndInv, AllEnded
<1>2. MultiThreaded
    BY <1>1 DEF EndInv, LeftNothing, Take, Waiting
<1>3. /\ worker[s].at = "idle" /\ queue[s] # <<>> /\ queue[s] \in Seq(Messages)
      /\ queue'[s] = Tail(queue[s]) /\ \A t \in Sources \ {s} : queue'[t] = queue[t] /\ worker'[t] = worker[t]
    BY <1>0, <1>2 DEF Take, Waiting, TypeOK
<1>4. Len(queue'[s]) = Len(queue[s]) - 1 /\ Len(queue[s]) \in Nat /\ \A t \in Sources : Len(queue[t]) \in Nat
    BY <1>0, <1>3, HeadTailProperties DEF TypeOK
<1>5. LeftOver(r)' <= LeftOver(r)
  <2>1. CASE r = s
    <3>1. LeftOver(s) = Len(queue[s])
        BY <1>3 DEF LeftOver
    <3>2. LeftOver(s)' \in {Len(queue'[s]), Len(queue'[s]) + 1}
        BY DEF LeftOver
    <3> QED BY <1>4, <2>1, <3>1, <3>2
  <2>2. CASE r # s
      BY <1>3, <1>4, <2>2 DEF LeftOver
  <2> QED BY <2>1, <2>2
<1>6. Passed' = Passed
    BY QuietPassed
<1> QED BY <1>5, <1>6 DEF UsesUp, LaterThanEnd

\* Once the consumers have ended every step follows.
LEMMA AllFollow ==
    ASSUME TypeInv, TypeOK', EndInv, phase # "running", Next, ~Crash, NEW r \in Sources
    PROVE  UsesUp(r)
<1>0. TypeOK /\ queue[r] \in Seq(Messages) /\ Len(queue[r]) \in Nat
  <2>1. TypeOK
      BY DEF TypeInv
  <2>2. queue[r] \in Seq(Messages)
      BY <2>1 DEF TypeOK
  <2> QED BY <2>1, <2>2, LenProperties
<1>1. CASE UNCHANGED <<queue, worker>> /\ (Passed' = Passed \/ Len(Passed') = 0)
  <2>1. LeftOver(r)' = LeftOver(r) /\ LeftOver(r) \in Nat
      BY <1>0, <1>1 DEF LeftOver
  <2>2. LaterThanEnd(r)' \subseteq LaterThanEnd(r)
      BY <1>1 DEF LaterThanEnd
  <2> QED BY <2>1, <2>2 DEF UsesUp
<1>2. ASSUME NEW s \in Sources, Listener(s) \/ Finish(s) PROVE UNCHANGED <<queue, worker>> /\ Passed' = Passed
    BY <1>2, QuietPassed DEF Listener, Connect, Deliver, Disconnect, GiveUp, Send, Finish
<1>3. ASSUME NEW s \in Sources, Forward(s) PROVE FALSE
    BY <1>0, <1>3 DEF Forward, Running, TypeOK, EndInv, AllEnded
<1>4. ASSUME SendShutdown PROVE FALSE
    BY <1>4 DEF SendShutdown
<1>5. CASE Broadcast \/ Exit
    BY <1>0, <1>1, <1>5, BroadcastMoves DEF Broadcast, Exit, Passed
<1>6. CASE StartFails
    BY <1>1, <1>6, ClosedPasses DEF StartFails
<1> QED BY <1>1, <1>2, <1>3, <1>4, <1>5, <1>6, TakeFollows, WorkFollows DEF Next

LEMMA FollowInvStep ==
    TypeInv /\ TypeOK' /\ EndInv /\ FollowInv /\ [Next]_vars => FollowInv'
<1> SUFFICES ASSUME TypeInv, TypeOK', EndInv, FollowInv, [Next]_vars, (phase # "running")', NEW s \in Sources
             PROVE  FollowBound(s)'
    BY DEF FollowInv
<1>0. TypeOK /\ TypeOK'
    BY DEF TypeInv
<1>1. CASE UNCHANGED vars
    BY <1>1 DEF vars, FollowInv, FollowBound, LaterThanEnd, LeftOver, Passed
<1>2. CASE phase # "running" /\ Next /\ ~Crash
  <2>1. FollowBound(s) /\ UsesUp(s)
      BY <1>0, <1>2, AllFollow DEF FollowInv
  <2>2. LeftOver(s) \in Nat
      BY <1>0, LeftOverType
  <2>3. LeftOver(s)' \in Nat
    <3>1. Len(queue'[s]) \in Nat
        BY <1>0 DEF TypeOK
    <3> QED BY <3>1 DEF LeftOver
  <2> QED BY <2>1, <2>2, <2>3, BoundKept DEF FollowBound, UsesUp
<1>3. CASE phase = "running" /\ Next /\ ~Crash
  <2>1. NoEnd
      BY <1>3 DEF EndInv, NoEndYet, NoEnd
  <2>2. LaterThanEnd(s)' = {}
    <3>1. CASE Passed' = Passed
        BY <2>1, <3>1 DEF LaterThanEnd, NoEnd
    <3>2. CASE \E m \in Messages : PassedAnother(m)
        BY <1>0, <2>1, <3>2, LaterGrows
    <3>3. SendShutdown \/ Exit
        BY <1>3 DEF Next, Work, Save, Listener, Connect, Deliver, Disconnect, GiveUp, Send, Forward, Finish, Take,
               StoreVersion, Announce, InsertEventLog, InsertEntity, Commit, SaveFails, Notify, PassOn, Broadcast,
               StartFails
    <3>4. Passed' = Passed \/ \E m \in Messages : PassedAnother(m)
        BY <3>3, EndPasses DEF Exit, Passed
    <3> QED BY <3>1, <3>2, <3>4
  <2>3. QuietBound'
      BY <1>0, NothingLater, PTL
  <2> QED BY <2>2, <2>3 DEF QuietBound
<1>4. CASE Crash
    BY <1>4 DEF Crash, Volatile
<1> QED BY <1>1, <1>2, <1>3, <1>4

\* What start_sse_processors promises with the sidecar's own Shutdown, for every number
\* of nodes, every size of the queues and each kind of storage: with sqlite nothing
\* follows it, since a consumer that has ended has handled everything; otherwise no more
\* than the queue and the event at hand of each detached worker do.
THEOREM ShutdownCloses ==
    Spec => []ShutdownClosesFeed
<1>1. TypeInv /\ EndInv /\ FollowInv => ShutdownClosesFeed
  <2> SUFFICES ASSUME TypeInv, EndInv, FollowInv, NEW s \in Sources
               PROVE  Cardinality(Followers(s)) <= LeftToWorker
      BY DEF ShutdownClosesFeed
  <2>0. TypeOK /\ QueueSize \in Nat
      BY PipelineAssumption DEF TypeInv
  <2>1. /\ Len(Passed) = Len(out) + Len(outbound) /\ Len(out) \in Nat /\ Len(outbound) \in Nat
        /\ \A i \in 1 .. Len(out) : Passed[i] = out[i]
      BY <2>0, PassedType
  <2>2. Followers(s) \subseteq LaterThanEnd(s)
      BY <2>1 DEF Followers, LaterThanEnd
  <2>3. CASE LaterThanEnd(s) = {}
    <3>1. Cardinality(Followers(s)) = 0
        BY <2>2, <2>3, FS_EmptySet
    <3> QED BY <2>0, <3>1 DEF LeftToWorker
  <2>4. CASE LaterThanEnd(s) # {}
    <3>0. PICK i \in 1 .. Len(Passed) : \E j \in 1 .. i - 1 : Passed[j].kind = "SidecarShutdown"
        BY <2>4 DEF LaterThanEnd
    <3>1. PICK j \in 1 .. i - 1 : Passed[j].kind = "SidecarShutdown"
        BY <3>0
    <3>2. j \in 1 .. Len(Passed) /\ j # Len(Passed)
        BY <2>1, <3>0, <3>1
    <3>3. MultiThreaded /\ phase # "running"
        BY <3>1, <3>2 DEF EndInv, EndIsLast, NoEndYet
    <3>4. FollowBound(s) /\ LeftOver(s) \in Nat
        BY <2>0, <3>3, LeftOverType DEF FollowInv
    <3>5. IsFiniteSet(LaterThanEnd(s)) /\ Cardinality(LaterThanEnd(s)) \in Nat
          /\ Cardinality(LaterThanEnd(s)) <= QueueSize + 1
      <4>1. IsFiniteSet(LaterThanEnd(s)) /\ Cardinality(LaterThanEnd(s)) + LeftOver(s) <= QueueSize + 1
          BY <3>4 DEF FollowBound
      <4>2. Cardinality(LaterThanEnd(s)) \in Nat
          BY <4>1, FS_CardinalityType
      <4> QED BY <2>0, <3>4, <4>1, <4>2
    <3>6. IsFiniteSet(Followers(s)) /\ Cardinality(Followers(s)) <= Cardinality(LaterThanEnd(s))
        BY <2>2, <3>5, FS_Subset
    <3>7. Cardinality(Followers(s)) \in Nat
        BY <3>6, FS_CardinalityType
    <3> QED BY <2>0, <3>3, <3>5, <3>6, <3>7 DEF LeftToWorker
  <2> QED BY <2>3, <2>4
<1>2. Init => FollowInv
    BY DEF Init, Volatile, FollowInv
<1>3. TypeInv => TypeOK
    BY DEF TypeInv
<1> QED BY <1>1, <1>2, <1>3, TypeInvHolds, EndInvHolds, FollowInvStep, PTL DEF Spec
-----------------------------------------------------------------------------
\* The versions that are announced.

\* Nothing that was passed on is taken back.
PassedGrows == Passed' = Passed \/ \E m \in Messages : PassedAnother(m)

LEMMA AnnouncedKept ==
    ASSUME TypeOK, PassedGrows, NEW v, Announced(v)
    PROVE  Announced(v)'
<1>0. Len(Passed) \in Nat
    BY PassedType
<1> HIDE DEF Passed
<1>1. PICK i \in 1 .. Len(Passed) : Passed[i].kind = "ApiVersion" /\ Passed[i].ver >= v
    BY DEF Announced
<1>2. i \in 1 .. Len(Passed') /\ Passed'[i] = Passed[i]
    BY <1>0 DEF PassedGrows, PassedAnother
<1> QED BY <1>1, <1>2 DEF Announced

LEMMA AnnouncedNow ==
    ASSUME TypeOK, NEW m \in Messages, PassedAnother(m), m.kind = "ApiVersion", NEW v, m.ver >= v
    PROVE  Announced(v)'
<1>0. Len(Passed) \in Nat
    BY PassedType
<1> HIDE DEF Passed
<1>1. Len(Passed) + 1 \in 1 .. Len(Passed') /\ Passed'[Len(Passed) + 1] = m
    BY <1>0 DEF PassedAnother
<1> QED BY <1>1 DEF Announced

\* A step that takes no lock, releases none and passes no version on.
LEMMA LockUntouched ==
    ASSUME TypeOK, LockInv, UNCHANGED <<lock, newest>>, UNCHANGED open,
           Passed' = Passed \/ (open /\ \E m \in Messages : m.kind # "ApiVersion" /\ PassedAnother(m)),
           \A r \in Sources : worker'[r] = worker[r] \/ {worker[r].at, worker'[r].at} \cap {"announcing"} = {}
    PROVE  LockInv'
<1>0. Len(Passed) \in Nat /\ PassedGrows /\ newest \in Nat /\ lock \in Sources \cup {None}
    BY PassedType DEF PassedGrows, TypeOK
<1>1. newest # None /\ open /\ lock = None => Announced(newest)'
  <2>1. PICK v : v = newest
      OBVIOUS
  <2> QED BY <1>0, <2>1, AnnouncedKept DEF LockInv
<1> HIDE DEF Passed, PassedGrows
<1>2. \A i \in 1 .. Len(Passed') : Passed'[i].kind = "ApiVersion" => i \in 1 .. Len(Passed) /\ Passed[i] = Passed'[i]
    BY <1>0 DEF PassedAnother
<1>3. \A i \in 1 .. Len(Passed') : Passed'[i].kind = "ApiVersion" =>
          Passed'[i].ver <= newest' /\ (lock' # None => Passed'[i].ver < newest')
    BY <1>2 DEF LockInv
<1>4. /\ \A s \in Sources : worker'[s].at = "announcing" => lock' = s /\ worker'[s].event.ver = newest'
      /\ lock' # None => worker'[lock'].at = "announcing"
    BY <1>0 DEF LockInv
<1>5. ~open' => Passed' = <<>>
    BY DEF LockInv
<1> QED BY <1>1, <1>3, <1>4, <1>5 DEF LockInv

LEMMA StoreKeepsLock ==
    ASSUME TypeInv, LockInv, NEW s \in Sources, StoreVersion(s)
    PROVE  LockInv'
<1>0. TypeOK /\ UNCHANGED open /\ Passed' = Passed /\ Len(Passed) \in Nat /\ newest \in Nat
    BY PassedType DEF TypeInv, StoreVersion, Passed, TypeOK
<1>1. worker[s].event.ver \in Nat \ {0} /\ worker[s].at = "locking" /\ lock = None
    BY PipelineAssumption DEF StoreVersion, TypeInv, MessagesInPlace, NodeMessages
<1>2. CASE ~IsNewer(worker[s].event.ver)
    BY <1>0, <1>1, <1>2, DoneFacts, LockUntouched DEF StoreVersion
<1>3. CASE IsNewer(worker[s].event.ver)
  <2>1. newest' = worker[s].event.ver /\ lock' = s /\ Goto(s, "announcing") /\ newest < newest' /\ newest' \in Nat
      BY <1>0, <1>1, <1>3 DEF StoreVersion, IsNewer, None
  <2>2. /\ worker'[s].at = "announcing" /\ worker'[s].event = worker[s].event
        /\ \A r \in Sources \ {s} : worker'[r] = worker[r]
      BY <1>0, <2>1, GotoFacts DEF Steps
  <2>3. s # None /\ \A r \in Sources : worker[r].at # "announcing"
      BY <1>1, PipelineAssumption DEF LockInv
  <2> HIDE DEF Passed
  <2>4. \A i \in 1 .. Len(Passed) : Passed[i].kind = "ApiVersion" => Passed[i].ver < newest'
    <3> SUFFICES ASSUME NEW i \in 1 .. Len(Passed), Passed[i].kind = "ApiVersion" PROVE Passed[i].ver < newest'
        OBVIOUS
    <3>1. Passed[i] \in Messages
        BY PassedType DEF TypeInv
    <3>2. Passed[i].ver \in Nat
        BY <3>1 DEF Messages
    <3> QED BY <1>0, <2>1, <3>2 DEF LockInv
  <2>5. \A i \in 1 .. Len(Passed') : Passed'[i].kind = "ApiVersion" =>
          Passed'[i].ver <= newest' /\ (lock' # None => Passed'[i].ver < newest')
    <3> SUFFICES ASSUME NEW i \in 1 .. Len(Passed), Passed[i].kind = "ApiVersion" PROVE Passed[i].ver <= newest'
        BY <1>0, <2>4
    <3>1. Passed[i] \in Messages
        BY PassedType DEF TypeInv
    <3>2. Passed[i].ver \in Nat
        BY <3>1 DEF Messages
    <3> QED BY <2>1, <2>4, <3>2
  <2>6. ~open' => Passed' = <<>>
      BY <1>0 DEF LockInv
  <2> QED BY <2>1, <2>2, <2>3, <2>5, <2>6 DEF LockInv
<1> QED BY <1>2, <1>3

LEMMA AnnounceKeepsLock ==
    ASSUME TypeInv, LockInv, NEW s \in Sources, Announce(s)
    PROVE  LockInv'
<1>0. TypeOK /\ UNCHANGED <<open, newest>> /\ Len(Passed) \in Nat /\ newest \in Nat /\ lock' = None
      /\ worker[s].at = "announcing"
    BY PassedType DEF TypeInv, Announce, TypeOK
<1>1. /\ worker'[s].at = "idle" /\ \A r \in Sources \ {s} : worker'[r] = worker[r]
    BY <1>0, DoneFacts DEF Announce
<1>2. worker[s].event.ver = newest /\ lock = s /\ s # None /\ worker[s].event.kind = "ApiVersion"
      /\ worker[s].event \in Messages
    BY <1>0, PipelineAssumption, WorkerPasses DEF LockInv, TypeInv, MessagesInPlace
<1>3. \A r \in Sources : worker'[r].at # "announcing"
    BY <1>1, <1>2 DEF LockInv
<1>4. open => Announced(newest)'
  <2>1. PICK v : v = newest
      OBVIOUS
  <2>2. open => Announced(v)'
      BY <1>0, <1>2, <2>1, WorkerPasses, AnnouncedNow
  <2> QED BY <1>0, <2>1, <2>2
<1>5. open => PassedAnother(worker[s].event)
    BY WorkerPasses
<1>6. ~open => Passed' = Passed
    BY WorkerPasses
<1> HIDE DEF Passed
<1>7. \A i \in 1 .. Len(Passed') : Passed'[i].kind = "ApiVersion" => Passed'[i].ver <= newest
    BY <1>0, <1>2, <1>5, <1>6 DEF LockInv, PassedAnother
<1>8. ~open' => Passed' = <<>>
    BY <1>0, <1>6 DEF LockInv
<1> QED BY <1>0, <1>3, <1>4, <1>7, <1>8 DEF LockInv

LEMMA LockInvStep ==
    TypeInv /\ LockInv /\ [Next]_vars => LockInv'
<1> SUFFICES ASSUME TypeInv, LockInv, [Next]_vars PROVE LockInv'
    OBVIOUS
<1>0. TypeOK
    BY DEF TypeInv
<1>1. ASSUME NEW s \in Sources, Listener(s) \/ Forward(s) \/ Finish(s)
      PROVE  LockInv'
  <2>1. UNCHANGED <<lock, newest, worker>>
      BY <1>1 DEF Listener, Connect, Deliver, Disconnect, GiveUp, Send, Forward, Finish
  <2> QED BY <1>0, <1>1, <2>1, QuietPassed, LockUntouched
<1>2. ASSUME NEW s \in Sources, Take(s)
      PROVE  LockInv'
  <2>1. FirstStep(Head(Waiting(s))) # "announcing"
      BY DEF FirstStep, DbSavingStep, NoDbStep
  <2>2. worker'[s].at = FirstStep(Head(Waiting(s))) /\ worker[s].at = "idle"
        /\ \A r \in Sources \ {s} : worker'[r] = worker[r]
      BY <1>0, <1>2 DEF Take, TypeOK
  <2> QED BY <1>0, <1>2, <2>1, <2>2, QuietPassed, LockUntouched DEF Take
<1>3. ASSUME NEW s \in Sources, Save(s) \/ SaveFails(s)
      PROVE  LockInv'
  <2>1. UNCHANGED <<lock, newest>> /\ worker[s].at # "announcing"
      BY <1>3 DEF Save, InsertEventLog, InsertEntity, Commit, SaveFails, Notify
  <2>2. Done(s) \/ (\E step \in Steps \ {"announcing"} : Goto(s, step))
      BY <1>3 DEF Save, InsertEventLog, InsertEntity, Duplicate, Commit, SaveFails, Notify, AfterSave, Steps
  <2>3. worker'[s].at # "announcing" /\ \A r \in Sources \ {s} : worker'[r] = worker[r]
      BY <1>0, <2>2, DoneFacts, GotoFacts
  <2> QED BY <1>0, <1>3, <2>1, <2>3, QuietPassed, LockUntouched
<1>4. ASSUME NEW s \in Sources, PassOn(s)
      PROVE  LockInv'
  <2>1. UNCHANGED <<lock, newest>> /\ worker[s].at = "sending" /\ worker[s].event.kind # "ApiVersion"
      BY <1>4 DEF PassOn, TypeInv, MessagesInPlace
  <2>2. worker'[s].at = "idle" /\ \A r \in Sources \ {s} : worker'[r] = worker[r]
      BY <1>0, <1>4, DoneFacts DEF PassOn
  <2> QED BY <1>0, <1>4, <2>1, <2>2, WorkerPasses, LockUntouched
<1>5. CASE Broadcast \/ Exit \/ UNCHANGED vars
  <2>1. UNCHANGED <<lock, newest, worker, open>>
      BY <1>5 DEF Broadcast, Exit, vars
  <2>2. Passed' = Passed
      BY <1>0, <1>5, BroadcastMoves DEF Exit, vars, Passed
  <2> QED BY <1>0, <2>1, <2>2, LockUntouched
<1>6. CASE SendShutdown
  <2>1. UNCHANGED <<lock, newest, worker, open>>
      BY <1>6 DEF SendShutdown
  <2> QED BY <1>0, <1>6, <2>1, EndPasses, LockUntouched
<1>7. CASE StartFails
  <2>1. UNCHANGED <<lock, newest, worker>> /\ ~open'
      BY <1>7 DEF StartFails
  <2>2. Passed' = <<>> /\ Len(Passed') = 0
      BY <1>7, ClosedPasses
  <2> HIDE DEF Passed
  <2> QED BY <2>1, <2>2 DEF LockInv
<1>8. CASE Crash
  <2>1. Fresh' /\ Passed' = <<>> /\ Len(Passed') = 0
      BY <1>8, FreshPassed
  <2>2. lock' = None /\ newest' = None /\ \A s \in Sources : worker'[s].at = "idle"
      BY <1>8 DEF Crash, Volatile
  <2> HIDE DEF Passed
  <2> QED BY <2>1, <2>2 DEF LockInv
<1> QED BY <1>1, <1>2, <1>3, <1>4, <1>5, <1>6, <1>7, <1>8, StoreKeepsLock, AnnounceKeepsLock DEF Next, Work

LEMMA LockInvHolds ==
    Spec => []LockInv
<1>1. Init => LockInv
  <2> SUFFICES ASSUME Init PROVE LockInv
      OBVIOUS
  <2>1. Passed = <<>> /\ Len(Passed) = 0
      BY TypeInvInit, EmptyPassed DEF Init, TypeInv
  <2>2. lock = None /\ newest = None /\ \A s \in Sources : worker[s].at = "idle"
      BY DEF Init, Volatile
  <2> HIDE DEF Passed
  <2> QED BY <2>1, <2>2 DEF LockInv
<1> QED BY <1>1, TypeInvHolds, LockInvStep, PTL DEF Spec

LEMMA ChainType ==
    ASSUME TypeInv, NEW s \in Sources
    PROVE  /\ Chain(s) \in Seq(NodeMessages(s)) /\ Len(Chain(s)) \in Nat
           /\ queue[s] \in Seq(NodeMessages(s)) /\ inbound[s] \in Seq(NodeMessages(s))
           /\ \A n \in 1 .. Len(Chain(s)) : Chain(s)[n] \in NodeMessages(s) /\ Chain(s)[n].ver \in Nat
<1>1. queue[s] \in Seq(NodeMessages(s)) /\ inbound[s] \in Seq(NodeMessages(s))
    BY DEF TypeInv, MessagesInPlace
<1>2. Chain(s) \in Seq(NodeMessages(s))
    BY <1>1, ConcatProperties DEF Chain
<1> HIDE DEF Chain
<1>3. \A n \in 1 .. Len(Chain(s)) : Chain(s)[n] \in NodeMessages(s)
    BY <1>2
<1>4. \A m \in NodeMessages(s) : m.ver \in Nat
    BY PipelineAssumption DEF NodeMessages
<1> QED BY <1>1, <1>2, <1>3, <1>4, LenProperties

LEMMA ChainSend ==
    ASSUME TypeInv, NEW s \in Sources, NEW m \in NodeMessages(s), Send(s, m)
    PROVE  /\ Len(Chain(s)') = Len(Chain(s)) + 1 /\ Chain(s)'[Len(Chain(s)) + 1] = m
           /\ \A i \in 1 .. Len(Chain(s)) : Chain(s)'[i] = Chain(s)[i]
           /\ \A r \in Sources \ {s} : Chain(r)' = Chain(r)
<1>1. inbound'[s] = Append(inbound[s], m) /\ queue' = queue /\ \A r \in Sources \ {s} : inbound'[r] = inbound[r]
    BY DEF Send, TypeInv, TypeOK
<1>2. Chain(s) \in Seq(NodeMessages(s)) /\ queue[s] \in Seq(NodeMessages(s)) /\ inbound[s] \in Seq(NodeMessages(s))
    BY ChainType
<1>3. Chain(s)' = Append(Chain(s), m)
  <2>0. \A a, b \in Seq(NodeMessages(s)) : a \o Append(b, m) = Append(a \o b, m)
      BY AppendToSecond
  <2>1. queue[s] \o Append(inbound[s], m) = Append(queue[s] \o inbound[s], m)
      BY <1>2, <2>0, Zenon
  <2> QED BY <1>1, <2>1 DEF Chain
<1>4. \A r \in Sources \ {s} : Chain(r)' = Chain(r)
    BY <1>1 DEF Chain
<1> HIDE DEF Chain
<1> QED BY <1>2, <1>3, <1>4, AppendProperties

LEMMA ChainForward ==
    ASSUME TypeInv, NEW s \in Sources, Forward(s)
    PROVE  \A r \in Sources : Chain(r)' = Chain(r)
<1>1. /\ inbound'[s] = Tail(inbound[s]) /\ queue'[s] = Append(queue[s], Head(inbound[s])) /\ inbound[s] # <<>>
      /\ \A r \in Sources \ {s} : inbound'[r] = inbound[r] /\ queue'[r] = queue[r]
    BY DEF Forward, TypeInv, TypeOK
<1>2. queue[s] \in Seq(NodeMessages(s)) /\ inbound[s] \in Seq(NodeMessages(s))
    BY ChainType
<1>3. Chain(s)' = Chain(s)
    BY <1>1, <1>2, MoveHead DEF Chain
<1>4. \A r \in Sources \ {s} : Chain(r)' = Chain(r)
    BY <1>1 DEF Chain
<1> QED BY <1>3, <1>4

LEMMA ChainTake ==
    ASSUME TypeInv, EndInv, NEW s \in Sources, Take(s)
    PROVE  /\ Len(Chain(s)) >= 1 /\ Chain(s)[1] = Head(Waiting(s))
           /\ Len(Chain(s)') = Len(Chain(s)) - 1
           /\ \A i \in 1 .. Len(Chain(s)) - 1 : Chain(s)'[i] = Chain(s)[i + 1]
           /\ \A r \in Sources \ {s} : Chain(r)' = Chain(r)
<1>1. queue[s] \in Seq(NodeMessages(s)) /\ inbound[s] \in Seq(NodeMessages(s)) /\ Waiting(s) # <<>>
    BY ChainType DEF Take
<1>2. \A r \in Sources \ {s} : Chain(r)' = Chain(r)
    BY DEF Take, Chain, TypeInv, TypeOK
<1>3. CASE MultiThreaded
  <2>1. Waiting(s) = queue[s] /\ queue[s] # <<>> /\ queue'[s] = Tail(queue[s]) /\ inbound'[s] = inbound[s]
      BY <1>1, <1>3 DEF Take, Waiting, TypeInv, TypeOK
  <2>2. Chain(s)' = Tail(queue[s]) \o inbound[s] /\ Chain(s) = queue[s] \o inbound[s]
      BY <2>1 DEF Chain
  <2>3. /\ Len(queue[s] \o inbound[s]) >= 1 /\ (queue[s] \o inbound[s])[1] = Head(queue[s])
        /\ Len(Tail(queue[s]) \o inbound[s]) = Len(queue[s] \o inbound[s]) - 1
        /\ \A i \in 1 .. Len(queue[s] \o inbound[s]) - 1 :
              (Tail(queue[s]) \o inbound[s])[i] = (queue[s] \o inbound[s])[i + 1]
    <3>1. \A a, b \in Seq(NodeMessages(s)) : a # <<>> =>
              /\ Len(a \o b) >= 1 /\ (a \o b)[1] = Head(a)
              /\ Len(Tail(a) \o b) = Len(a \o b) - 1
              /\ \A i \in 1 .. Len(a \o b) - 1 : (Tail(a) \o b)[i] = (a \o b)[i + 1]
        BY TakeFirst
    <3> QED BY <1>1, <2>1, <3>1, Zenon
  <2> HIDE DEF Chain
  <2> QED BY <1>2, <2>1, <2>2, <2>3
<1>4. CASE ~MultiThreaded
  <2>1. Waiting(s) = inbound[s] /\ inbound[s] # <<>> /\ inbound'[s] = Tail(inbound[s]) /\ queue'[s] = queue[s]
      BY <1>1, <1>4 DEF Take, Waiting, TypeInv, TypeOK
  <2>2. queue[s] = <<>>
      BY <1>4 DEF EndInv, LeftNothing
  <2>3. /\ Tail(inbound[s]) \in Seq(NodeMessages(s)) /\ Len(Tail(inbound[s])) = Len(inbound[s]) - 1
        /\ \A i \in 1 .. Len(Tail(inbound[s])) : Tail(inbound[s])[i] = inbound[s][i + 1]
        /\ Head(inbound[s]) = inbound[s][1] /\ Len(inbound[s]) \in Nat \ {0}
      BY <1>1, <2>1, HeadTailProperties, LenProperties, EmptySeq
  <2>4. Chain(s)' = Tail(inbound[s])
      BY <2>1, <2>2, <2>3, ConcatEmptySeq DEF Chain
  <2>5. Chain(s) = inbound[s]
      BY <1>1, <2>2, ConcatEmptySeq DEF Chain
  <2> HIDE DEF Chain
  <2> QED BY <1>2, <2>1, <2>3, <2>4, <2>5
<1> QED BY <1>3, <1>4

\* What covered a message covers it still.
LEMMA CoveredKept ==
    ASSUME TypeInv, PassedGrows, NEW s \in Sources, NEW v \in Nat, NEW n \in 0 .. Len(Chain(s)), Covered(s, v, n),
           Len(Chain(s)') >= Len(Chain(s)), \A i \in 1 .. Len(Chain(s)) : Chain(s)'[i] = Chain(s)[i],
           \/ worker'[s] = worker[s] \/ worker[s].at \notin {"locking", "announcing"}
           \/ worker'[s].at = "announcing" /\ worker'[s].event = worker[s].event
           \/ \A w \in Nat : worker[s].event.ver >= w => Announced(w)'
    PROVE  Covered(s, v, n)'
<1>1. CASE Announced(v)
    BY <1>1, AnnouncedKept DEF TypeInv, Covered
<1>2. CASE worker[s].at \in {"locking", "announcing"} /\ worker[s].event.ver >= v
    BY <1>2 DEF Covered
<1>3. CASE \E i \in 1 .. n : Chain(s)[i].kind = "ApiVersion" /\ Chain(s)[i].ver >= v
  <2>1. PICK i \in 1 .. n : Chain(s)[i].kind = "ApiVersion" /\ Chain(s)[i].ver >= v
      BY <1>3
  <2>2. Chain(s)'[i] = Chain(s)[i]
      BY ChainType
  <2> HIDE DEF Chain
  <2> QED BY <2>1, <2>2 DEF Covered
<1> QED BY <1>1, <1>2, <1>3 DEF Covered

LEMMA CoveredFurther ==
    ASSUME TypeInv, NEW s \in Sources, NEW v \in Nat, NEW n \in Nat, NEW k \in Nat, n <= k, Covered(s, v, n)
    PROVE  Covered(s, v, k)
BY DEF Covered

LEMMA LinkType ==
    ASSUME TypeInv, NEW s \in Sources
    PROVE  link[s] \in Nat
<1>1. link[s] \in Versions \cup {None}
    BY DEF TypeInv, TypeOK
<1>2. Versions \subseteq Nat
    BY PipelineAssumption
<1>3. None \in Nat
    BY DEF None
<1> QED BY <1>1, <1>2, <1>3, Zenon

\* How a worker may move on without uncovering what waits behind it: a version it
\* handles is announced first.
MovesOn(s) ==
    \/ worker'[s] = worker[s]
    \/ /\ worker[s].at \notin {"idle", "locking", "announcing"}
       /\ worker'[s].at \notin {"idle", "locking", "announcing"} => worker'[s].event = worker[s].event
    \/ worker'[s].at = "announcing" /\ worker'[s].event = worker[s].event
    \/ worker'[s].at = "idle" /\ \A w \in Nat : worker[s].event.ver >= w => Announced(w)'

LEMMA CoverUntouched ==
    ASSUME TypeInv, PassedGrows, NEW s \in Sources, CoverOf(s), MovesOn(s),
           Chain(s)' = Chain(s), link'[s] = link[s] \/ link'[s] = None
    PROVE  CoverOf(s)'
<1>0. Len(Chain(s)) \in Nat /\ \A n \in 1 .. Len(Chain(s)) : Chain(s)[n].ver \in Nat
    BY ChainType
<1>1. \A v \in Nat, n \in 0 .. Len(Chain(s)) : Covered(s, v, n) => Covered(s, v, n)'
  <2> SUFFICES ASSUME NEW v \in Nat, NEW n \in 0 .. Len(Chain(s)), Covered(s, v, n) PROVE Covered(s, v, n)'
      OBVIOUS
  <2>1. \/ worker'[s] = worker[s] \/ worker[s].at \notin {"locking", "announcing"}
        \/ worker'[s].at = "announcing" /\ worker'[s].event = worker[s].event
        \/ \A w \in Nat : worker[s].event.ver >= w => Announced(w)'
      BY DEF MovesOn
  <2> HIDE DEF Chain
  <2> QED BY <1>0, <2>1, CoveredKept
<1> HIDE DEF Chain
<1>2. ASSUME NEW n \in 1 .. Len(Chain(s)') PROVE Chain(s)'[n].kind = "ApiVersion" \/ Covered(s, Chain(s)[n].ver, n - 1)'
  <2>1. n \in 1 .. Len(Chain(s)) /\ n - 1 \in 0 .. Len(Chain(s)) /\ Chain(s)'[n] = Chain(s)[n]
      BY <1>0, <1>2
  <2>2. PICK v \in Nat : v = Chain(s)[n].ver
      BY <1>0, <2>1
  <2>3. Chain(s)[n].kind = "ApiVersion" \/ Covered(s, v, n - 1)'
      BY <1>1, <2>1, <2>2 DEF CoverOf
  <2>4. Chain(s)'[n].ver = v
      BY <2>1, <2>2
  <2> QED BY <2>1, <2>3, <2>4
<1>3. link'[s] # None => Covered(s, link[s], Len(Chain(s)))'
  <2> SUFFICES ASSUME link'[s] # None PROVE Covered(s, link[s], Len(Chain(s)))'
      OBVIOUS
  <2>1. PICK v \in Nat, n \in 0 .. Len(Chain(s)) : v = link[s] /\ n = Len(Chain(s))
      BY <1>0, LinkType
  <2>2. Covered(s, v, n)'
      BY <1>1, <2>1 DEF CoverOf
  <2> QED BY <2>1, <2>2
<1>4. worker'[s].at \notin {"idle", "locking", "announcing"} => Announced(worker[s].event.ver)'
  <2> SUFFICES ASSUME worker'[s].at \notin {"idle", "locking", "announcing"} PROVE Announced(worker[s].event.ver)'
      OBVIOUS
  <2>1. PICK v : v = worker[s].event.ver
      OBVIOUS
  <2>2. worker'[s].event.ver = v /\ worker[s].at \notin {"idle", "locking", "announcing"}
      BY <2>1 DEF MovesOn
  <2>3. Announced(v)'
      BY <2>1, <2>2, AnnouncedKept DEF CoverOf, TypeInv
  <2> QED BY <2>2, <2>3
<1> QED BY <1>2, <1>3, <1>4 DEF CoverOf

\* The listener sends a version first, and then events of that version.
LEMMA CoverSend ==
    ASSUME TypeInv, PassedGrows, NEW s \in Sources, CoverOf(s), NEW m \in NodeMessages(s), Send(s, m),
           m.kind = "ApiVersion" \/ (link[s] # None /\ m.ver = link[s]),
           link'[s] = link[s] \/ (m.kind = "ApiVersion" /\ link'[s] = m.ver)
    PROVE  CoverOf(s)'
<1>0. /\ Len(Chain(s)) \in Nat /\ \A n \in 1 .. Len(Chain(s)) : Chain(s)[n].ver \in Nat
      /\ m.ver \in Nat /\ worker' = worker
    BY ChainType, PipelineAssumption DEF NodeMessages, Send
<1>1. /\ Len(Chain(s)') = Len(Chain(s)) + 1 /\ Chain(s)'[Len(Chain(s)) + 1] = m
      /\ \A i \in 1 .. Len(Chain(s)) : Chain(s)'[i] = Chain(s)[i]
    BY ChainSend
<1> HIDE DEF Chain
<1>2. \A v \in Nat, n \in 0 .. Len(Chain(s)) : Covered(s, v, n) => Covered(s, v, n)'
    BY <1>0, <1>1, CoveredKept
<1>3. link[s] # None => \E v \in Nat, n \in 0 .. Len(Chain(s)) : v = link[s] /\ n = Len(Chain(s)) /\ Covered(s, v, n)'
  <2> SUFFICES ASSUME link[s] # None
               PROVE  \E v \in Nat, n \in 0 .. Len(Chain(s)) : v = link[s] /\ n = Len(Chain(s)) /\ Covered(s, v, n)'
      OBVIOUS
  <2>1. PICK v \in Nat, n \in 0 .. Len(Chain(s)) : v = link[s] /\ n = Len(Chain(s))
      BY <1>0, LinkType
  <2>2. Covered(s, v, n)'
      BY <1>2, <2>1 DEF CoverOf
  <2> QED BY <2>1, <2>2
<1>4. ASSUME NEW n \in 1 .. Len(Chain(s)') PROVE Chain(s)'[n].kind = "ApiVersion" \/ Covered(s, Chain(s)[n].ver, n - 1)'
  <2>1. CASE n = Len(Chain(s)) + 1
    <3>1. Chain(s)'[n] = m
        BY <1>1, <2>1
    <3>2. m.kind # "ApiVersion" => Covered(s, Chain(s)[n].ver, n - 1)'
      <4> SUFFICES ASSUME m.kind # "ApiVersion" PROVE Covered(s, Chain(s)[n].ver, n - 1)'
          OBVIOUS
      <4>1. PICK v \in Nat, k \in 0 .. Len(Chain(s)) : v = link[s] /\ k = Len(Chain(s)) /\ Covered(s, v, k)'
          BY <1>3
      <4>2. Chain(s)'[n].ver = v /\ n - 1 = k
          BY <1>0, <2>1, <3>1, <4>1
      <4> QED BY <4>1, <4>2
    <3> QED BY <3>1, <3>2
  <2>2. CASE n # Len(Chain(s)) + 1
    <3>1. n \in 1 .. Len(Chain(s)) /\ n - 1 \in 0 .. Len(Chain(s)) /\ Chain(s)'[n] = Chain(s)[n]
        BY <1>0, <1>1, <2>2
    <3>2. PICK v \in Nat : v = Chain(s)[n].ver
        BY <1>0, <3>1
    <3>3. Chain(s)[n].kind = "ApiVersion" \/ Covered(s, v, n - 1)'
        BY <1>2, <3>1, <3>2 DEF CoverOf
    <3>4. Chain(s)'[n].ver = v
        BY <3>1, <3>2
    <3> QED BY <3>1, <3>3, <3>4
  <2> QED BY <2>1, <2>2
<1>5. link'[s] # None => Covered(s, link[s], Len(Chain(s)))'
  <2> SUFFICES ASSUME link'[s] # None PROVE Covered(s, link[s], Len(Chain(s)))'
      OBVIOUS
  <2>1. CASE m.kind = "ApiVersion" /\ link'[s] = m.ver
    <3>1. Len(Chain(s)) + 1 \in 1 .. Len(Chain(s)') /\ m.ver >= link'[s]
        BY <1>0, <1>1, <2>1
    <3> QED BY <1>1, <2>1, <3>1 DEF Covered
  <2>2. CASE link'[s] = link[s]
    <3>1. PICK v \in Nat, k \in 0 .. Len(Chain(s)) : v = link[s] /\ k = Len(Chain(s)) /\ Covered(s, v, k)'
        BY <1>3, <2>2
    <3>2. Len(Chain(s)') \in Nat /\ k <= Len(Chain(s)')
        BY <1>0, <1>1
    <3>3. Covered(s, v, Len(Chain(s)))'
        BY <3>1, <3>2 DEF Covered
    <3> QED BY <2>2, <3>1, <3>3
  <2> QED BY <2>1, <2>2
<1>6. worker'[s].at \notin {"idle", "locking", "announcing"} => Announced(worker[s].event.ver)'
  <2> SUFFICES ASSUME worker'[s].at \notin {"idle", "locking", "announcing"} PROVE Announced(worker[s].event.ver)'
      OBVIOUS
  <2>1. PICK v : v = worker[s].event.ver
      OBVIOUS
  <2>2. Announced(v)'
      BY <1>0, <2>1, AnnouncedKept DEF CoverOf, TypeInv
  <2> QED BY <1>0, <2>1, <2>2
<1> QED BY <1>4, <1>5, <1>6 DEF CoverOf

\* The message that a worker takes is covered by what was announced, and covers the
\* others if it is a version.
LEMMA CoverTake ==
    ASSUME TypeInv, EndInv, PassedGrows, NEW s \in Sources, CoverOf(s), Take(s)
    PROVE  CoverOf(s)'
<1> DEFINE m == Head(Waiting(s))
<1>0. /\ Len(Chain(s)) \in Nat /\ \A n \in 1 .. Len(Chain(s)) : Chain(s)[n].ver \in Nat
      /\ link' = link /\ worker[s].at = "idle"
    BY ChainType DEF Take
<1>1. /\ Len(Chain(s)) >= 1 /\ Chain(s)[1] = m
      /\ Len(Chain(s)') = Len(Chain(s)) - 1
      /\ \A i \in 1 .. Len(Chain(s)) - 1 : Chain(s)'[i] = Chain(s)[i + 1]
    BY ChainTake
<1>2. /\ worker'[s].at = FirstStep(m) /\ worker'[s].event = m
    BY DEF Take, TypeInv, TypeOK
<1>3. m.kind = "ApiVersion" => worker'[s].at = "locking"
    BY <1>2 DEF FirstStep
<1>4. worker'[s].at \notin {"idle", "locking", "announcing"} => m.kind # "ApiVersion"
    BY <1>3
<1> HIDE DEF Chain, m
<1>5. ASSUME NEW v \in Nat, NEW n \in 1 .. Len(Chain(s)), Covered(s, v, n) PROVE Covered(s, v, n - 1)'
  <2>1. CASE Announced(v)
      BY <2>1, AnnouncedKept DEF TypeInv, Covered
  <2>2. CASE \E i \in 1 .. n : Chain(s)[i].kind = "ApiVersion" /\ Chain(s)[i].ver >= v
    <3>1. PICK i \in 1 .. n : Chain(s)[i].kind = "ApiVersion" /\ Chain(s)[i].ver >= v
        BY <2>2
    <3>2. CASE i = 1
        BY <1>1, <1>2, <1>3, <3>1, <3>2 DEF Covered
    <3>3. CASE i # 1
      <4>1. i - 1 \in 1 .. n - 1 /\ i - 1 \in 1 .. Len(Chain(s)) - 1 /\ (i - 1) + 1 = i
          BY <1>0, <3>3
      <4>2. Chain(s)'[i - 1] = Chain(s)[i]
          BY <1>1, <4>1
      <4> QED BY <3>1, <4>1, <4>2 DEF Covered
    <3> QED BY <3>2, <3>3
  <2> QED BY <1>0, <1>5, <2>1, <2>2 DEF Covered
<1>6. ASSUME NEW n \in 1 .. Len(Chain(s)') PROVE Chain(s)'[n].kind = "ApiVersion" \/ Covered(s, Chain(s)[n].ver, n - 1)'
  <2>1. n + 1 \in 1 .. Len(Chain(s)) /\ n \in 1 .. Len(Chain(s)) /\ Chain(s)'[n] = Chain(s)[n + 1] /\ (n + 1) - 1 = n
      BY <1>0, <1>1, <1>6
  <2>2. PICK v \in Nat : v = Chain(s)[n + 1].ver
      BY <1>0, <2>1
  <2>3. Chain(s)[n + 1].kind = "ApiVersion" \/ Covered(s, v, n)
      BY <2>1, <2>2 DEF CoverOf
  <2>4. Chain(s)[n + 1].kind = "ApiVersion" \/ Covered(s, v, n - 1)'
      BY <1>5, <2>1, <2>3
  <2> QED BY <2>1, <2>2, <2>4
<1>7. link'[s] # None => Covered(s, link[s], Len(Chain(s)))'
  <2> SUFFICES ASSUME link[s] # None PROVE Covered(s, link[s], Len(Chain(s)))'
      BY <1>0
  <2>1. PICK v \in Nat, n \in 1 .. Len(Chain(s)) : v = link[s] /\ n = Len(Chain(s))
      BY <1>0, <1>1, LinkType
  <2>2. Covered(s, v, n - 1)'
      BY <1>5, <2>1 DEF CoverOf
  <2>3. Len(Chain(s)') = n - 1 /\ link'[s] = v
      BY <1>0, <1>1, <2>1
  <2> QED BY <2>2, <2>3
<1>8. worker'[s].at \notin {"idle", "locking", "announcing"} => Announced(worker[s].event.ver)'
  <2> SUFFICES ASSUME m.kind # "ApiVersion" PROVE Announced(worker[s].event.ver)'
      BY <1>4
  <2>1. PICK v \in Nat : v = m.ver
      BY <1>0, <1>1
  <2>2. 1 \in 1 .. Len(Chain(s)) /\ 1 - 1 = 0
      BY <1>0, <1>1
  <2>3. Covered(s, v, 0)
      BY <1>1, <2>1, <2>2 DEF CoverOf
  <2>4. Announced(v)
      BY <1>0, <2>3 DEF Covered
  <2>5. Announced(v)'
      BY <2>4, AnnouncedKept DEF TypeInv
  <2> QED BY <1>2, <2>1, <2>5
<1> QED BY <1>6, <1>7, <1>8 DEF CoverOf

LEMMA ChainUntouched ==
    ASSUME UNCHANGED <<inbound, queue>>
    PROVE  \A r \in Sources : Chain(r)' = Chain(r)
BY DEF Chain

LEMMA CoverInvStep ==
    TypeInv /\ EndInv /\ LockInv /\ CoverInv /\ [Next]_vars => CoverInv'
<1> SUFFICES ASSUME TypeInv, EndInv, LockInv, CoverInv, [Next]_vars, open' PROVE \A r \in Sources : CoverOf(r)'
    BY DEF CoverInv
<1>0. TypeOK
    BY DEF TypeInv
<1>1. CASE Crash
  <2> SUFFICES ASSUME NEW r \in Sources PROVE CoverOf(r)'
      OBVIOUS
  <2>1. link'[r] = None /\ worker'[r].at = "idle" /\ inbound'[r] = <<>> /\ queue'[r] = <<>>
      BY <1>1 DEF Crash, Volatile
  <2>2. Len(Chain(r)') = 0
      BY <2>1 DEF Chain
  <2> HIDE DEF Chain
  <2> QED BY <2>1, <2>2 DEF CoverOf
<1>2. CASE StartFails
    BY <1>2 DEF StartFails
<1>3. CASE open
  <2>0. \A r \in Sources : CoverOf(r)
      BY <1>3 DEF CoverInv
  <2>1. CASE PassedGrows /\ UNCHANGED <<inbound, queue, link>> /\ \A r \in Sources : MovesOn(r)
      BY <2>0, <2>1, ChainUntouched, CoverUntouched
  <2>2. ASSUME NEW s \in Sources, NEW m \in NodeMessages(s), Send(s, m), Passed' = Passed,
               m.kind = "ApiVersion" \/ (link[s] # None /\ m.ver = link[s]),
               link'[s] = link[s] \/ (m.kind = "ApiVersion" /\ link'[s] = m.ver),
               \A r \in Sources \ {s} : link'[r] = link[r]
        PROVE  \A r \in Sources : CoverOf(r)'
    <3>1. PassedGrows /\ worker' = worker
        BY <2>2 DEF PassedGrows, Send
    <3>2. CoverOf(s)'
        BY <2>0, <2>2, <3>1, CoverSend
    <3>3. \A r \in Sources \ {s} : Chain(r)' = Chain(r) /\ MovesOn(r)
        BY <2>2, <3>1, ChainSend DEF MovesOn
    <3>4. \A r \in Sources \ {s} : CoverOf(r)'
        BY <2>0, <2>2, <3>1, <3>3, CoverUntouched
    <3> QED BY <3>2, <3>4
  <2>3. ASSUME NEW s \in Sources, NEW v \in Versions, Connect(s, v) PROVE \A r \in Sources : CoverOf(r)'
    <3>1. /\ Message(s, "ApiVersion", NoKey, v) \in NodeMessages(s) /\ Send(s, Message(s, "ApiVersion", NoKey, v))
          /\ Message(s, "ApiVersion", NoKey, v).kind = "ApiVersion" /\ Message(s, "ApiVersion", NoKey, v).ver = v
        BY <2>3, MadeByListener DEF Connect, Message
    <3>2. link'[s] = v /\ (\A r \in Sources \ {s} : link'[r] = link[r]) /\ Passed' = Passed
        BY <1>0, <2>3, QuietPassed DEF Connect, Listener, TypeOK
    <3> QED BY <2>2, <3>1, <3>2
  <2>4. ASSUME NEW s \in Sources, Deliver(s) PROVE \A r \in Sources : CoverOf(r)'
    <3>1. link[s] \in Versions /\ link[s] # None /\ link' = link /\ Passed' = Passed
        BY <1>0, <2>4, QuietPassed DEF Deliver, Listener, TypeOK
    <3>2. \E m \in NodeMessages(s) : Send(s, m) /\ (m.kind = "ApiVersion" \/ m.ver = link[s])
        BY <2>4, <3>1, MadeByListener DEF Deliver, Message
    <3> QED BY <2>2, <3>1, <3>2
  <2>5. ASSUME NEW s \in Sources, Disconnect(s) PROVE \A r \in Sources : CoverOf(r)'
    <3>1. /\ \A r \in Sources : link'[r] = link[r] \/ link'[r] = None
          /\ UNCHANGED <<inbound, queue, worker>>
        BY <1>0, <2>5 DEF Disconnect, TypeOK
    <3>2. PassedGrows /\ \A r \in Sources : MovesOn(r)
        BY <2>5, <3>1, QuietPassed DEF Listener, PassedGrows, MovesOn
    <3> QED BY <2>0, <3>1, <3>2, ChainUntouched, CoverUntouched
  <2>6. ASSUME NEW s \in Sources, GiveUp(s) \/ Finish(s) PROVE \A r \in Sources : CoverOf(r)'
    <3>1. UNCHANGED <<inbound, queue, worker, link>>
        BY <2>6 DEF GiveUp, Finish
    <3> QED BY <2>1, <2>6, <3>1, QuietPassed DEF Listener, PassedGrows, MovesOn
  <2>7. ASSUME NEW s \in Sources, Forward(s) PROVE \A r \in Sources : CoverOf(r)'
    <3>1. UNCHANGED <<worker, link>> /\ \A r \in Sources : Chain(r)' = Chain(r)
        BY <2>7, ChainForward DEF Forward
    <3>2. PassedGrows /\ \A r \in Sources : MovesOn(r)
        BY <2>7, <3>1, QuietPassed DEF PassedGrows, MovesOn
    <3> QED BY <2>0, <3>1, <3>2, CoverUntouched
  <2>8. ASSUME NEW s \in Sources, Take(s) PROVE \A r \in Sources : CoverOf(r)'
    <3>1. PassedGrows
        BY <2>8, QuietPassed DEF PassedGrows
    <3>2. CoverOf(s)'
        BY <2>0, <2>8, <3>1, CoverTake
    <3>3. link' = link /\ \A r \in Sources \ {s} : worker'[r] = worker[r]
        BY <1>0, <2>8 DEF Take, TypeOK
    <3>4. \A r \in Sources \ {s} : Chain(r)' = Chain(r) /\ MovesOn(r)
        BY <2>8, <3>3, ChainTake DEF MovesOn
    <3>5. \A r \in Sources \ {s} : CoverOf(r)'
        BY <2>0, <3>1, <3>3, <3>4, CoverUntouched
    <3> QED BY <3>2, <3>5
  <2>9. ASSUME NEW s \in Sources, StoreVersion(s) PROVE \A r \in Sources : CoverOf(r)'
    <3>1. UNCHANGED <<inbound, queue, link>> /\ PassedGrows /\ Passed' = Passed
        BY <2>9, QuietPassed DEF StoreVersion, PassedGrows
    <3>2. CASE IsNewer(worker[s].event.ver)
        BY <1>0, <2>1, <2>9, <3>1, <3>2, GotoFacts DEF StoreVersion, MovesOn, Steps
    <3>3. CASE ~IsNewer(worker[s].event.ver)
      <4>1. worker[s].event.ver \in Nat /\ newest \in Nat /\ worker[s].event.ver <= newest /\ newest # None /\ lock = None
        <5>1. worker[s].event.ver \in Nat /\ newest \in Nat
            BY <2>9, PipelineAssumption DEF StoreVersion, TypeInv, TypeOK, MessagesInPlace, NodeMessages
        <5> QED BY <2>9, <3>3, <5>1 DEF IsNewer, StoreVersion
      <4>2. PICK i \in 1 .. Len(Passed) : Passed[i].kind = "ApiVersion" /\ Passed[i].ver >= newest
          BY <1>3, <4>1 DEF LockInv, Announced
      <4>3. Passed[i].ver \in Nat
        <5>1. Passed[i] \in Messages
            BY <1>0, PassedType
        <5> QED BY <5>1 DEF Messages
      <4>4. ASSUME NEW w \in Nat, worker[s].event.ver >= w PROVE Announced(w)'
        <5>1. Passed[i].ver >= w
            BY <4>1, <4>2, <4>3, <4>4
        <5> HIDE DEF Passed
        <5> QED BY <3>1, <4>2, <5>1 DEF Announced
      <4>5. worker'[s].at = "idle" /\ \A r \in Sources \ {s} : worker'[r] = worker[r]
          BY <1>0, <2>9, <3>3, DoneFacts DEF StoreVersion
      <4> QED BY <2>1, <3>1, <4>4, <4>5 DEF MovesOn
    <3> QED BY <3>2, <3>3
  <2>10. ASSUME NEW s \in Sources, Announce(s) PROVE \A r \in Sources : CoverOf(r)'
    <3>1. UNCHANGED <<inbound, queue, link>> /\ worker[s].event.kind = "ApiVersion"
        BY <2>10 DEF Announce, TypeInv, MessagesInPlace
    <3>2. PassedAnother(worker[s].event) /\ worker[s].event \in Messages /\ PassedGrows
        BY <1>3, <2>10, WorkerPasses DEF PassedGrows
    <3>3. \A w \in Nat : worker[s].event.ver >= w => Announced(w)'
        BY <1>0, <3>1, <3>2, AnnouncedNow
    <3>4. worker'[s].at = "idle" /\ \A r \in Sources \ {s} : worker'[r] = worker[r]
        BY <1>0, <2>10, DoneFacts DEF Announce
    <3> QED BY <2>1, <3>1, <3>2, <3>3, <3>4 DEF MovesOn
  <2>11. ASSUME NEW s \in Sources, Save(s) \/ SaveFails(s) \/ PassOn(s) PROVE \A r \in Sources : CoverOf(r)'
    <3>1. UNCHANGED <<inbound, queue, link>> /\ worker[s].at \notin {"idle", "locking", "announcing"}
        BY <2>11 DEF Save, InsertEventLog, InsertEntity, Commit, SaveFails, Notify, PassOn
    <3>2. Done(s) \/ (\E step \in Steps : Goto(s, step))
        BY <2>11 DEF Save, InsertEventLog, InsertEntity, Duplicate, Commit, SaveFails, Notify, PassOn, AfterSave, Steps
    <3>3. /\ worker'[s].at = "idle" \/ worker'[s].event = worker[s].event
          /\ \A r \in Sources \ {s} : worker'[r] = worker[r]
        BY <1>0, <3>2, DoneFacts, GotoFacts
    <3>4. PassedGrows
        BY <1>3, <2>11, QuietPassed, WorkerPasses DEF PassedGrows
    <3> QED BY <2>1, <3>1, <3>3, <3>4 DEF MovesOn
  <2>12. CASE Broadcast \/ SendShutdown \/ Exit \/ UNCHANGED vars
    <3>1. UNCHANGED <<inbound, queue, link, worker>>
        BY <2>12 DEF Broadcast, SendShutdown, Exit, vars
    <3>2. PassedGrows
        BY <1>0, <1>3, <2>12, BroadcastMoves, EndPasses DEF Exit, vars, Passed, PassedGrows
    <3> QED BY <2>1, <3>1, <3>2 DEF MovesOn
  <2> QED BY <1>1, <1>2, <2>3, <2>4, <2>5, <2>6, <2>7, <2>8, <2>9, <2>10, <2>11, <2>12 DEF Next, Listener, Work
<1>4. CASE ~open /\ ~Crash
  <2>1. UNCHANGED open \/ StartFails
      BY <1>4 DEF Next, Work, Save, Listener, Connect, Deliver, Disconnect, GiveUp, Send, Forward, Finish, Take,
             StoreVersion, Announce, InsertEventLog, InsertEntity, Commit, SaveFails, Notify, PassOn, Broadcast,
             SendShutdown, Exit, vars
  <2> QED BY <1>2, <1>4, <2>1
<1> QED BY <1>1, <1>3, <1>4

LEMMA CoverInvHolds ==
    Spec => []CoverInv
<1>1. Init => CoverInv
  <2> SUFFICES ASSUME Init, NEW r \in Sources PROVE CoverOf(r)
      BY DEF CoverInv
  <2>1. link[r] = None /\ worker[r].at = "idle" /\ inbound[r] = <<>> /\ queue[r] = <<>>
      BY DEF Init, Volatile
  <2>2. Len(Chain(r)) = 0
      BY <2>1 DEF Chain
  <2> HIDE DEF Chain
  <2> QED BY <2>1, <2>2 DEF CoverOf
<1> QED BY <1>1, TypeInvHolds, EndInvHolds, LockInvHolds, CoverInvStep, PTL DEF Spec
-----------------------------------------------------------------------------
\* What is broadcast is an OutboundFeed.

LEMMA FeedGrows ==
    ASSUME TypeOK, FeedInv, NEW m \in Messages, PassedAnother(m), Follows(m, Len(Passed))
    PROVE  FeedInv'
<1>0. Len(Passed) \in Nat
    BY PassedType
<1> HIDE DEF Passed
<1> SUFFICES ASSUME NEW i \in 1 .. Len(Passed') PROVE Follows(Passed[i], i - 1)'
    BY DEF FeedInv
<1>1. /\ i - 1 \in 0 .. Len(Passed) /\ \A j \in 1 .. i - 1 : Passed'[j] = Passed[j]
      /\ i = Len(Passed) + 1 => Passed'[i] = m
      /\ i # Len(Passed) + 1 => i \in 1 .. Len(Passed) /\ Passed'[i] = Passed[i]
    BY <1>0 DEF PassedAnother
<1>2. Follows(Passed'[i], i - 1)
  <2>1. CASE i = Len(Passed) + 1
    <3>1. i - 1 = Len(Passed)
        BY <1>0, <2>1
    <3> QED BY <1>1, <2>1, <3>1
  <2>2. CASE i # Len(Passed) + 1
      BY <1>1, <2>2 DEF FeedInv
  <2> QED BY <2>1, <2>2
<1> QED BY <1>1, <1>2 DEF Follows

LEMMA FeedInvStep ==
    TypeInv /\ EndInv /\ LockInv /\ CoverInv /\ FeedInv /\ [Next]_vars => FeedInv'
<1> SUFFICES ASSUME TypeInv, EndInv, LockInv, CoverInv, FeedInv, [Next]_vars PROVE FeedInv'
    OBVIOUS
<1>0. TypeOK /\ Len(Passed) \in Nat
    BY PassedType DEF TypeInv
<1>1. CASE Passed' = Passed
  <2> HIDE DEF Passed
  <2> QED BY <1>1 DEF FeedInv, Follows
<1>2. ASSUME NEW s \in Sources, Announce(s), open PROVE FeedInv'
  <2>1. /\ PassedAnother(worker[s].event) /\ worker[s].event \in Messages
        /\ worker[s].event.kind = "ApiVersion" /\ worker[s].event.ver = newest /\ lock = s /\ s # None
      BY <1>2, WorkerPasses, PipelineAssumption DEF Announce, TypeInv, MessagesInPlace, LockInv
  <2>2. Follows(worker[s].event, Len(Passed))
    <3> HIDE DEF Passed
    <3> QED BY <2>1 DEF LockInv, Follows
  <2> QED BY <1>0, <2>1, <2>2, FeedGrows
<1>3. ASSUME NEW s \in Sources, PassOn(s), open PROVE FeedInv'
  <2>1. /\ PassedAnother(worker[s].event) /\ worker[s].event \in Messages
        /\ worker[s].event.kind \notin {"ApiVersion", "SidecarShutdown"}
      BY <1>3, WorkerPasses DEF PassOn, TypeInv, MessagesInPlace
  <2>2. Announced(worker[s].event.ver)
      BY <1>3 DEF PassOn, CoverInv, CoverOf
  <2>3. Follows(worker[s].event, Len(Passed))
    <3> HIDE DEF Passed
    <3> QED BY <2>1, <2>2 DEF Announced, Follows
  <2> QED BY <1>0, <2>1, <2>3, FeedGrows
<1>4. CASE SendShutdown /\ open
  <2>1. PassedAnother(EndMessage) /\ EndMessage \in Messages /\ EndMessage.kind = "SidecarShutdown"
      BY <1>4, EndPasses
  <2>2. Follows(EndMessage, Len(Passed))
    <3> HIDE DEF Passed
    <3> QED BY <1>4, <2>1 DEF SendShutdown, EndInv, NoEndYet, Follows
  <2> QED BY <1>0, <2>1, <2>2, FeedGrows
<1>5. CASE Crash \/ StartFails
  <2>1. Len(Passed') = 0
      BY <1>5, ClosedPasses, FreshPassed
  <2> HIDE DEF Passed
  <2> QED BY <2>1 DEF FeedInv
<1>6. ASSUME ~open, (SendShutdown \/ \E s \in Sources : Announce(s) \/ PassOn(s)) PROVE Passed' = Passed
    BY <1>6, WorkerPasses, EndPasses
<1>7. CASE Broadcast \/ Exit \/ UNCHANGED vars
    BY <1>0, <1>1, <1>7, BroadcastMoves DEF Exit, vars, Passed
<1>8. ASSUME NEW s \in Sources,
             \/ Listener(s) \/ Forward(s) \/ Finish(s) \/ Take(s) \/ StoreVersion(s) \/ Save(s) \/ SaveFails(s)
      PROVE  Passed' = Passed
    BY <1>8, QuietPassed
<1> QED BY <1>1, <1>2, <1>3, <1>4, <1>5, <1>6, <1>7, <1>8 DEF Next, Work

LEMMA FeedInvHolds ==
    Spec => []FeedInv
<1>1. Init => FeedInv
  <2> SUFFICES ASSUME Init PROVE FeedInv
      OBVIOUS
  <2>1. Len(Passed) = 0
      BY TypeInvInit, EmptyPassed DEF Init, TypeInv
  <2> HIDE DEF Passed
  <2> QED BY <2>1 DEF FeedInv
<1> QED BY <1>1, TypeInvHolds, EndInvHolds, LockInvHolds, CoverInvHolds, FeedInvStep, PTL DEF Spec

LEMMA BroadcastFeeds ==
    ASSUME TypeOK, FeedInv, Broadcast
    PROVE  Feed!FeedNext
<1> DEFINE m == Head(outbound)
           n == Len(out)
<1>0. /\ Running /\ phase' = phase /\ out' = Append(out, m) /\ out \in Seq(Messages) /\ n \in Nat
      /\ outbound \in Seq(Messages) /\ outbound # <<>>
    BY PassedType DEF Broadcast, TypeOK
<1>1. Len(outbound) \in Nat \ {0} /\ m = outbound[1] /\ m \in Messages
    BY <1>0, EmptySeq, HeadTailProperties
<1>2. n + 1 \in 1 .. Len(Passed) /\ Passed[n + 1] = m /\ (n + 1) - 1 = n /\ \A i \in 1 .. n : Passed[i] = out[i]
    BY <1>0, <1>1, PassedType
<1> HIDE DEF m, n
<1>3. Follows(m, n)
    BY <1>2 DEF FeedInv
<1>4. Len(out') = n + 1 /\ out'[n + 1] = m
    BY <1>0, <1>1, AppendProperties DEF n
<1>5. m.kind = "ApiVersion" => \A v \in Feed!AnnouncedVersions(out) : m.ver > v
  <2> SUFFICES ASSUME m.kind = "ApiVersion", NEW i \in 1 .. n, out[i].kind = "ApiVersion" PROVE m.ver > out[i].ver
      BY DEF Feed!AnnouncedVersions, n
  <2>1. out[i].ver < m.ver
      BY <1>2, <1>3 DEF Follows
  <2>2. out[i] \in Messages
      BY <1>0 DEF n
  <2>3. out[i].ver \in Nat /\ m.ver \in Nat
      BY <1>1, <2>2 DEF Messages
  <2> QED BY <2>1, <2>3
<1>6. m.kind \notin {"ApiVersion", "SidecarShutdown"} => \E v \in Feed!AnnouncedVersions(out) : v >= m.ver
  <2> SUFFICES ASSUME m.kind \notin {"ApiVersion", "SidecarShutdown"}
               PROVE  \E v \in Feed!AnnouncedVersions(out) : v >= m.ver
      OBVIOUS
  <2>1. PICK i \in 1 .. n : Passed[i].kind = "ApiVersion" /\ Passed[i].ver >= m.ver
      BY <1>3 DEF Follows
  <2>2. out[i].ver \in Feed!AnnouncedVersions(out) /\ out[i].ver >= m.ver
      BY <1>2, <2>1 DEF Feed!AnnouncedVersions, n
  <2> QED BY <2>2
<1>7. m.kind = "SidecarShutdown" => \A i \in 1 .. Len(out) : out[i].kind # "SidecarShutdown"
    BY <1>2, <1>3 DEF Follows, n
<1>8. Feed!Announce(m) \/ Feed!Event(m) \/ Feed!AnnounceEnd(m)
    BY <1>0, <1>5, <1>6, <1>7 DEF Feed!Announce, Feed!Event, Feed!AnnounceEnd
<1>9. Len(out') = Len(out) + 1 /\ out'[Len(out')] = m
    BY <1>4 DEF n
<1> QED BY <1>0, <1>8, <1>9 DEF Feed!FeedNext, Running

LEMMA StepFeeds ==
    TypeInv /\ FeedInv /\ [Next]_vars => [Feed!FeedNext]_<<out, phase = "exited">>
<1> SUFFICES ASSUME TypeInv, FeedInv, [Next]_vars PROVE [Feed!FeedNext]_<<out, phase = "exited">>
    OBVIOUS
<1>1. CASE Broadcast
    BY <1>1, BroadcastFeeds DEF TypeInv
<1>2. CASE Crash
    BY <1>2 DEF Crash, Feed!FeedNext, Feed!Restart
<1>3. CASE Exit
    BY <1>3 DEF Exit, Feed!FeedNext
<1>4. CASE SendShutdown
    BY <1>4 DEF SendShutdown
<1>5. CASE UNCHANGED <<out, phase>>
    BY <1>5
<1>6. Broadcast \/ Crash \/ Exit \/ SendShutdown \/ UNCHANGED <<out, phase>>
    BY DEF Next, Work, Save, Listener, Connect, Deliver, Disconnect, GiveUp, Send, Forward, Finish, Take,
           StoreVersion, Announce, InsertEventLog, InsertEntity, Commit, SaveFails, Notify, PassOn, StartFails, vars
<1> QED BY <1>1, <1>2, <1>3, <1>4, <1>5, <1>6

\* The processors implement OutboundFeed for any number of nodes: whatever versions
\* the nodes announce and however their workers interleave at the lock, what
\* reaches broadcast() announces strictly newer versions, covers every event with a
\* version at least as new as its connection's, and ends once.
THEOREM FeedRefinement ==
    Spec => ImplementsFeed
<1>1. Init => Feed!FeedInit
    BY DEF Init, Feed!FeedInit
<1> QED BY <1>1, StepFeeds, TypeInvHolds, FeedInvHolds, PTL DEF Spec, ImplementsFeed, Feed!FeedSpec
-----------------------------------------------------------------------------
\* Who waits for whom.

OutboundFull == open /\ Len(outbound) = OutboundSize

\* Nothing keeps the worker of node s from its next step.
Ready(s) ==
    /\ worker[s].at # "idle"
    /\ worker[s].at = "locking" => lock = None
    /\ worker[s].at \in {"announcing", "sending"} => ~OutboundFull
    /\ worker[s].at = "saving" => \E key \in RowKeys(s) : db = "sqlite" => MayInsert(s, key)
    /\ worker[s].at = "inserting" => \E key \in RowKeys(s) : MayInsert(s, key)

\* The worker of s waits for the lock or for the transaction of the worker of r.
WaitsFor(s, r) ==
    \/ worker[s].at = "locking" /\ lock = r
    \/ worker[s].at \in {"saving", "inserting"} /\ r # s /\ tx[r] # NoRows

\* A worker that cannot go on waits for room in the outbound channel, or for another
\* worker that can go on itself: the waits for the lock, for the transactions and for
\* the channel form no cycle, and no chain of more than two workers.
WaitsEnd ==
    Running => \A s \in Sources : worker[s].at # "idle" =>
        Ready(s) \/ OutboundFull \/ \E r \in Sources : WaitsFor(s, r) /\ Ready(r)

\* sqlite has one writer at a time.
OneWriter ==
    db = "sqlite" => \A r, s \in Sources : tx[r] # NoRows /\ tx[s] # NoRows => r = s

LEMMA OneWriterStep ==
    TypeInv /\ OneWriter /\ [Next]_vars => OneWriter'
<1> SUFFICES ASSUME TypeInv, OneWriter, [Next]_vars PROVE OneWriter'
    OBVIOUS
<1>db. db' = db
    <2>1. ASSUME NEW s \in Sources, Listener(s) \/ Forward(s) \/ Finish(s) \/ Take(s) PROVE db' = db
        BY <2>1 DEF Listener, Connect, Deliver, Disconnect, GiveUp, Send, Forward, Finish, Take, storage
    <2>2. ASSUME NEW s \in Sources, Work(s) \/ SaveFails(s) PROVE db' = db
        BY <2>2 DEF Work, Save, StoreVersion, Announce, InsertEventLog, InsertEntity, Commit, SaveFails, Notify,
                    PassOn, storage
    <2>3. CASE Broadcast \/ StartFails \/ SendShutdown \/ Exit \/ Crash \/ UNCHANGED vars
        BY <2>3 DEF Broadcast, StartFails, SendShutdown, Exit, Crash, vars, storage
    <2> QED BY <2>1, <2>2, <2>3 DEF Next
<1> SUFFICES ASSUME db = "sqlite"
             PROVE  \A r, s \in Sources : tx'[r] # NoRows /\ tx'[s] # NoRows => r = s
    BY <1>db DEF OneWriter
<1>0. TypeOK
    BY DEF TypeInv
<1>1. CASE UNCHANGED tx
    BY <1>1 DEF OneWriter
<1>2. ASSUME NEW s \in Sources, Rollback(s)
      PROVE  \A q, r \in Sources : tx'[q] # NoRows /\ tx'[r] # NoRows => q = r
    BY <1>0, <1>2, RollbackFacts DEF OneWriter
<1>3. ASSUME NEW s \in Sources, NEW key, MayInsert(s, key), \A r \in Sources \ {s} : tx'[r] = tx[r]
      PROVE  \A q, r \in Sources : tx'[q] # NoRows /\ tx'[r] # NoRows => q = r
    BY <1>3 DEF MayInsert
<1>4. ASSUME NEW s \in Sources, InsertEventLog(s) \/ InsertEntity(s)
      PROVE  \A q, r \in Sources : tx'[q] # NoRows /\ tx'[r] # NoRows => q = r
    <2>1. CASE Rollback(s)
        BY <1>2, <2>1
    <2>2. ASSUME NEW key, MayInsert(s, key),
                 \/ tx' = [tx EXCEPT ![s].log = {[source |-> s, key |-> key]}]
                 \/ tx' = [tx EXCEPT ![s].rows = {key}]
          PROVE  \A q, r \in Sources : tx'[q] # NoRows /\ tx'[r] # NoRows => q = r
        <3>1. \A r \in Sources \ {s} : tx'[r] = tx[r]
            BY <1>0, <2>2 DEF TypeOK
        <3> QED BY <1>3, <2>2, <3>1
    <2> QED BY <1>4, <2>1, <2>2 DEF InsertEventLog, InsertEntity, Duplicate
<1>5. CASE Exit \/ Crash
    <2>1. \A s \in Sources : tx'[s] = NoRows
        BY <1>5 DEF Exit, Crash, Volatile
    <2> QED BY <2>1
<1>6. \/ UNCHANGED tx \/ Exit \/ Crash
      \/ \E s \in Sources : Rollback(s) \/ InsertEventLog(s) \/ InsertEntity(s)
    BY DEF Next, Work, Save, Listener, Connect, Deliver, Disconnect, GiveUp, Send, Forward, Finish, Take,
           StoreVersion, Announce, Commit, SaveFails, Notify, PassOn, Broadcast,
           StartFails, SendShutdown, vars
<1> QED BY <1>1, <1>2, <1>4, <1>5, <1>6

LEMMA OneWriterHolds ==
    Spec => []OneWriter
<1>1. Init => OneWriter
    BY DEF Init, Volatile, OneWriter
<1> QED BY <1>1, TypeInvHolds, OneWriterStep, PTL DEF Spec

LEMMA HasRowKey ==
    ASSUME NEW s \in Sources PROVE \E key : key \in RowKeys(s)
BY PipelineAssumption DEF RowKeys

LEMMA WaitsEndHere ==
    ASSUME StoreInv, LockInv, OneWriter, Running, NEW s \in Sources, worker[s].at # "idle", ~OutboundFull, ~Ready(s)
    PROVE  \E r \in Sources : WaitsFor(s, r) /\ Ready(r)
<1>1. worker[s].at \in {"locking", "saving", "inserting"}
    BY DEF Ready, StoreInv, TypeInv, TypeOK
<1>2. ASSUME NEW r \in Sources, tx[r] # NoRows PROVE worker[r].at \in {"inserting", "committing"}
    BY <1>2 DEF StoreInv, TransactionsOpen, TransactionOpen
<1>3. CASE worker[s].at = "locking"
    <2>1. lock # None /\ lock \in Sources
        BY <1>3 DEF Ready, StoreInv, TypeInv, TypeOK
    <2>2. worker[lock].at = "announcing"
        BY <2>1 DEF LockInv
    <2> QED BY <1>3, <2>1, <2>2 DEF WaitsFor, Ready
<1>4. CASE db = "sqlite" /\ worker[s].at \in {"saving", "inserting"}
    <2>1. PICK key : key \in RowKeys(s)
        BY HasRowKey
    <2>2. ~MayInsert(s, key)
        BY <1>4, <2>1 DEF Ready
    <2>3. PICK r \in Sources \ {s} : tx[r] # NoRows
        BY <1>4, <2>2 DEF MayInsert
    <2>4. worker[r].at \in {"inserting", "committing"}
        BY <1>2, <2>3
    <2>5. \A q \in Sources \ {r} : tx[q] = NoRows
        BY <1>4, <2>3 DEF OneWriter
    <2>6. \A k : MayInsert(r, k)
        BY <1>4, <2>5 DEF MayInsert
    <2>7. Ready(r)
        BY <2>4, <2>6, HasRowKey DEF Ready
    <2> QED BY <1>4, <2>3, <2>7 DEF WaitsFor
<1>5. CASE db # "sqlite" /\ worker[s].at \in {"saving", "inserting"}
    <2>1. PICK key : key \in RowKeys(s)
        BY HasRowKey
    <2>2. worker[s].at = "inserting" /\ ~MayInsert(s, key)
        BY <1>5, <2>1 DEF Ready
    <2>3. PICK r \in Sources \ {s} : key \in tx[r].rows
        BY <1>5, <2>2 DEF MayInsert
    <2>4. tx[r] # NoRows
        BY <2>3, MessageTypes DEF NoRows
    <2>5. worker[r].at = "committing"
        BY <1>2, <2>3, <2>4 DEF StoreInv, TransactionsOpen, TransactionOpen
    <2> QED BY <1>5, <2>3, <2>4, <2>5 DEF WaitsFor, Ready
<1> QED BY <1>1, <1>3, <1>4, <1>5

\* The workers never wait for one another in a circle, whatever the database and the
\* number of nodes: who cannot go on waits for one who can, or for the broadcasting task.
THEOREM NoCircularWait ==
    Spec => []WaitsEnd
<1>1. StoreInv /\ LockInv /\ OneWriter => WaitsEnd
    BY WaitsEndHere DEF WaitsEnd
<1> QED BY <1>1, StoreInvHolds, LockInvHolds, OneWriterHolds, PTL

-----------------------------------------------------------------------------
\* How many steps an event takes.

StepRank(step) ==
    CASE step = "idle" -> 0
      [] step \in {"sending", "announcing"} -> 1
      [] step \in {"notifying", "locking"} -> 2
      [] step = "committing" -> 3
      [] step = "inserting" -> 4
      [] OTHER -> 5

\* A step of a worker, also one that fails, brings its event nearer to the end, so that
\* an event takes at most five; and nothing but its own steps and the end of the process
\* changes where a worker is, nor gives it another event.  HandlingEnds rests on it.
HandlingGetsOn ==
    [][\A s \in Sources : worker[s].at # "idle" =>
          \/ worker'[s] = worker[s] /\ ~Work(s) /\ ~SaveFails(s)
          \/ worker'[s].at = "idle"
          \/ StepRank(worker'[s].at) < StepRank(worker[s].at) /\ worker'[s].event = worker[s].event]_vars

LEMMA WorkRanks ==
    ASSUME TypeInv, NEW s \in Sources, Work(s) \/ SaveFails(s)
    PROVE  \/ worker'[s].at = "idle"
           \/ StepRank(worker'[s].at) < StepRank(worker[s].at) /\ worker'[s].event = worker[s].event
<1>0. TypeOK
    BY DEF TypeInv
<1>1. ASSUME NEW step \in Steps, Goto(s, step), StepRank(step) < StepRank(worker[s].at)
      PROVE  StepRank(worker'[s].at) < StepRank(worker[s].at) /\ worker'[s].event = worker[s].event
    BY <1>0, <1>1, GotoFacts
<1>2. ASSUME Done(s) PROVE worker'[s].at = "idle"
    BY <1>0, <1>2, DoneFacts
<1>3. CASE StoreVersion(s)
    <2>1. Done(s) \/ (Goto(s, "announcing") /\ StepRank("announcing") < StepRank(worker[s].at))
        BY <1>3 DEF StoreVersion, StepRank
    <2> QED BY <1>1, <1>2, <2>1 DEF Steps
<1>4. CASE Announce(s) \/ PassOn(s) \/ SaveFails(s)
    BY <1>2, <1>4 DEF Announce, PassOn, SaveFails
<1>5. CASE InsertEventLog(s)
    <2>1. Done(s) \/ \E step \in {"sending", "inserting"} : Goto(s, step) /\ StepRank(step) < StepRank(worker[s].at)
        BY <1>5 DEF InsertEventLog, Duplicate, StepRank
    <2> QED BY <1>1, <1>2, <2>1 DEF Steps
<1>6. CASE InsertEntity(s)
    <2>1. Done(s) \/ \E step \in {"sending", "committing"} : Goto(s, step) /\ StepRank(step) < StepRank(worker[s].at)
        BY <1>6 DEF InsertEntity, Duplicate, StepRank
    <2> QED BY <1>1, <1>2, <2>1 DEF Steps
<1>7. CASE Commit(s) \/ Notify(s)
    <2>1. \E step \in {"sending", "notifying"} : Goto(s, step) /\ StepRank(step) < StepRank(worker[s].at)
        BY <1>7 DEF Commit, Notify, AfterSave, StepRank
    <2> QED BY <1>1, <2>1 DEF Steps
<1> QED BY <1>3, <1>4, <1>5, <1>6, <1>7 DEF Work, Save

LEMMA OthersLeave ==
    ASSUME TypeInv, NEW s \in Sources, worker[s].at # "idle", Next, ~Work(s), ~SaveFails(s)
    PROVE  worker'[s] = worker[s] \/ worker'[s].at = "idle"
<1>0. TypeOK
    BY DEF TypeInv
<1>1. CASE UNCHANGED worker
    BY <1>1
<1>2. CASE Crash
    BY <1>2 DEF Crash, Volatile
<1>3. ASSUME NEW r \in Sources, Take(r) PROVE worker'[s] = worker[s]
    BY <1>0, <1>3 DEF Take, TypeOK
<1>4. ASSUME NEW r \in Sources, Work(r) \/ SaveFails(r) PROVE worker'[s] = worker[s]
    <2>1. Done(r) \/ \E step \in Steps : Goto(r, step)
        BY <1>4 DEF Work, Save, StoreVersion, Announce, InsertEventLog, InsertEntity, Duplicate, Commit, AfterSave,
                    Notify, PassOn, SaveFails, Steps
    <2>2. r # s
        BY <1>4
    <2> QED BY <1>0, <2>1, <2>2, DoneFacts, GotoFacts
<1>5. \/ UNCHANGED worker \/ Crash
      \/ \E r \in Sources : Take(r) \/ Work(r) \/ SaveFails(r)
    BY DEF Next, Listener, Connect, Deliver, Disconnect, GiveUp, Send, Forward, Finish, Broadcast,
           StartFails, SendShutdown, Exit
<1> QED BY <1>1, <1>2, <1>3, <1>4, <1>5

\* Every event is handled in at most five steps of its worker, whoever else runs.
THEOREM HandlingIsShort ==
    Spec => HandlingGetsOn
<1>1. ASSUME TypeInv, Next, NEW s \in Sources, worker[s].at # "idle"
      PROVE  \/ worker'[s] = worker[s] /\ ~Work(s) /\ ~SaveFails(s)
             \/ worker'[s].at = "idle"
             \/ StepRank(worker'[s].at) < StepRank(worker[s].at) /\ worker'[s].event = worker[s].event
    <2>1. CASE Work(s) \/ SaveFails(s)
        BY <1>1, <2>1, WorkRanks
    <2>2. CASE ~Work(s) /\ ~SaveFails(s)
        BY <1>1, <2>2, OthersLeave
    <2> QED BY <2>1, <2>2
<1>2. TypeInv /\ [Next]_vars =>
        [\A s \in Sources : worker[s].at # "idle" =>
            \/ worker'[s] = worker[s] /\ ~Work(s) /\ ~SaveFails(s)
            \/ worker'[s].at = "idle"
            \/ StepRank(worker'[s].at) < StepRank(worker[s].at) /\ worker'[s].event = worker[s].event]_vars
    BY <1>1
<1> QED BY <1>2, TypeInvHolds, PTL DEF Spec, HandlingGetsOn
=============================================================================
