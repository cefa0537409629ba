-------------------------- MODULE NodeClientProofs --------------------------
(***************************************************************************)
(* What holds of the node client for every number of callers, every size   *)
(* of the id space and every configuration of the timeouts and attempts.   *)
(***************************************************************************)
EXTENDS NodeClient, TLAPS, SequenceTheorems

-----------------------------------------------------------------------------
\* Facts about ids and about sequences of messages.

\* Taking an id makes every id that is in use one older.
LEMMA NextIdSpec ==
    ASSUME NEW id \in Ids
    PROVE  /\ NextId(id) \in Ids
           /\ IdBefore(NextId(id), 1) = id
           /\ \A k \in 1 .. IdCount - 1 : IdBefore(NextId(id), k + 1) = IdBefore(id, k)
    BY NodeClientAssumption DEF NextId, IdBefore, Ids

\* The last id differs from every older one that is still in use.
LEMMA IdsDistinct ==
    ASSUME NEW id \in Ids, NEW k \in 1 .. IdCount, IdBefore(id, k) = IdBefore(id, 1)
    PROVE  k = 1
    BY NodeClientAssumption DEF IdBefore, Ids

LEMMA MessageFields ==
    ASSUME NEW s \in Seq(Messages), NEW i \in 1 .. Len(s)
    PROVE  s[i] \in Messages /\ s[i].id \in Ids /\ s[i].age \in 1 .. IdCount
           /\ s[i].form \in Forms
<1>1. s[i] \in Messages
    OBVIOUS
<1> QED BY <1>1 DEF Messages

\* Messages get older one by one, and keep their order.
LEMMA OlderSpec ==
    ASSUME NEW s \in Seq(Messages), Younger(s, IdCount)
    PROVE  /\ Older(s) \in Seq(Messages)
           /\ Len(Older(s)) = Len(s)
           /\ \A i \in 1 .. Len(s) : Older(s)[i].id = s[i].id /\ Older(s)[i].age = s[i].age + 1
<1> DEFINE old(i) == [id |-> s[i].id, age |-> s[i].age + 1, form |-> s[i].form]
<1>1. DOMAIN s = 1 .. Len(s) /\ Len(s) \in Nat
    OBVIOUS
<1>2. ASSUME NEW i \in 1 .. Len(s) PROVE old(i) \in Messages
    <2>1. s[i].id \in Ids /\ s[i].age \in 1 .. IdCount /\ s[i].form \in Forms
        BY MessageFields
    <2>2. s[i].age + 1 \in 1 .. IdCount
        BY <2>1, NodeClientAssumption DEF Younger
    <2> QED BY <2>1, <2>2 DEF Messages
<1>3. Older(s) = [i \in 1 .. Len(s) |-> old(i)]
    BY <1>1 DEF Older
<1>4. \A i \in 1 .. Len(s) : old(i).id = s[i].id /\ old(i).age = s[i].age + 1
    OBVIOUS
<1> HIDE DEF old
<1>5. Older(s) \in Seq(Messages) /\ Len(Older(s)) = Len(s)
    BY <1>1, <1>2, <1>3
<1> QED BY <1>3, <1>4, <1>5

LEMMA OlderInOrder ==
    ASSUME NEW s \in Seq(Messages), Younger(s, IdCount), NEW id \in Ids, InOrder(id, s)
    PROVE  InOrder(NextId(id), Older(s))
<1> DEFINE o == Older(s)
<1>1. /\ Len(o) = Len(s)
      /\ \A i \in 1 .. Len(s) : o[i].id = s[i].id /\ o[i].age = s[i].age + 1
    BY OlderSpec
<1>2. \A i \in 1 .. Len(s) : s[i].age \in 1 .. IdCount
    BY MessageFields
<1> HIDE DEF o
<1>3. ASSUME NEW i \in 1 .. Len(s) PROVE o[i].id = IdBefore(NextId(id), o[i].age)
    <2>1. s[i].age \in 1 .. IdCount - 1
        BY <1>2, NodeClientAssumption DEF Younger
    <2>2. IdBefore(NextId(id), s[i].age + 1) = IdBefore(id, s[i].age)
        BY <2>1, NextIdSpec
    <2>3. s[i].id = IdBefore(id, s[i].age)
        BY DEF InOrder
    <2> QED BY <1>1, <2>2, <2>3
<1>4. ASSUME NEW i \in 1 .. Len(s), NEW j \in 1 .. Len(s), i < j PROVE o[i].age > o[j].age
    BY <1>1, <1>2, <1>4, NodeClientAssumption DEF InOrder
<1>5. InOrder(NextId(id), o)
    BY <1>1, <1>3, <1>4 DEF InOrder
<1> QED BY <1>5 DEF o

\* The youngest message may be appended.
LEMMA AppendInOrder ==
    ASSUME NEW s \in Seq(Messages), NEW m \in Messages, NEW id \in Ids, InOrder(id, s),
           m.id = IdBefore(id, m.age), \A i \in 1 .. Len(s) : s[i].age > m.age
    PROVE  /\ Append(s, m) \in Seq(Messages)
           /\ InOrder(id, Append(s, m))
           /\ Len(Append(s, m)) = Len(s) + 1
           /\ Append(s, m)[Len(s) + 1] = m
           /\ \A i \in 1 .. Len(s) : Append(s, m)[i] = s[i]
<1> DEFINE p == Append(s, m)
<1>1. /\ p \in Seq(Messages) /\ Len(s) \in Nat /\ Len(p) = Len(s) + 1
      /\ p[Len(s) + 1] = m /\ \A i \in 1 .. Len(s) : p[i] = s[i]
    BY AppendProperties
<1> HIDE DEF p
<1>2. ASSUME NEW i \in 1 .. Len(p) PROVE p[i].id = IdBefore(id, p[i].age)
    BY <1>1 DEF InOrder
<1>3. ASSUME NEW i \in 1 .. Len(p), NEW j \in 1 .. Len(p), i < j PROVE p[i].age > p[j].age
    <2>1. i \in 1 .. Len(s) /\ (j \in 1 .. Len(s) \/ j = Len(s) + 1)
        BY <1>1, <1>3
    <2> QED BY <1>1, <1>3, <2>1 DEF InOrder
<1>4. InOrder(id, p)
    BY <1>2, <1>3 DEF InOrder
<1> QED BY <1>1, <1>4 DEF p

\* The oldest message may be taken off.
LEMMA TailInOrder ==
    ASSUME NEW s \in Seq(Messages), s # <<>>, NEW id \in Ids, InOrder(id, s)
    PROVE  /\ Tail(s) \in Seq(Messages)
           /\ InOrder(id, Tail(s))
           /\ Len(s) \in Nat \ {0} /\ Len(Tail(s)) = Len(s) - 1
           /\ \A i \in 1 .. Len(s) - 1 : Tail(s)[i] = s[i + 1]
           /\ Younger(Tail(s), Head(s).age)
           /\ Head(s) = s[1] /\ Head(s) \in Messages
           /\ Head(s).id = IdBefore(id, Head(s).age)
<1> DEFINE r == Tail(s)
<1>1. /\ r \in Seq(Messages) /\ Len(s) \in Nat \ {0} /\ Len(r) = Len(s) - 1
      /\ Head(s) = s[1] /\ \A i \in 1 .. Len(s) - 1 : r[i] = s[i + 1]
    BY HeadTailProperties
<1>2. s[1] \in Messages /\ s[1].id = IdBefore(id, s[1].age)
    BY <1>1, MessageFields DEF InOrder
<1> HIDE DEF r
<1>3. ASSUME NEW i \in 1 .. Len(r)
      PROVE  r[i] = s[i + 1] /\ i + 1 \in 1 .. Len(s)
    BY <1>1
<1>4. \A i \in 1 .. Len(r) : r[i].id = IdBefore(id, r[i].age)
    BY <1>3 DEF InOrder
<1>5. ASSUME NEW i \in 1 .. Len(r), NEW j \in 1 .. Len(r), i < j PROVE r[i].age > r[j].age
    BY <1>1, <1>3, <1>5 DEF InOrder
<1>6. InOrder(id, r)
    BY <1>4, <1>5 DEF InOrder
<1>7. ASSUME NEW i \in 1 .. Len(r) PROVE r[i].age < s[1].age
    <2>1. 1 \in 1 .. Len(s) /\ i + 1 \in 1 .. Len(s) /\ 1 < i + 1
        BY <1>1
    <2>2. s[1].age > s[i + 1].age
        BY <2>1 DEF InOrder
    <2>3. s[1].age \in Int /\ s[i + 1].age \in Int
        BY <2>1, MessageFields
    <2> QED BY <1>3, <2>2, <2>3
<1> QED BY <1>1, <1>2, <1>6, <1>7 DEF r, Younger

-----------------------------------------------------------------------------
\* What the steps do to the connection.

ConnectionInv ==
    /\ current_request_id \in Ids /\ requests \in Seq(Messages) /\ answers \in Seq(Messages)
    /\ ConnectionInOrder

\* A step that leaves the connection and the ids alone.
LEMMA ConnectionKept ==
    ASSUME ConnectionInv, UNCHANGED <<requests, answers, current_request_id>>
    PROVE  ConnectionInv' /\ \A age \in Int : AllYounger(age)' <=> AllYounger(age)
    BY DEF ConnectionInv, ConnectionInOrder, AllYounger

\* A step that leaves nothing on the connection.
LEMMA ConnectionEmptied ==
    ASSUME current_request_id' \in Ids, requests' = <<>>, answers' = <<>>
    PROVE  ConnectionInv' /\ \A age \in Int : AllYounger(age)'
    BY DEF ConnectionInv, ConnectionInOrder, InOrder, Precede, Younger, AllYounger

\* A step that loses the requests and keeps the answers.
LEMMA ConnectionLost ==
    ASSUME ConnectionInv, UNCHANGED <<answers, current_request_id>>, requests' = <<>>
    PROVE  ConnectionInv' /\ \A age \in Int : AllYounger(age) => AllYounger(age)'
    BY DEF ConnectionInv, ConnectionInOrder, InOrder, Precede, Younger, AllYounger

\* A step that takes an id, with or without putting the payload on the connection.
LEMMA ConnectionAged ==
    ASSUME ConnectionInv, AllYounger(IdCount), TakeId,
           answers' = Older(answers),
           \/ requests' = Older(requests)
           \/ requests' = Append(Older(requests), Payload)
    PROVE  /\ ConnectionInv'
           /\ IdBefore(current_request_id', 1) = current_request_id
           /\ AllYounger(1) => AllYounger(2)'
<1> DEFINE id == current_request_id'
           q == Older(requests)
<1>1. /\ id = NextId(current_request_id) /\ id \in Ids
      /\ IdBefore(id, 1) = current_request_id
    BY NextIdSpec DEF ConnectionInv, TakeId
<1>2. /\ q \in Seq(Messages) /\ Len(q) = Len(requests) /\ InOrder(id, q)
      /\ \A i \in 1 .. Len(requests) : q[i].age = requests[i].age + 1
    BY <1>1, OlderSpec, OlderInOrder DEF ConnectionInv, ConnectionInOrder, AllYounger
<1>3. /\ answers' \in Seq(Messages) /\ Len(answers') = Len(answers) /\ InOrder(id, answers')
      /\ \A i \in 1 .. Len(answers) : answers'[i].age = answers[i].age + 1
    BY <1>1, OlderSpec, OlderInOrder DEF ConnectionInv, ConnectionInOrder, AllYounger
<1>4. /\ \A i \in 1 .. Len(requests) : requests[i].age \in 1 .. IdCount
      /\ \A i \in 1 .. Len(answers) : answers[i].age \in 1 .. IdCount
      /\ Len(requests) \in Nat /\ Len(answers) \in Nat
    BY MessageFields DEF ConnectionInv
<1>5. Payload \in Messages /\ Payload.id = current_request_id /\ Payload.age = 1
    BY NodeClientAssumption DEF Payload, Messages, Forms, ConnectionInv
<1>6. \A i \in 1 .. Len(q) : q[i].age > 1
    BY <1>2, <1>4, NodeClientAssumption
<1> HIDE DEF q
<1>7. /\ requests' \in Seq(Messages) /\ InOrder(id, requests')
      /\ \A i \in 1 .. Len(requests') :
             \/ i \in 1 .. Len(requests) /\ requests'[i] = q[i]
             \/ requests'[i] = Payload
    <2>1. CASE requests' = q
        BY <1>2, <2>1
    <2>2. CASE requests' = Append(q, Payload)
        <3>1. /\ requests' \in Seq(Messages) /\ InOrder(id, requests')
              /\ Len(requests') = Len(q) + 1 /\ requests'[Len(q) + 1] = Payload
              /\ \A i \in 1 .. Len(q) : requests'[i] = q[i]
            BY <1>1, <1>2, <1>5, <1>6, <2>2, AppendInOrder
        <3> QED BY <1>2, <1>4, <3>1
    <2> QED BY <2>1, <2>2 DEF q
<1>8. ASSUME NEW i \in 1 .. Len(answers'), NEW j \in 1 .. Len(requests')
      PROVE  answers'[i].age > requests'[j].age
    <2>1. answers'[i].age = answers[i].age + 1 /\ answers[i].age \in 1 .. IdCount
        BY <1>3, <1>4
    <2>2. CASE j \in 1 .. Len(requests) /\ requests'[j] = q[j]
        <3>1. answers[i].age > requests[j].age
            BY <1>3, <2>2 DEF ConnectionInv, ConnectionInOrder, Precede
        <3> QED BY <1>2, <1>4, <2>1, <2>2, <3>1, NodeClientAssumption
    <2>3. CASE requests'[j] = Payload
        BY <1>5, <2>1, <2>3, NodeClientAssumption
    <2> QED BY <1>7, <2>2, <2>3
<1>9. ASSUME AllYounger(1) PROVE AllYounger(2)'
    <2>1. Len(requests) = 0 /\ Len(answers) = 0
        BY <1>4, <1>9, NodeClientAssumption DEF AllYounger, Younger
    <2>2. ASSUME NEW i \in 1 .. Len(requests') PROVE requests'[i].age < 2
        BY <1>5, <1>7, <2>1
    <2> QED BY <1>3, <2>1, <2>2 DEF AllYounger, Younger
<1> QED BY <1>1, <1>3, <1>7, <1>8, <1>9 DEF ConnectionInv, ConnectionInOrder, Precede

\* A step that reads the oldest answer.
LEMMA ConnectionRead ==
    ASSUME ConnectionInv, answers # <<>>, answers' = Tail(answers),
           UNCHANGED <<requests, current_request_id>>
    PROVE  /\ ConnectionInv'
           /\ \A age \in Int : AllYounger(age) => AllYounger(age)'
           /\ AllYounger(IdCount)'
           /\ Head(answers) \in Messages
           /\ Head(answers).id = IdBefore(current_request_id, Head(answers).age)
<1>1. /\ answers' \in Seq(Messages) /\ InOrder(current_request_id, answers')
      /\ Len(answers) \in Nat \ {0} /\ Len(answers') = Len(answers) - 1
      /\ \A i \in 1 .. Len(answers) - 1 : answers'[i] = answers[i + 1]
      /\ Younger(answers', Head(answers).age)
      /\ Head(answers) = answers[1] /\ Head(answers) \in Messages
      /\ Head(answers).id = IdBefore(current_request_id, Head(answers).age)
    BY TailInOrder DEF ConnectionInv, ConnectionInOrder
<1>2. ASSUME NEW i \in 1 .. Len(answers')
      PROVE  i + 1 \in 1 .. Len(answers) /\ answers'[i] = answers[i + 1]
    BY <1>1
<1>3. Precede(answers', requests')
    BY <1>2 DEF Precede, ConnectionInv, ConnectionInOrder
<1>4. ASSUME NEW age \in Int, AllYounger(age) PROVE AllYounger(age)'
    BY <1>2, <1>4 DEF AllYounger, Younger
<1>5. AllYounger(IdCount)'
    <2>1. 1 \in 1 .. Len(answers) /\ answers[1].age \in 1 .. IdCount
        BY <1>1, MessageFields DEF ConnectionInv
    <2>2. ASSUME NEW j \in 1 .. Len(requests) PROVE requests[j].age < IdCount
        <3>1. answers[1].age > requests[j].age /\ requests[j].age \in Int
            BY <2>1, MessageFields DEF Precede, ConnectionInv, ConnectionInOrder
        <3> QED BY <2>1, <3>1, NodeClientAssumption
    <2>3. ASSUME NEW i \in 1 .. Len(answers') PROVE answers'[i].age < IdCount
        <3>1. answers'[i].age < answers[1].age /\ answers'[i].age \in Int
            BY <1>1, MessageFields DEF Younger
        <3> QED BY <2>1, <3>1, NodeClientAssumption
    <2> QED BY <2>2, <2>3 DEF AllYounger, Younger
<1> QED BY <1>1, <1>3, <1>4, <1>5 DEF ConnectionInv, ConnectionInOrder

\* A step that answers the oldest request.
LEMMA ConnectionAnswered ==
    ASSUME ConnectionInv, requests # <<>>, requests' = Tail(requests),
           NEW form \in Forms,
           answers' = Append(answers, [Head(requests) EXCEPT !.form = form]),
           UNCHANGED current_request_id
    PROVE  ConnectionInv' /\ \A age \in Int : AllYounger(age) => AllYounger(age)'
<1> DEFINE m == [Head(requests) EXCEPT !.form = form]
<1>1. /\ requests' \in Seq(Messages) /\ InOrder(current_request_id, requests')
      /\ Len(requests) \in Nat \ {0} /\ Len(requests') = Len(requests) - 1
      /\ \A i \in 1 .. Len(requests) - 1 : requests'[i] = requests[i + 1]
      /\ Younger(requests', Head(requests).age)
      /\ Head(requests) = requests[1] /\ Head(requests) \in Messages
      /\ Head(requests).id = IdBefore(current_request_id, Head(requests).age)
    BY TailInOrder DEF ConnectionInv, ConnectionInOrder
<1>2. m \in Messages /\ m.id = Head(requests).id /\ m.age = Head(requests).age
    BY <1>1 DEF Messages
<1>3. 1 \in 1 .. Len(requests) /\ m.age = requests[1].age
    BY <1>1, <1>2
<1>4. ASSUME NEW i \in 1 .. Len(answers) PROVE answers[i].age > m.age
    <2>1. answers[i].age > requests[1].age
        BY <1>3 DEF Precede, ConnectionInv, ConnectionInOrder
    <2> QED BY <1>3, <2>1
<1>5. m.id = IdBefore(current_request_id, m.age)
    BY <1>1, <1>2
<1> HIDE DEF m
<1>6. /\ answers' \in Seq(Messages) /\ InOrder(current_request_id, answers')
      /\ Len(answers') = Len(answers) + 1 /\ answers'[Len(answers) + 1] = m
      /\ \A i \in 1 .. Len(answers) : answers'[i] = answers[i]
    BY <1>2, <1>4, <1>5, AppendInOrder DEF ConnectionInv, ConnectionInOrder, m
<1>7. ASSUME NEW i \in 1 .. Len(answers')
      PROVE  (i \in 1 .. Len(answers) /\ answers'[i] = answers[i]) \/ answers'[i] = m
    <2>1. Len(answers) \in Nat
        BY DEF ConnectionInv
    <2> QED BY <1>6, <2>1
<1>8. ASSUME NEW j \in 1 .. Len(requests')
      PROVE  j + 1 \in 1 .. Len(requests) /\ requests'[j] = requests[j + 1]
    BY <1>1
<1>9. ASSUME NEW i \in 1 .. Len(answers'), NEW j \in 1 .. Len(requests')
      PROVE  answers'[i].age > requests'[j].age
    <2>1. CASE i \in 1 .. Len(answers) /\ answers'[i] = answers[i]
        BY <1>8, <2>1 DEF Precede, ConnectionInv, ConnectionInOrder
    <2>2. CASE answers'[i] = m
        <3>1. requests'[j].age < requests[1].age
            BY <1>1 DEF Younger
        <3>2. requests'[j].age \in Int /\ requests[1].age \in Int
            BY <1>1, <1>3, MessageFields DEF ConnectionInv
        <3> QED BY <1>3, <2>2, <3>1, <3>2
    <2> QED BY <1>7, <2>1, <2>2
<1>10. ASSUME NEW age \in Int, AllYounger(age) PROVE AllYounger(age)'
    <2>1. m.age < age
        BY <1>3, <1>10 DEF AllYounger, Younger
    <2>2. Younger(answers', age)
        BY <1>7, <1>10, <2>1 DEF AllYounger, Younger
    <2>3. Younger(requests', age)
        BY <1>8, <1>10 DEF AllYounger, Younger
    <2> QED BY <2>2, <2>3 DEF AllYounger
<1> QED BY <1>1, <1>6, <1>9, <1>10 DEF ConnectionInv, ConnectionInOrder, Precede

-----------------------------------------------------------------------------
\* The inductive invariant.

\* Whoever waits can be taken out of the queue.
LEMMA WithoutSpec ==
    ASSUME TypeOK, NEW t, Waiting(t)
    PROVE  Without(queue, t) \in Seq(Lockers)
<1> DEFINE k == CHOOSE i \in DOMAIN queue : queue[i] = t
           at(j) == queue[IF j < k THEN j ELSE j + 1]
<1>1. queue \in Seq(Lockers) /\ Len(queue) \in Nat /\ DOMAIN queue = 1 .. Len(queue)
    BY DEF TypeOK
<1>2. k \in 1 .. Len(queue)
    BY <1>1 DEF Waiting
<1>3. Without(queue, t) = [j \in 1 .. Len(queue) - 1 |-> at(j)]
    BY DEF Without
<1> HIDE DEF k
<1>4. ASSUME NEW j \in 1 .. Len(queue) - 1 PROVE at(j) \in Lockers
    <2>1. (IF j < k THEN j ELSE j + 1) \in 1 .. Len(queue)
        BY <1>1, <1>2
    <2> QED BY <1>1, <2>1
<1>5. Len(queue) - 1 \in Nat
    BY <1>1, <1>2
<1> HIDE DEF at
<1> QED BY <1>3, <1>4, <1>5

\* A failed try leads to a reconnect or back to the caller.
LEMMA FailSpec ==
    ASSUME call \in Calls, Fail
    PROVE  /\ call' \in Calls
           /\ \/ /\ call.try = 1 /\ call'.step = "closing" /\ call'.try = 1
                 /\ UNCHANGED <<holder, returned>>
              \/ /\ call.try = 2 /\ call' = NoCall
                 /\ holder' = NoTask /\ returned' = "error"
<1>1. NoCall \in Calls
    BY NodeClientAssumption DEF NoCall, Calls, Ids
<1>2. CASE call.try = 1 /\ call' = [call EXCEPT !.step = "closing"] /\ UNCHANGED <<holder, returned>>
    BY <1>2 DEF Calls
<1>3. CASE call.try = 2 /\ Return("error")
    BY <1>1, <1>3 DEF Return, Release
<1> QED BY <1>2, <1>3 DEF Fail

\* The connection after a step in which the call has failed.
LEMMA FailKeepsBound ==
    ASSUME call \in Calls, holder # NoTask, Fail,
           call.try = 2 => AllYounger(2)', AllYounger(2)' => AllYounger(IdCount)'
    PROVE  LeftOversBounded'
<1>1. CASE /\ call.try = 1 /\ call'.step = "closing" /\ call'.try = 1
           /\ UNCHANGED <<holder, returned>>
    BY <1>1 DEF LeftOversBounded
<1>2. CASE /\ call.try = 2 /\ call' = NoCall
           /\ holder' = NoTask /\ returned' = "error"
    BY <1>2 DEF LeftOversBounded, NoCall
<1> QED BY <1>1, <1>2, FailSpec

\* A bound on the ages holds for every greater one.
LEMMA YoungerMonotone ==
    ASSUME ConnectionInv, NEW a \in Nat, NEW b \in Nat, a <= b, AllYounger(a)
    PROVE  AllYounger(b)
<1>1. \A i \in 1 .. Len(requests) : requests[i].age \in 1 .. IdCount
    BY MessageFields DEF ConnectionInv
<1>2. \A i \in 1 .. Len(answers) : answers[i].age \in 1 .. IdCount
    BY MessageFields DEF ConnectionInv
<1> QED BY <1>1, <1>2, NodeClientAssumption DEF AllYounger, Younger

LEMMA YoungerMonotoneNext ==
    ASSUME ConnectionInv', NEW a \in Nat, NEW b \in Nat, a <= b, AllYounger(a)'
    PROVE  AllYounger(b)'
<1>1. \A i \in 1 .. Len(requests') : requests'[i].age \in 1 .. IdCount
    BY MessageFields DEF ConnectionInv
<1>2. \A i \in 1 .. Len(answers') : answers'[i].age \in 1 .. IdCount
    BY MessageFields DEF ConnectionInv
<1> QED BY <1>1, <1>2, NodeClientAssumption DEF AllYounger, Younger

\* A step that takes an id keeps the invariant, whether the call goes on or fails.
LEMMA SendingKeepsInv ==
    ASSUME AnswerInv, NEW t \in Tasks, SendPayload(t) \/ SendTimesOut(t) \/ SendFails(t)
    PROVE  AnswerInv'
<1>1. ConnectionInv
    BY DEF AnswerInv, TypeOK, ConnectionInv
<1>2. /\ holder = t /\ t # NoTask /\ call.step = "sending" /\ call \in Calls
      /\ AllYounger(IdCount) /\ (call.try = 2 => AllYounger(1))
    BY NodeClientAssumption
       DEF AnswerInv, TypeOK, LeftOversBounded, SendPayload, SendTimesOut, SendFails, Sending,
           Lockers
<1>3. /\ ConnectionInv'
      /\ IdBefore(current_request_id', 1) = current_request_id
      /\ AllYounger(1) => AllYounger(2)'
    <2>1. /\ TakeId /\ answers' = Older(answers)
          /\ requests' = Older(requests) \/ requests' = Append(Older(requests), Payload)
        BY DEF SendPayload, SendTimesOut, SendFails
    <2> QED BY <1>1, <1>2, <2>1, ConnectionAged
<1>4. AllYounger(2)' => AllYounger(IdCount)'
    BY <1>3, YoungerMonotoneNext, NodeClientAssumption
<1>5. CASE SendPayload(t)
    <2>1. call' = [call EXCEPT !.step = "receiving", !.request_id = current_request_id]
        BY <1>5 DEF SendPayload, Payload
    <2>2. /\ call' \in Calls /\ call'.step = "receiving" /\ call'.try = call.try
          /\ call'.request_id = current_request_id
        BY <1>1, <1>2, <2>1 DEF Calls, ConnectionInv
    <2>3. TypeOK'
        BY <1>3, <1>5, <2>2 DEF AnswerInv, TypeOK, SendPayload, ConnectionInv
    <2>4. LeftOversBounded'
        BY <1>2, <1>3, <1>5, <2>2 DEF LeftOversBounded, SendPayload
    <2> QED BY <1>3, <1>5, <2>3, <2>4 DEF AnswerInv, ConnectionInv, OwnAnswer, SendPayload
<1>6. CASE SendTimesOut(t) \/ SendFails(t)
    <2>1. Fail
        BY <1>6 DEF SendTimesOut, SendFails
    <2>2. TypeOK'
        BY <1>3, <1>2, <1>6, <2>1, FailSpec
           DEF AnswerInv, TypeOK, SendTimesOut, SendFails, ConnectionInv
    <2>3. LeftOversBounded'
        BY <1>2, <1>3, <1>4, <2>1, FailKeepsBound
    <2>4. OwnAnswer'
        BY <1>2, <2>1, FailSpec DEF AnswerInv, OwnAnswer
    <2> QED BY <1>3, <2>2, <2>3, <2>4 DEF AnswerInv, ConnectionInv
<1> QED BY <1>5, <1>6

\* Only the answer to the request itself is returned, and a call that fails leaves
\* a connection behind that is closed or has nothing old on it.
LEMMA ReceivingKeepsInv ==
    ASSUME AnswerInv, NEW t \in Tasks, Receive(t)
    PROVE  AnswerInv'
<1> DEFINE answer == Head(answers)
<1>1. ConnectionInv
    BY DEF AnswerInv, TypeOK, ConnectionInv
<1>2. /\ holder = t /\ t # NoTask /\ call.step = "receiving" /\ call \in Calls
      /\ call.request_id = IdBefore(current_request_id, 1)
      /\ call.try = 2 => AllYounger(2)
    BY NodeClientAssumption DEF AnswerInv, TypeOK, LeftOversBounded, Receive, Lockers
<1>3. /\ ConnectionInv'
      /\ \A age \in Int : AllYounger(age) => AllYounger(age)'
      /\ AllYounger(IdCount)'
      /\ answer \in Messages
      /\ answer.id = IdBefore(current_request_id, answer.age)
    BY <1>1, ConnectionRead DEF Receive
<1>4. /\ call.try = 2 => AllYounger(2)'
      /\ AllYounger(2)' => AllYounger(IdCount)'
    BY <1>2, <1>3, YoungerMonotoneNext, NodeClientAssumption
<1>5. CASE call.request_id = OriginalId(answer) /\ Return(WhoseAnswer(answer))
    <2>1. answer.age \in 1 .. IdCount
        BY <1>3 DEF Messages
    <2>2. answer.form # "bad_request" => answer.age = 1
        BY <1>1, <1>2, <1>3, <1>5, <2>1, IdsDistinct DEF ConnectionInv, OriginalId
    <2>3. call' = NoCall /\ holder' = NoTask /\ returned' \in {"own", "unidentified"}
        BY <1>5, <2>2 DEF Return, Release, WhoseAnswer
    <2>4. NoCall \in Calls
        BY NodeClientAssumption DEF NoCall, Calls, Ids
    <2>5. TypeOK'
        BY <1>3, <2>3, <2>4 DEF AnswerInv, TypeOK, Receive, ConnectionInv
    <2>6. LeftOversBounded'
        BY <1>3, <2>3 DEF LeftOversBounded, NoCall
    <2> QED BY <1>3, <2>3, <2>5, <2>6 DEF AnswerInv, ConnectionInv, OwnAnswer
<1>6. CASE /\ call.reads + 1 < MaxMismatched
           /\ call' = [call EXCEPT !.reads = @ + 1]
           /\ UNCHANGED <<holder, returned>>
    <2>1. /\ call' \in Calls /\ call'.step = "receiving" /\ call'.try = call.try
          /\ call'.request_id = call.request_id
        BY <1>2, <1>6, NodeClientAssumption DEF Calls
    <2>2. TypeOK'
        BY <1>3, <1>6, <2>1 DEF AnswerInv, TypeOK, Receive, ConnectionInv
    <2>3. current_request_id' = current_request_id
        BY DEF Receive
    <2>4. LeftOversBounded'
        BY <1>2, <1>4, <1>6, <2>1, <2>3 DEF LeftOversBounded
    <2> QED BY <1>3, <1>6, <2>2, <2>4 DEF AnswerInv, ConnectionInv, OwnAnswer
<1>7. CASE Fail
    <2>1. TypeOK'
        BY <1>2, <1>3, <1>7, FailSpec DEF AnswerInv, TypeOK, Receive, ConnectionInv
    <2>2. LeftOversBounded'
        BY <1>2, <1>4, <1>7, FailKeepsBound
    <2>3. OwnAnswer'
        BY <1>2, <1>7, FailSpec DEF AnswerInv, OwnAnswer
    <2> QED BY <1>3, <2>1, <2>2, <2>3 DEF AnswerInv, ConnectionInv
<1> QED BY <1>5, <1>6, <1>7 DEF Receive, IsExpected

\* A step that leaves the connection alone and ends the call or moves it to a step
\* in which nothing but the age of the left-overs is known.
LEMMA IdleConnectionKeepsInv ==
    ASSUME AnswerInv, UNCHANGED <<in_time, node, connVars, current_request_id>>, AllYounger(IdCount),
           call' \in Calls, call'.step \in {"none", "sending", "connecting"}, call'.try = 1,
           holder' = NoTask => call'.step = "none",
           holder' \in Lockers \cup {NoTask}, queue' \in Seq(Lockers),
           reconnect' \in BOOLEAN, exited' \in BOOLEAN, returned' \in {returned, "error"}
    PROVE  AnswerInv'
<1>1. ConnectionInv
    BY DEF AnswerInv, TypeOK, ConnectionInv
<1>2. ConnectionInv' /\ AllYounger(IdCount)'
    BY <1>1, ConnectionKept, NodeClientAssumption DEF connVars
<1>3. TypeOK'
    BY DEF AnswerInv, TypeOK, connVars
<1>4. LeftOversBounded'
    BY <1>2 DEF LeftOversBounded
<1>5. OwnAnswer'
    BY DEF AnswerInv, OwnAnswer
<1> QED BY <1>2, <1>3, <1>4, <1>5 DEF AnswerInv, ConnectionInv

\* A step that changes neither the connection nor the call.
LEMMA SameCallKeepsInv ==
    ASSUME AnswerInv, UNCHANGED <<in_time, connVars, current_request_id, holder, call>>,
           node' \in {"up", "stuck", "down"}, queue' \in Seq(Lockers),
           reconnect' \in BOOLEAN, exited' \in BOOLEAN, returned' \in {returned, "error"}
    PROVE  AnswerInv'
<1>1. ConnectionInv
    BY DEF AnswerInv, TypeOK, ConnectionInv
<1>2. ConnectionInv' /\ \A age \in Int : AllYounger(age)' <=> AllYounger(age)
    BY <1>1, ConnectionKept DEF connVars
<1>3. TypeOK'
    BY DEF AnswerInv, TypeOK, connVars
<1>4. LeftOversBounded'
    BY <1>2, NodeClientAssumption DEF LeftOversBounded, AnswerInv
<1>5. OwnAnswer'
    BY DEF AnswerInv, OwnAnswer
<1> QED BY <1>2, <1>3, <1>4, <1>5 DEF AnswerInv, ConnectionInv

\* A step of the node that takes messages off the connection or answers one.
LEMMA NodeKeepsInv ==
    ASSUME AnswerInv, Node
    PROVE  AnswerInv'
<1>1. ConnectionInv
    BY DEF AnswerInv, TypeOK, ConnectionInv
<1>2. ASSUME node' \in {"up", "stuck", "down"}, client' \in {"open", "broken", "closed"},
             unflushed' \in BOOLEAN, UNCHANGED clientVars, ConnectionInv',
             \A age \in Int : AllYounger(age) => AllYounger(age)'
      PROVE  AnswerInv'
    <2>1. TypeOK'
        BY <1>2 DEF AnswerInv, TypeOK, clientVars, ConnectionInv
    <2>2. LeftOversBounded'
        BY <1>2, NodeClientAssumption DEF AnswerInv, LeftOversBounded, clientVars
    <2> QED BY <1>2, <2>1, <2>2 DEF AnswerInv, ConnectionInv, OwnAnswer, clientVars
<1>3. ASSUME NEW form \in Forms, Answer(form) PROVE AnswerInv'
    <2>1. requests # <<>>
        BY <1>1, <1>3 DEF Answer, ConnectionInv
    <2>2. ConnectionInv' /\ \A age \in Int : AllYounger(age) => AllYounger(age)'
        BY <1>1, <1>3, <2>1, ConnectionAnswered DEF Answer, clientVars
    <2> QED BY <1>2, <1>3, <2>2 DEF Answer, AnswerInv, TypeOK
<1>4. CASE GoDown
    <2>1. current_request_id' = current_request_id /\ current_request_id' \in Ids
        BY <1>1, <1>4 DEF GoDown, clientVars, ConnectionInv
    <2>2. CASE client = "open" /\ Fresh("broken")
        BY <1>2, <1>4, <2>1, <2>2, ConnectionEmptied DEF GoDown, Fresh
    <2>3. CASE /\ client = "open" /\ client' = "broken"
               /\ unflushed' = FALSE /\ requests' = <<>> /\ UNCHANGED answers
        BY <1>1, <1>2, <1>4, <2>1, <2>3, ConnectionLost DEF GoDown
    <2>4. CASE client # "open" /\ UNCHANGED connVars
        BY <1>4, <2>4, SameCallKeepsInv DEF GoDown, clientVars, AnswerInv, TypeOK
    <2> QED BY <1>4, <2>2, <2>3, <2>4 DEF GoDown
<1>5. CASE ComeUp \/ GetStuck
    BY <1>5, SameCallKeepsInv DEF ComeUp, GetStuck, clientVars, AnswerInv, TypeOK
<1> QED BY <1>3, <1>4, <1>5 DEF Node

\* A step of whoever waits for the lock or holds it, other than sending and
\* receiving.
LEMMA LockKeepsInv ==
    ASSUME AnswerInv, NEW t \in Lockers,
           \/ Call(t) /\ t \in Tasks
           \/ AccessTimesOut(t) \/ Acquire(t) \/ Cancel(t)
    PROVE  AnswerInv'
<1>1. TypeOK /\ holder \in Lockers \cup {NoTask} /\ NoTask \notin Lockers /\ queue \in Seq(Lockers)
    BY NodeClientAssumption DEF AnswerInv, TypeOK
<1>2. NoCall \in Calls /\ NoCall.step = "none" /\ NoCall.try = 1
    BY NodeClientAssumption DEF NoCall, Calls, Ids
<1>3. CASE Call(t)
    BY <1>1, <1>3, SameCallKeepsInv DEF Call, TypeOK
<1>4. CASE AccessTimesOut(t)
    BY <1>1, <1>4, WithoutSpec, SameCallKeepsInv DEF AccessTimesOut, TypeOK
<1>5. CASE Acquire(t)
    <2>1. AllYounger(IdCount)
        BY <1>5 DEF Acquire, AnswerInv, LeftOversBounded
    <2>2. /\ call' \in Calls /\ call'.step \in {"sending", "connecting"} /\ call'.try = 1
        BY <1>2, <1>5 DEF Acquire, Calls
    <2>3. queue' \in Seq(Lockers)
        BY <1>1, <1>5 DEF Acquire
    <2> QED BY <1>1, <1>5, <2>1, <2>2, <2>3, IdleConnectionKeepsInv DEF Acquire, TypeOK
<1>6. CASE Cancel(t)
    <2>1. CASE Waiting(t) /\ queue' = Without(queue, t) /\ UNCHANGED <<holder, call>>
        BY <1>1, <1>6, <2>1, WithoutSpec, SameCallKeepsInv DEF Cancel, TypeOK
    <2>2. CASE holder = t /\ AllYounger(IdCount) /\ Release /\ UNCHANGED queue
        BY <1>1, <1>2, <1>6, <2>2, IdleConnectionKeepsInv DEF Cancel, Release, TypeOK
    <2> QED BY <1>6, <2>1, <2>2 DEF Cancel
<1> QED BY <1>3, <1>4, <1>5, <1>6

\* A step in which a connection is closed, opened or not to be had.
LEMMA ReconnectKeepsInv ==
    ASSUME AnswerInv, NEW t \in Lockers,
           \/ Close(t) \/ Connected(t) \/ Refused(t) \/ ReconnectFails(t) \/ ReconnectTimesOut(t)
           \/ LoopFails \/ Notified
    PROVE  AnswerInv'
<1>1. /\ TypeOK /\ NoTask \notin Lockers /\ Loop \in Lockers /\ call \in Calls
      /\ current_request_id \in Ids
    BY NodeClientAssumption DEF AnswerInv, TypeOK, Lockers
<1>2. NoCall \in Calls /\ NoCall.step = "none" /\ NoCall.try = 1
    BY NodeClientAssumption DEF NoCall, Calls, Ids
<1>3. ASSUME NEW state \in {"open", "closed"}, Fresh(state), call' \in Calls,
             call'.step \in {"none", "sending", "connecting"},
             holder' = NoTask => call'.step = "none", holder' \in Lockers \cup {NoTask},
             UNCHANGED <<in_time, node, current_request_id, queue, reconnect, exited, returned>>
      PROVE  AnswerInv'
    <2>1. ConnectionInv' /\ \A age \in Int : AllYounger(age)'
        BY <1>1, <1>3, ConnectionEmptied DEF Fresh
    <2>2. TypeOK'
        BY <1>1, <1>3, <2>1 DEF TypeOK, Fresh, ConnectionInv
    <2>3. LeftOversBounded'
        BY <1>3, <2>1, NodeClientAssumption DEF LeftOversBounded
    <2> QED BY <1>3, <2>1, <2>2, <2>3 DEF AnswerInv, ConnectionInv, OwnAnswer
<1>4. CASE Close(t)
    <2>1. call' \in Calls /\ call'.step = "connecting"
        BY <1>1, <1>4 DEF Close, Calls
    <2> QED BY <1>1, <1>3, <1>4, <2>1 DEF Close
<1>5. CASE Connected(t)
    <2>1. CASE t = Loop /\ Release
        BY <1>2, <1>3, <1>5, <2>1 DEF Connected, Release
    <2>2. CASE /\ call' = [call EXCEPT !.step = "sending", !.try = 2, !.reads = 0]
               /\ UNCHANGED holder
        <3>1. call' \in Calls /\ call'.step = "sending"
            <4>1. 0 \in 0 .. MaxMismatched
                BY NodeClientAssumption
            <4> QED BY <1>1, <2>2, <4>1 DEF Calls
        <3> QED BY <1>1, <1>3, <1>5, <2>2, <3>1 DEF Connected, Connecting
    <2> QED BY <1>5, <2>1, <2>2 DEF Connected
<1>6. ASSUME call.step = "connecting" PROVE AllYounger(IdCount)
    BY <1>6 DEF AnswerInv, LeftOversBounded
<1>7. CASE Refused(t)
    <2>1. /\ call' \in Calls /\ call'.step = "connecting" /\ call'.try = call.try
          /\ call.step = "connecting" /\ holder = t
        BY <1>1, <1>7, NodeClientAssumption DEF Refused, Connecting, Calls
    <2>2. AllYounger(IdCount)'
        BY <1>6, <1>7, <2>1 DEF Refused, AllYounger, connVars
    <2>3. ConnectionInv'
        BY <1>7, ConnectionKept DEF Refused, connVars, AnswerInv, TypeOK, ConnectionInv
    <2>4. TypeOK'
        BY <1>1, <1>7, <2>1 DEF TypeOK, Refused, connVars
    <2>5. LeftOversBounded'
        BY <1>1, <1>7, <2>1, <2>2 DEF LeftOversBounded, Refused
    <2> QED BY <1>7, <2>3, <2>4, <2>5 DEF AnswerInv, ConnectionInv, OwnAnswer, Refused
<1>8. CASE ReconnectFails(t) \/ ReconnectTimesOut(t)
    BY <1>1, <1>2, <1>6, <1>8, IdleConnectionKeepsInv
       DEF ReconnectFails, ReconnectTimesOut, Connecting, Return, Release, TypeOK
<1>9. CASE LoopFails
    BY <1>1, <1>2, <1>6, <1>9, IdleConnectionKeepsInv DEF LoopFails, Connecting, Release, TypeOK
<1>10. CASE Notified
    <2>1. queue' \in Seq(Lockers)
        BY <1>1, <1>10 DEF Notified, TypeOK
    <2> QED BY <1>1, <1>10, <2>1, SameCallKeepsInv DEF Notified, TypeOK
<1> QED BY <1>4, <1>5, <1>7, <1>8, <1>9, <1>10

\* A request that gets no answer fails, with a connection that nothing is left on
\* that is too old when it has failed for the second time.
LEMMA ReceiveNothingKeepsInv ==
    ASSUME AnswerInv, NEW t \in Tasks, ReceiveNothing(t)
    PROVE  AnswerInv'
<1>1. /\ holder = t /\ t # NoTask /\ call.step = "receiving" /\ call \in Calls
      /\ call.try = 2 => AllYounger(2)
    BY NodeClientAssumption DEF AnswerInv, TypeOK, LeftOversBounded, ReceiveNothing, Lockers
<1>2. ConnectionInv' /\ \A age \in Int : AllYounger(age)' <=> AllYounger(age)
    BY ConnectionKept DEF ReceiveNothing, connVars, AnswerInv, TypeOK, ConnectionInv
<1>3. Fail
    BY DEF ReceiveNothing
<1>4. AllYounger(2)' => AllYounger(IdCount)'
    BY <1>2, YoungerMonotoneNext, NodeClientAssumption
<1>5. TypeOK'
    BY <1>1, <1>3, FailSpec DEF AnswerInv, TypeOK, ReceiveNothing, connVars
<1>6. LeftOversBounded'
    BY <1>1, <1>2, <1>3, <1>4, FailKeepsBound
<1>7. OwnAnswer'
    BY <1>1, <1>3, FailSpec DEF AnswerInv, OwnAnswer
<1> QED BY <1>2, <1>5, <1>6, <1>7 DEF AnswerInv, ConnectionInv

LEMMA AnswerInvInit ==
    Init => AnswerInv
<1> SUFFICES ASSUME Init PROVE AnswerInv
    OBVIOUS
<1>1. NoCall \in Calls /\ NoCall.step = "none" /\ NoCall.try = 1
    BY NodeClientAssumption DEF NoCall, Calls, Ids
<1>2. TypeOK
    <2>1. 0 \in Ids
        BY NodeClientAssumption DEF Ids
    <2>2. <<>> \in Seq(Messages) /\ <<>> \in Seq(Lockers)
        OBVIOUS
    <2> QED BY <1>1, <2>1, <2>2 DEF Init, TypeOK
<1>3. ConnectionInOrder /\ AllYounger(IdCount)
    BY DEF Init, ConnectionInOrder, InOrder, Precede, AllYounger, Younger
<1>4. LeftOversBounded
    BY <1>1, <1>3 DEF Init, LeftOversBounded
<1> QED BY <1>2, <1>3, <1>4 DEF AnswerInv, OwnAnswer, Init

LEMMA AnswerInvStep ==
    AnswerInv /\ [Next]_vars => AnswerInv'
<1> SUFFICES ASSUME AnswerInv, [Next]_vars PROVE AnswerInv'
    OBVIOUS
<1>1. Tasks \subseteq Lockers /\ Loop \in Lockers /\ Cancellable \subseteq Lockers
    BY NodeClientAssumption DEF Tasks, Lockers
<1>2. ASSUME NEW t \in Tasks, Call(t) \/ AccessTimesOut(t) \/ Work(t) PROVE AnswerInv'
    BY <1>1, <1>2, LockKeepsInv, SendingKeepsInv, ReceivingKeepsInv, ReceiveNothingKeepsInv,
       ReconnectKeepsInv DEF Work
<1>3. ASSUME NEW t \in Cancellable, Cancel(t) PROVE AnswerInv'
    BY <1>1, <1>3, LockKeepsInv
<1>4. CASE ReconnectLoop
    BY <1>1, <1>4, LockKeepsInv, ReconnectKeepsInv DEF ReconnectLoop
<1>5. CASE Node
    BY <1>5, NodeKeepsInv
<1>6. CASE UNCHANGED vars
    BY <1>6, SameCallKeepsInv DEF vars, AnswerInv, TypeOK
<1> QED BY <1>2, <1>3, <1>4, <1>5, <1>6 DEF Next, Client

LEMMA AnswerInvHolds ==
    Spec => []AnswerInv
    BY AnswerInvInit, AnswerInvStep, PTL DEF Spec

-----------------------------------------------------------------------------
\* The ids stay within 16 bits, the counters of the retries within their limits, and
\* nothing on a connection is so old that its id could have been taken again.
THEOREM TypeCorrect ==
    Spec => []TypeOK
<1>1. AnswerInv => TypeOK
    BY DEF AnswerInv
<1> QED BY <1>1, AnswerInvHolds, PTL

\* send_request returns the answer to its own request and never one to a request
\* that has timed out or was dropped before it.
THEOREM AnswersAreOwn ==
    Spec => []OwnAnswer
<1>1. AnswerInv => OwnAnswer
    BY DEF AnswerInv
<1> QED BY <1>1, AnswerInvHolds, PTL

-----------------------------------------------------------------------------
\* How long the connection is kept.

\* The awaits that a call may still take: in its second try it sends and reads; in
\* its first it sends, reads, closes, connects, and then has the second try to go.
CallRank(k) ==
    CASE k.step = "connecting" -> MaxMismatched + 3 + (MaxAttempts - k.attempt)
      [] k.step = "closing" -> MaxMismatched + 3 + MaxAttempts
      [] k.step = "receiving" ->
           (IF k.try = 1 THEN MaxMismatched + 4 + MaxAttempts ELSE 1) + (MaxMismatched - k.reads)
      [] k.step = "sending" ->
           IF k.try = 1 THEN MaxMismatched + MaxMismatched + 5 + MaxAttempts ELSE MaxMismatched + 2
      [] OTHER -> 0

StepsOf(t) == IF t = Loop THEN ReconnectLoop ELSE Work(t)

\* Every step of the task that holds the lock gives it back or leaves the task fewer
\* awaits to take, and nobody else changes how far it is.  RequestsReturn rests on it.
LockIsGivenBack ==
    [][\A t \in Lockers : holder = t =>
          \/ holder' = NoTask
          \/ holder' = t /\ CallRank(call') < CallRank(call)
          \/ holder' = t /\ call' = call /\ ~StepsOf(t)]_vars

LEMMA CallFields ==
    ASSUME NEW k \in Calls
    PROVE  /\ k.step \in {"none", "sending", "receiving", "closing", "connecting"}
           /\ k.try \in {1, 2} /\ k.reads \in 0 .. MaxMismatched /\ k.attempt \in 1 .. MaxAttempts
BY DEF Calls

\* The number of awaits is bounded by the limits of the configuration.
LEMMA RankBounded ==
    ASSUME NEW k \in Calls
    PROVE  CallRank(k) \in 0 .. MaxMismatched + MaxMismatched + 5 + MaxAttempts
<1>1. MaxMismatched \in Nat /\ MaxAttempts \in Nat
    BY NodeClientAssumption
<1> QED BY <1>1, CallFields DEF CallRank

\* The updates of a call that the actions make.
LEMMA CallUpdates ==
    ASSUME NEW k \in Calls
    PROVE  /\ \A s : /\ [k EXCEPT !.step = s].step = s /\ [k EXCEPT !.step = s].try = k.try
                     /\ [k EXCEPT !.step = s].reads = k.reads /\ [k EXCEPT !.step = s].attempt = k.attempt
           /\ \A s, i : LET n == [k EXCEPT !.step = s, !.request_id = i] IN
                        n.step = s /\ n.try = k.try /\ n.reads = k.reads /\ n.attempt = k.attempt
           /\ \A s : LET n == [k EXCEPT !.step = s, !.try = 2, !.reads = 0] IN
                     n.step = s /\ n.try = 2 /\ n.reads = 0 /\ n.attempt = k.attempt
           /\ LET n == [k EXCEPT !.attempt = @ + 1] IN
              n.step = k.step /\ n.try = k.try /\ n.reads = k.reads /\ n.attempt = k.attempt + 1
           /\ LET n == [k EXCEPT !.reads = @ + 1] IN
              n.step = k.step /\ n.try = k.try /\ n.reads = k.reads + 1 /\ n.attempt = k.attempt
BY DEF Calls

\* An error leads to the reconnect or to the caller.
LEMMA FailRanks ==
    ASSUME TypeOK, NEW t, holder = t, call.step \in {"sending", "receiving"}, Fail
    PROVE  holder' = NoTask \/ (holder' = t /\ CallRank(call') < CallRank(call))
<1>1. MaxMismatched \in Nat /\ MaxAttempts \in Nat
    BY NodeClientAssumption
<1>2. CASE call.try = 2 /\ Return("error")
    BY <1>2 DEF Return, Release
<1>3. CASE call.try = 1 /\ call' = [call EXCEPT !.step = "closing"] /\ UNCHANGED <<holder, returned>>
    <2>1. call \in Calls
        BY DEF TypeOK
    <2>2. call'.step = "closing" /\ holder' = t
        BY <1>3, <2>1, CallUpdates
    <2>3. CallRank(call') = MaxMismatched + 3 + MaxAttempts
        BY <2>2 DEF CallRank
    <2>4. call.reads \in 0 .. MaxMismatched
        BY <2>1, CallFields
    <2>5. CallRank(call) >= MaxMismatched + 4 + MaxAttempts
        BY <1>1, <1>3, <2>4 DEF CallRank
    <2>6. CallRank(call) \in Int
        BY <1>1, <2>1, RankBounded
    <2> QED BY <1>1, <2>2, <2>3, <2>5, <2>6
<1> QED BY <1>2, <1>3 DEF Fail

\* A step of the holder of the lock.
LEMMA HolderRanks ==
    ASSUME TypeOK, NEW t \in Lockers, holder = t, StepsOf(t)
    PROVE  holder' = NoTask \/ (holder' = t /\ CallRank(call') < CallRank(call))
<1>1. MaxMismatched \in Nat /\ MaxAttempts \in Nat /\ t # NoTask
    BY NodeClientAssumption
<1>2. /\ call \in Calls /\ call.reads \in 0 .. MaxMismatched /\ call.attempt \in 1 .. MaxAttempts
      /\ call.try \in {1, 2}
    BY CallFields DEF TypeOK
<1>3. ~Acquire(t) /\ ~(t = Loop /\ Notified)
    BY <1>1 DEF Acquire, Notified, Idle
<1>4. CASE SendPayload(t)
    <2>1. /\ call.step = "sending" /\ holder' = t
          /\ call' = [call EXCEPT !.step = "receiving", !.request_id = Payload.id]
        BY <1>4 DEF SendPayload, Sending
    <2>2. call'.step = "receiving" /\ call'.try = call.try /\ call'.reads = call.reads
        BY <1>2, <2>1, CallUpdates
    <2>3. CallRank(call) = IF call.try = 1 THEN MaxMismatched + MaxMismatched + 5 + MaxAttempts ELSE MaxMismatched + 2
        BY <2>1 DEF CallRank
    <2>4. CallRank(call')
            = (IF call.try = 1 THEN MaxMismatched + 4 + MaxAttempts ELSE 1) + (MaxMismatched - call.reads)
        BY <2>2 DEF CallRank
    <2> QED BY <1>1, <1>2, <2>1, <2>3, <2>4
<1>5. CASE SendTimesOut(t) \/ SendFails(t) \/ ReceiveNothing(t)
    <2>1. call.step \in {"sending", "receiving"} /\ Fail
        BY <1>5 DEF SendTimesOut, SendFails, ReceiveNothing, Sending
    <2> QED BY <2>1, FailRanks
<1>6. CASE Receive(t)
    <2>1. call.step = "receiving"
        BY <1>6 DEF Receive
    <2>2. \/ Fail
          \/ \E result : Return(result)
          \/ call' = [call EXCEPT !.reads = @ + 1] /\ holder' = holder /\ call.reads + 1 < MaxMismatched
        BY <1>6 DEF Receive
    <2>3. CASE Fail
        BY <2>1, <2>3, FailRanks
    <2>4. CASE \E result : Return(result)
        BY <2>4 DEF Return, Release
    <2>5. CASE call' = [call EXCEPT !.reads = @ + 1] /\ holder' = holder /\ call.reads + 1 < MaxMismatched
        <3>1. call'.step = "receiving" /\ call'.try = call.try /\ call'.reads = call.reads + 1
            BY <1>2, <2>1, <2>5, CallUpdates
        <3>2. CallRank(call)
                = (IF call.try = 1 THEN MaxMismatched + 4 + MaxAttempts ELSE 1) + (MaxMismatched - call.reads)
            BY <2>1 DEF CallRank
        <3>3. CallRank(call')
                = (IF call.try = 1 THEN MaxMismatched + 4 + MaxAttempts ELSE 1) + (MaxMismatched - (call.reads + 1))
            BY <3>1 DEF CallRank
        <3> QED BY <1>1, <1>2, <2>5, <3>2, <3>3
    <2> QED BY <2>2, <2>3, <2>4, <2>5
<1>7. CASE Close(t)
    <2>1. call.step = "closing" /\ holder' = t /\ call' = [call EXCEPT !.step = "connecting"]
        BY <1>7 DEF Close
    <2>2. call'.step = "connecting" /\ call'.attempt = call.attempt
        BY <1>2, <2>1, CallUpdates
    <2>3. /\ CallRank(call) = MaxMismatched + 3 + MaxAttempts
          /\ CallRank(call') = MaxMismatched + 3 + (MaxAttempts - call.attempt)
        BY <2>1, <2>2 DEF CallRank
    <2> QED BY <1>1, <1>2, <2>1, <2>3
<1>8. CASE Refused(t)
    <2>1. /\ call.step = "connecting" /\ holder' = t /\ call' = [call EXCEPT !.attempt = @ + 1]
          /\ call.attempt < MaxAttempts
        BY <1>8 DEF Refused, Connecting
    <2>2. call'.step = "connecting" /\ call'.attempt = call.attempt + 1
        BY <1>2, <2>1, CallUpdates
    <2>3. /\ CallRank(call) = MaxMismatched + 3 + (MaxAttempts - call.attempt)
          /\ CallRank(call') = MaxMismatched + 3 + (MaxAttempts - (call.attempt + 1))
        BY <2>1, <2>2 DEF CallRank
    <2> QED BY <1>1, <1>2, <2>1, <2>3
<1>9. CASE Connected(t)
    <2>1. CASE t = Loop /\ Release
        BY <2>1 DEF Release
    <2>2. CASE t # Loop /\ call' = [call EXCEPT !.step = "sending", !.try = 2, !.reads = 0] /\ UNCHANGED holder
        <3>1. call.step = "connecting" /\ holder' = t
            BY <1>9, <2>2 DEF Connected, Connecting
        <3>2. call'.step = "sending" /\ call'.try = 2
            BY <1>2, <2>2, CallUpdates
        <3>3. /\ CallRank(call) = MaxMismatched + 3 + (MaxAttempts - call.attempt)
              /\ CallRank(call') = MaxMismatched + 2
            BY <3>1, <3>2 DEF CallRank
        <3> QED BY <1>1, <1>2, <3>1, <3>3
    <2> QED BY <1>9, <2>1, <2>2 DEF Connected
<1>10. CASE ReconnectFails(t) \/ ReconnectTimesOut(t) \/ LoopFails
    BY <1>10 DEF ReconnectFails, ReconnectTimesOut, LoopFails, Return, Release
<1> QED BY <1>3, <1>4, <1>5, <1>6, <1>7, <1>8, <1>9, <1>10 DEF StepsOf, Work, ReconnectLoop

\* A step of anybody else.
LEMMA OthersRank ==
    ASSUME TypeOK, NEW t \in Lockers, holder = t, [Next]_vars, ~StepsOf(t)
    PROVE  holder' = NoTask \/ (holder' = t /\ call' = call)
<1>1. t # NoTask /\ Loop \notin Tasks /\ Tasks \subseteq Lockers
    BY NodeClientAssumption DEF Lockers
<1>2. ASSUME NEW u \in Lockers, u # t
      PROVE  ~Acquire(u) /\ ~SendPayload(u) /\ ~SendTimesOut(u) /\ ~SendFails(u) /\ ~Receive(u)
             /\ ~ReceiveNothing(u) /\ ~Close(u) /\ ~Refused(u) /\ ~Connected(u) /\ ~ReconnectFails(u)
             /\ ~ReconnectTimesOut(u)
    BY <1>1, <1>2 DEF Acquire, SendPayload, SendTimesOut, SendFails, Sending, Receive, ReceiveNothing, Close,
       Refused, Connected, ReconnectFails, ReconnectTimesOut, Connecting
<1>3. ASSUME NEW u \in Tasks, Call(u) \/ AccessTimesOut(u) \/ Work(u)
      PROVE  holder' = NoTask \/ (holder' = t /\ call' = call)
    <2>1. CASE Call(u) \/ AccessTimesOut(u)
        BY <2>1 DEF Call, AccessTimesOut
    <2>2. CASE Work(u)
        <3>1. u # t
            BY <1>1, <2>2 DEF StepsOf
        <3> QED BY <1>1, <1>2, <2>2, <3>1 DEF Work
    <2> QED BY <1>3, <2>1, <2>2
<1>4. ASSUME NEW u \in Cancellable, Cancel(u) PROVE holder' = NoTask \/ (holder' = t /\ call' = call)
    BY <1>4 DEF Cancel, Release
<1>5. CASE ReconnectLoop
    <2>1. t # Loop
        BY <1>5 DEF StepsOf
    <2>2. Loop \in Lockers
        BY DEF Lockers
    <2>3. ~LoopFails
        BY <2>1 DEF LoopFails, Connecting
    <2>4. Notified
        BY <1>2, <1>5, <2>1, <2>2, <2>3 DEF ReconnectLoop
    <2> QED BY <2>4 DEF Notified
<1>6. CASE Node
    BY <1>6 DEF Node, Answer, GoDown, ComeUp, GetStuck, clientVars
<1>7. CASE UNCHANGED vars
    BY <1>7 DEF vars
<1> QED BY <1>3, <1>4, <1>5, <1>6, <1>7 DEF Next, Client

\* The lock of the connection is given back after a bounded number of awaits: no
\* request and no reconnect keeps the others waiting for ever by what it does.
THEOREM LockIsKeptBriefly ==
    Spec => LockIsGivenBack
<1>1. ASSUME TypeOK, [Next]_vars, NEW t \in Lockers, holder = t
      PROVE  \/ holder' = NoTask
             \/ holder' = t /\ CallRank(call') < CallRank(call)
             \/ holder' = t /\ call' = call /\ ~StepsOf(t)
    <2>1. CASE StepsOf(t)
        BY <1>1, <2>1, HolderRanks
    <2>2. CASE ~StepsOf(t)
        BY <1>1, <2>2, OthersRank
    <2> QED BY <2>1, <2>2
<1>2. TypeOK /\ [Next]_vars =>
        [\A t \in Lockers : holder = t =>
            \/ holder' = NoTask
            \/ holder' = t /\ CallRank(call') < CallRank(call)
            \/ holder' = t /\ call' = call /\ ~StepsOf(t)]_vars
    BY <1>1
<1> QED BY <1>2, TypeCorrect, PTL DEF Spec, LockIsGivenBack
=============================================================================
