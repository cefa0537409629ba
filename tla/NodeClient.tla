----------------------------- MODULE NodeClient -----------------------------
(***************************************************************************)
(* FramedNodeClient of the RPC server: the tasks that send requests to the *)
(* binary port of the node over one connection behind a lock, the task     *)
(* that keeps the connection alive, and the task that reconnects.          *)
(*                                                                         *)
(* A request is its 16-bit id: what it asks for plays no part.  The node   *)
(* answers the requests of a connection in the order in which it reads     *)
(* them and repeats the id of each.  It may be slow, be stuck (its kernel  *)
(* accepts connections and bytes, and nobody reads them), go down and come *)
(* back.                                                                   *)
(***************************************************************************)
EXTENDS Integers, Sequences

CONSTANTS
    Callers,          \* handlers of JSON-RPC requests
    Cancellable,      \* callers whose future is dropped when their client goes away
    KeepAlive,        \* keepalive_loop
    Loop,             \* reconnect_loop
    NoTask,
    IdCount,          \* 2^16
    MaxMismatched,    \* MAX_MISMATCHED_ID_RETRIES
    MaxAttempts,      \* exponential_backoff.max_attempts
    AttemptsInTime    \* how many attempts client_access_timeout_secs may leave time for

Tasks == Callers \cup {KeepAlive}
Lockers == Tasks \cup {Loop}
Ids == 0 .. IdCount - 1

ASSUME NodeClientAssumption ==
    /\ Cancellable \subseteq Callers
    /\ KeepAlive \notin Callers /\ Loop \notin Tasks /\ NoTask \notin Lockers
    /\ IdCount \in Nat /\ IdCount > 1
    /\ MaxMismatched \in Nat \ {0}
    /\ MaxAttempts \in Nat \ {0}
    /\ AttemptsInTime \subseteq Nat \ {0}

VARIABLES
    in_time,    \* configuration: how many refused attempts client_access_timeout_secs allow
    node,       \* "up", "stuck" or "down"
    client,     \* the connection: "open", "broken" by the node, or "closed"
    unflushed,  \* our side of it holds bytes back
    requests,   \* what the node has not answered
    answers,    \* what we have not read
    current_request_id,
    holder,     \* who holds the lock of the connection
    queue,      \* who waits for it, first come first served
    call,       \* where the holder is, and its local variables
    reconnect,  \* the permit of Notify<Reconnect>
    exited,     \* the RPC server has ended with CLIENT_SHUTDOWN_EXIT_CODE
    returned    \* history: what the last call of send_request has returned

connVars == <<client, unflushed, requests, answers>>
vars == <<in_time, node, connVars, current_request_id, holder, queue, call, reconnect, exited,
          returned>>

\* Requests and answers carry their age: how many ids ago they were sent.  Of an
\* answer, the envelope or the copy of the request in it may be unreadable.
Forms == {"good", "bad_envelope", "bad_request"}
Messages == [id : Ids, age : 1 .. IdCount, form : Forms]

\* A connection with nothing on it.
Fresh(state) == client' = state /\ unflushed' = FALSE /\ requests' = <<>> /\ answers' = <<>>

\* try is 2 after a reconnect; reads counts the outdated answers that were skipped;
\* attempt is current_attempt of connect_with_retries.
Calls == [step : {"none", "sending", "receiving", "closing", "connecting"}, try : {1, 2},
          request_id : Ids, reads : 0 .. MaxMismatched, attempt : 1 .. MaxAttempts]
NoCall == [step |-> "none", try |-> 1, request_id |-> 0, reads |-> 0, attempt |-> 1]

TypeOK ==
    /\ in_time \in AttemptsInTime
    /\ node \in {"up", "stuck", "down"}
    /\ client \in {"open", "broken", "closed"}
    /\ unflushed \in BOOLEAN
    /\ requests \in Seq(Messages)
    /\ answers \in Seq(Messages)
    /\ current_request_id \in Ids
    /\ holder \in Lockers \cup {NoTask}
    /\ queue \in Seq(Lockers)
    /\ call \in Calls
    /\ reconnect \in BOOLEAN
    /\ exited \in BOOLEAN
    /\ returned \in {"none", "own", "foreign", "unidentified", "error"}

Init ==
    /\ in_time \in AttemptsInTime
    /\ node = "up"
    /\ client = "open"
    /\ unflushed = FALSE
    /\ requests = <<>>
    /\ answers = <<>>
    /\ current_request_id = 0    \* INITIAL_REQUEST_ID
    /\ holder = NoTask
    /\ queue = <<>>
    /\ call = NoCall
    /\ reconnect = FALSE
    /\ exited = FALSE
    /\ returned = "none"

-----------------------------------------------------------------------------
\* The lock.

Waiting(t) == \E i \in DOMAIN queue : queue[i] = t
Idle(t) == holder # t /\ ~Waiting(t)
Without(s, t) ==
    LET i == CHOOSE i \in DOMAIN s : s[i] = t
    IN [j \in 1 .. Len(s) - 1 |-> s[IF j < i THEN j ELSE j + 1]]

\* send_request begins to wait for the connection.
Call(t) ==
    /\ Idle(t) /\ ~exited
    /\ queue' = Append(queue, t)
    /\ UNCHANGED <<in_time, node, connVars, current_request_id, holder, call, reconnect, exited,
                   returned>>

\* Nobody has given the connection back within client_access_timeout_secs.
AccessTimesOut(t) ==
    /\ Waiting(t) /\ holder # NoTask
    /\ queue' = Without(queue, t)
    /\ returned' = "error"
    /\ UNCHANGED <<in_time, node, connVars, current_request_id, holder, call, reconnect, exited>>

\* The first in the queue gets the connection.
Acquire(t) ==
    /\ holder = NoTask /\ queue # <<>> /\ Head(queue) = t
    /\ holder' = t
    /\ queue' = Tail(queue)
    /\ call' = [NoCall EXCEPT !.step = IF t = Loop THEN "connecting" ELSE "sending"]
    /\ UNCHANGED <<in_time, node, connVars, current_request_id, reconnect, exited, returned>>

Release == holder' = NoTask /\ call' = NoCall

\* send_request returns.
Return(result) == Release /\ returned' = result

-----------------------------------------------------------------------------
\* send_request_internal.

\* It returns an error: the first one leads to a reconnect, the second one to the
\* caller, with the connection left as it is.
Fail ==
    \/ call.try = 1 /\ call' = [call EXCEPT !.step = "closing"] /\ UNCHANGED <<holder, returned>>
    \/ call.try = 2 /\ Return("error")

\* Fault: next_id in a wider type.
NextIdTooWide(id) == id + 1

NextId(id) == IF id + 1 = IdCount THEN 0 ELSE id + 1

\* generate_payload takes an id: what is still on the connection gets older.
Payload == [id |-> current_request_id, age |-> 1, form |-> "good"]
Older(s) == [i \in DOMAIN s |-> [id |-> s[i].id, age |-> s[i].age + 1, form |-> s[i].form]]
TakeId == current_request_id' = NextId(current_request_id)

Sending(t) == holder = t /\ call.step = "sending"

\* The payload is written.  A connection that the node has just lost takes it too.
SendPayload(t) ==
    /\ Sending(t)
    /\ client # "closed"
    /\ unflushed => node # "stuck"
    /\ TakeId
    /\ requests' = IF client = "open" THEN Append(Older(requests), Payload) ELSE Older(requests)
    /\ answers' = Older(answers)
    /\ unflushed' = FALSE
    /\ call' = [call EXCEPT !.step = "receiving", !.request_id = Payload.id]
    /\ UNCHANGED <<in_time, node, client, holder, queue, reconnect, exited, returned>>

\* message_timeout_secs pass because the buffers are full and the node does not
\* read.  The payload is left in the buffer of our side, unless it is full.
SendTimesOut(t) ==
    /\ Sending(t)
    /\ client = "open" /\ node = "stuck"
    /\ TakeId
    /\ requests' = IF unflushed THEN Older(requests) ELSE Append(Older(requests), Payload)
    /\ answers' = Older(answers)
    /\ unflushed' = TRUE
    /\ Fail
    /\ UNCHANGED <<in_time, node, client, queue, reconnect, exited>>

\* The connection is closed or known to be broken.
SendFails(t) ==
    /\ Sending(t)
    /\ client # "open"
    /\ TakeId
    /\ requests' = Older(requests) /\ answers' = Older(answers)
    /\ Fail
    /\ UNCHANGED <<in_time, node, client, unflushed, queue, reconnect, exited>>

\* Fault: the id that was asked for counts as an upper bound.
AcceptsOutdated(expected, got) == expected >= got

\* validate_response takes 0 for an id that it cannot read.
OriginalId(answer) == IF answer.form = "bad_request" THEN 0 ELSE answer.id

IsExpected(expected, got) == expected = got

\* Only a smaller id is taken for an outdated one: when the ids have wrapped around
\* in between, an older answer has the greater id.
IsOutdated(expected, got) == expected > got

\* For the history of what was returned.
WhoseAnswer(answer) ==
    IF answer.form = "bad_request" THEN "unidentified"
    ELSE IF answer.age = 1 THEN "own" ELSE "foreign"

\* The next answer is read, compared with the request and, when it is outdated,
\* skipped.
Receive(t) ==
    /\ holder = t /\ call.step = "receiving"
    /\ answers # <<>>
    /\ answers' = Tail(answers)
    /\ LET answer == Head(answers)
           readable == answer.form # "bad_envelope"
           expected == readable /\ IsExpected(call.request_id, OriginalId(answer))
           outdated == readable /\ ~expected /\ IsOutdated(call.request_id, OriginalId(answer))
       IN \/ expected /\ Return(WhoseAnswer(answer))
          \/ /\ outdated /\ call.reads + 1 < MaxMismatched
             /\ call' = [call EXCEPT !.reads = @ + 1]
             /\ UNCHANGED <<holder, returned>>
          \/ outdated /\ call.reads + 1 = MaxMismatched /\ Fail
          \/ ~expected /\ ~outdated /\ Fail
    /\ UNCHANGED <<in_time, node, client, unflushed, requests, current_request_id, queue, reconnect,
                   exited>>

\* Fault: the answer is awaited without a timeout.
AwaitAnswer(t) ==
    /\ holder = t /\ call.step = "receiving"
    /\ answers = <<>> /\ client # "open"
    /\ Fail
    /\ UNCHANGED <<in_time, node, connVars, current_request_id, queue, reconnect, exited>>

\* There is nothing to read: message_timeout_secs pass or the stream has ended.
ReceiveNothing(t) ==
    /\ holder = t /\ call.step = "receiving"
    /\ answers = <<>>
    /\ Fail
    /\ UNCHANGED <<in_time, node, connVars, current_request_id, queue, reconnect, exited>>

-----------------------------------------------------------------------------
\* Reconnection, by a request that has failed and by the loop.

\* Fault: the connection is given back as it is, for the next request to find.
GiveBack(t) ==
    /\ holder = t /\ call.step = "closing"
    /\ Return("error")
    /\ UNCHANGED <<in_time, node, connVars, current_request_id, queue, reconnect, exited>>

\* close() flushes first, and has no timeout.
Close(t) ==
    /\ holder = t /\ call.step = "closing"
    /\ unflushed => node # "stuck"
    /\ Fresh("closed")
    /\ call' = [call EXCEPT !.step = "connecting"]
    /\ UNCHANGED <<in_time, node, current_request_id, holder, queue, reconnect, exited, returned>>

Connecting(t) == holder = t /\ call.step = "connecting"

\* The pauses between the attempts have not yet taken client_access_timeout_secs.
InTime(t) == t = Loop \/ call.attempt <= in_time

\* A request goes on with a second try, the loop is done.
Connected(t) ==
    /\ Connecting(t) /\ InTime(t)
    /\ node # "down"
    /\ Fresh("open")
    /\ \/ t = Loop /\ Release
       \/ t # Loop /\ call' = [call EXCEPT !.step = "sending", !.try = 2, !.reads = 0]
                   /\ UNCHANGED holder
    /\ UNCHANGED <<in_time, node, current_request_id, queue, reconnect, exited, returned>>

\* The node refuses, and there are attempts left.
Refused(t) ==
    /\ Connecting(t) /\ InTime(t)
    /\ node = "down"
    /\ call.attempt < MaxAttempts
    /\ call' = [call EXCEPT !.attempt = @ + 1]
    /\ UNCHANGED <<in_time, node, connVars, current_request_id, holder, queue, reconnect, exited,
                   returned>>

\* Fault: the loop is not asked to go on.
ReconnectForgotten(t) ==
    /\ Connecting(t) /\ InTime(t)
    /\ node = "down" /\ call.attempt = MaxAttempts
    /\ Return("error")
    /\ UNCHANGED <<in_time, node, connVars, current_request_id, queue, reconnect, exited>>

\* The attempts of a request are used up: it asks the loop to go on.
ReconnectFails(t) ==
    /\ Connecting(t) /\ InTime(t)
    /\ node = "down" /\ call.attempt = MaxAttempts
    /\ reconnect' = TRUE
    /\ Return("error")
    /\ UNCHANGED <<in_time, node, connVars, current_request_id, queue, exited>>

\* client_access_timeout_secs pass before that: nobody is asked to go on.
ReconnectTimesOut(t) ==
    /\ Connecting(t) /\ ~InTime(t)
    /\ Return("error")
    /\ UNCHANGED <<in_time, node, connVars, current_request_id, queue, reconnect, exited>>

\* reconnect_loop takes the permit and waits for the connection.
Notified ==
    /\ Idle(Loop) /\ reconnect /\ ~exited
    /\ reconnect' = FALSE
    /\ queue' = Append(queue, Loop)
    /\ UNCHANGED <<in_time, node, connVars, current_request_id, holder, call, exited, returned>>

\* The attempts of the loop are used up: the RPC server ends, with all its tasks.
LoopFails ==
    /\ Connecting(Loop)
    /\ node = "down" /\ call.attempt = MaxAttempts
    /\ exited' = TRUE
    /\ queue' = <<>>
    /\ Release
    /\ UNCHANGED <<in_time, node, connVars, current_request_id, reconnect, returned>>

\* Everything that is left on the connection was sent less than age ids ago.
Younger(s, age) == \A i \in 1 .. Len(s) : s[i].age < age
AllYounger(age) == Younger(requests, age) /\ Younger(answers, age)

\* The HTTP client of a caller goes away and the future is dropped wherever it is.
\* What it has sent stays on the connection.  Bound: fewer than IdCount callers in
\* a row go away without anybody reading on.
Cancel(t) ==
    /\ \/ /\ Waiting(t)
          /\ queue' = Without(queue, t)
          /\ UNCHANGED <<holder, call>>
       \/ /\ holder = t
          /\ AllYounger(IdCount)
          /\ Release
          /\ UNCHANGED queue
    /\ UNCHANGED <<in_time, node, connVars, current_request_id, reconnect, exited, returned>>

-----------------------------------------------------------------------------
\* The node.

clientVars == <<in_time, current_request_id, holder, queue, call, reconnect, exited, returned>>

\* It answers the oldest request that has reached it as a whole, perhaps with an
\* envelope, or a copy of the request, that cannot be read.
Answer(form) ==
    /\ node = "up" /\ client = "open"
    /\ Len(requests) > IF unflushed THEN 1 ELSE 0
    /\ requests' = Tail(requests)
    /\ answers' = Append(answers, [Head(requests) EXCEPT !.form = form])
    /\ UNCHANGED <<node, client, unflushed, clientVars>>

\* The connection breaks; the answers that have arrived may still be there.
GoDown ==
    /\ node # "down"
    /\ node' = "down"
    /\ \/ client = "open" /\ Fresh("broken")
       \/ /\ client = "open" /\ client' = "broken"
          /\ unflushed' = FALSE /\ requests' = <<>> /\ UNCHANGED answers
       \/ client # "open" /\ UNCHANGED connVars
    /\ UNCHANGED clientVars

ComeUp == node # "up" /\ node' = "up" /\ UNCHANGED <<connVars, clientVars>>

GetStuck == node = "up" /\ node' = "stuck" /\ UNCHANGED <<connVars, clientVars>>

Node ==
    \/ \E form \in Forms : Answer(form)
    \/ GoDown \/ ComeUp \/ GetStuck

-----------------------------------------------------------------------------
Work(t) ==
    \/ Acquire(t)
    \/ SendPayload(t) \/ SendTimesOut(t) \/ SendFails(t)
    \/ Receive(t) \/ ReceiveNothing(t)
    \/ Close(t) \/ Refused(t) \/ Connected(t)
    \/ ReconnectFails(t) \/ ReconnectTimesOut(t)

ReconnectLoop ==
    \/ Notified
    \/ Acquire(Loop) \/ Connected(Loop) \/ Refused(Loop) \/ LoopFails

Client ==
    \/ \E t \in Tasks : Call(t) \/ AccessTimesOut(t) \/ Work(t)
    \/ \E t \in Cancellable : Cancel(t)
    \/ ReconnectLoop

Next == Client \/ Node

Spec == Init /\ [][Next]_vars

\* Timers fire, the lock is handed on, and the runtime polls every task that can go
\* on.  Nothing is assumed of the node, nor of the callers.
FairSpec ==
    /\ Spec
    /\ \A t \in Tasks : WF_vars(Work(t))
    /\ \A t \in Tasks : WF_vars(AccessTimesOut(t))
    /\ WF_vars(Call(KeepAlive))
    /\ WF_vars(ReconnectLoop)

-----------------------------------------------------------------------------
\* send_request never returns the answer to another request, whatever is left on
\* the connection by requests that have timed out or were dropped, and across the
\* wraparound of the ids.  The exception is an answer that repeats its request in a
\* form that cannot be read: the request with the id 0 takes it for its own.
OwnAnswer == returned # "foreign"

\* The id that was taken k ids ago.
IdBefore(current, k) == IF current >= k THEN current - k ELSE current - k + IdCount

\* Every message has the id of its age, and is older than those that follow it.
InOrder(current, s) ==
    /\ \A i \in 1 .. Len(s) : s[i].id = IdBefore(current, s[i].age)
    /\ \A i, j \in 1 .. Len(s) : i < j => s[i].age > s[j].age

Precede(s, t) == \A i \in 1 .. Len(s), j \in 1 .. Len(t) : s[i].age > t[j].age

\* The node answers in order, so what we have not read comes before what it has not
\* answered.
ConnectionInOrder ==
    /\ InOrder(current_request_id, requests)
    /\ InOrder(current_request_id, answers)
    /\ Precede(answers, requests)

\* A request that waits for its answer has taken the last id, no id has been taken
\* again since the oldest left-over, and a second try starts on an empty connection.
LeftOversBounded ==
    /\ holder = NoTask => call.step = "none"
    /\ call.step = "receiving" => call.request_id = IdBefore(current_request_id, 1)
    /\ call.step \notin {"receiving", "closing"} => AllYounger(IdCount)
    /\ call.step = "receiving" /\ call.try = 2 => AllYounger(2)
    /\ call.step = "sending" /\ call.try = 2 => AllYounger(1)
    /\ call.step = "closing" => call.try = 1

\* The inductive invariant behind OwnAnswer.
AnswerInv == TypeOK /\ ConnectionInOrder /\ LeftOversBounded /\ OwnAnswer

\* send_request returns, unless the node is stuck for good: close() has no timeout.
RequestsReturn ==
    \A t \in Tasks : <>[](node # "stuck") => (~Idle(t) ~> Idle(t))

\* From some time on no caller goes away.  As long as they do, each may drop a
\* reconnection that it has begun while the others wait in vain for the lock.
CallersStay == <>[][\A t \in Cancellable : ~Cancel(t)]_vars

\* While the node is up and the callers stay, the client gets back to an open
\* connection, with no request of a caller, because of the requests of keepalive_loop.
Recovers == CallersStay /\ <>[](node = "up") => []<>(client = "open" \/ exited)

\* "Other mechanisms of the FramedNodeClient are responsible for shutting down
\* sidecar on retry exhaustion" (keepalive_loop): when the node stays down, the
\* attempts of the reconnect loop run out and the RPC server ends.
ExhaustionExits == CallersStay /\ <>[](node = "down") => <>exited

\* That is so where all the attempts of a request fit in client_access_timeout_secs.
ExhaustionExitsInTime == in_time >= MaxAttempts => ExhaustionExits
=============================================================================
