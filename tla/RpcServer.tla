------------------------------ MODULE RpcServer ------------------------------
(***************************************************************************)
(* The JSON-RPC servers: requests of clients, each run as a sequence of    *)
(* questions to a node whose chain grows meanwhile, and the cache of the   *)
(* latest block, which follows the BlockAdded events of the event server.  *)
(*                                                                         *)
(* The node client is NodeClient: every question returns, with the node's  *)
(* answer or an error; after an error the node may have got the question.  *)
(* The rate limiters are external: each may refuse any request.            *)
(***************************************************************************)
EXTENDS JsonRpc, RpcMethods, FiniteSets, FiniteSetsExt

CONSTANTS
    Clients,
    Requests,      \* the HTTP requests that clients send; see JsonRpc
    StartHeight,   \* the height of the node's chain at the start
    MaxHeight,     \* bound: the height of the chain
    SwitchBlocks,  \* the heights of the last blocks of eras
    FirstWith,     \* kind of data |-> the first block whose state holds it
    BusCapacity    \* capacity of the channel of sidecar events, 16

(* The kinds of values that a request may hold; server and at say which of *)
(* the two servers it is sent to, and the block or state that it names.    *)
HttpRequests ==
    [path : {"rpc", "other"}, post : BOOLEAN, content_type : {Absent, "json", "other"},
     length : {"fits", "large"}, object : BOOLEAN, jsonrpc : STRING, method : STRING,
     params : {Absent, "null", "empty", "array", "object", "integer", "text", "fraction", "boolean"},
     id : {Absent, "null", "text", "integer", "fraction", "boolean", "array", "object"},
     extra : BOOLEAN, args : {"good", "bad", "malformed"},
     server : {"main", "speculative"}, at : {Latest} \cup [by : {"block", "root", "era"}, height : Nat]]

ASSUME RpcAssumption ==
    /\ Requests \subseteq HttpRequests
    /\ StartHeight \in Nat \ {0} /\ MaxHeight \in Nat /\ StartHeight <= MaxHeight
    /\ SwitchBlocks \subseteq 1 .. MaxHeight
    /\ BusCapacity \in Nat \ {0}

AllowUnknownFields == TRUE   \* ALLOW_UNKNOWN_FIELDS_IN_JSON_RPC_REQUEST
NoBlock == 0

VARIABLES
    height,     \* of the node's chain
    cache,      \* the height of the cached block, or NoBlock
    fetching,   \* the height that cache_update_loop asks for, or NoBlock
    bus,        \* BlockAdded events that the loop has not received
    lagged,     \* the loop has missed events of the channel
    announced,  \* history: the height of the last event
    calls       \* client |-> its request, and how far it is

cacheVars == <<cache, fetching, bus, lagged, announced>>
vars == <<height, cacheVars, calls>>

NoResponse == [status |-> 0, id |-> Absent, outcome |-> "none"]
Idle == [stage |-> "idle", request |-> [method |-> Absent], todo |-> << >>, header |-> NoBlock,
         parts |-> {}, floor |-> NoBlock, asked |-> FALSE, verdicts |-> {}, response |-> NoResponse]

(* Each variable holds what it should: the node knows the cached block,    *)
(* the channel keeps its capacity, and a request has a response exactly    *)
(* when it is done.                                                        *)
TypeOK ==
    /\ height \in StartHeight .. MaxHeight
    /\ cache \in 0 .. height
    /\ fetching \in 0 .. MaxHeight
    /\ bus \in Seq(1 .. MaxHeight) /\ Len(bus) <= BusCapacity
    /\ lagged \in BOOLEAN
    /\ announced \in 0 .. MaxHeight
    /\ \A c \in Clients :
         /\ calls[c].stage \in {"idle", "received", "running", "done"}
         /\ (calls[c].stage = "running") <=> (calls[c].todo # << >>)
         /\ (calls[c].stage = "done") <=> (calls[c].response # NoResponse)
         /\ calls[c].header \in 0 .. height
         /\ calls[c].parts \subseteq 1 .. height

-----------------------------------------------------------------------------
(* The node (external) *)

LatestSwitch(h) == Max({NoBlock} \cup {s \in SwitchBlocks : s <= h})

(* Questions about a block or its state, and the block each one is read    *)
(* at: without an identifier it is the latest block, or the last block of  *)
(* the last finalized era where an era is asked for.                       *)
BlockQuestions == {"header", "block_with_signatures"}
StateQuestions == {"item", "account", "entity", "package", "dictionary_item", "balance", "bids",
                   "registry", "entity_snapshot", "hash_snapshot", "era_summary", "era_info",
                   "named_keys", "entry_points_v1", "entry_points_v2", "transfers", "reward"}

ReadAt(ask, header) ==
    IF ask.what = "switch_header" \/ (ask.what = "reward" /\ ask.at.by = "none") THEN LatestSwitch(height)
    ELSE CASE ask.at.by = "none" -> height
           [] ask.at.by = "header" -> header
           [] OTHER -> ask.at.height

(* The errors that the node may give to a kind of question *)
NodeErrors(what) ==
    {"InternalError"}
    \cup (IF what \in {"item", "dictionary_item"} THEN {"FailedQuery"} ELSE {})
    \cup (IF what = "balance" THEN {"PurseNotFound"} ELSE {})
    \cup (IF what = "reward"
          THEN {"SwitchBlockNotFound", "SwitchBlockParentNotFound", "UnsupportedRewardsV1Request"} ELSE {})
    \cup (IF what \in {"try_accept_transaction", "exec_speculatively"} THEN {"InvalidTransaction"} ELSE {})
    \cup (IF what = "exec_speculatively" THEN {"InvalidItemVariant", "FunctionDisabled"} ELSE {})
    \cup (IF what = "trie" THEN {"FunctionDisabled"} ELSE {})

(* What the node may say: data of the chain is there from the block on     *)
(* that first holds it, data that a client names may not exist.            *)
NodeOutcomes(what, at) ==
    NodeErrors(what) \cup
    (IF at = NoBlock THEN {"not_found"}
     ELSE IF at > height
     THEN IF what \in BlockQuestions THEN {"not_found"} ELSE {"not_found", "RootNotFound"}
     ELSE IF what \in DOMAIN FirstWith
     THEN {IF at >= FirstWith[what] THEN "value" ELSE "not_found"}
     ELSE IF what = "entity" THEN {"value", "legacy", "not_found"}
     ELSE IF what \in {"item", "account", "package", "dictionary_item", "transfers", "reward", "transaction"}
     THEN {"value", "not_found"}
     ELSE {"value"})

(* The chain of the node gets a block *)
Grow ==
    /\ height < MaxHeight
    /\ height' = height + 1
    /\ UNCHANGED <<cacheVars, calls>>

-----------------------------------------------------------------------------
(* The cache of the latest block *)

Quiet == bus = << >> /\ fetching = NoBlock /\ ~lagged

(* The cache is emptied by a failure, and then takes any block: a client   *)
(* may get an old block that is announced while its request runs.          *)
LowerFloor(call, h) ==
    IF call.request.method = "chain_get_block" /\ h < call.floor THEN [call EXCEPT !.floor = h] ELSE call

(* The event server saw a block.  Its nodes are others than the node of    *)
(* this server: they may be ahead of it, or behind.                        *)
Announce(h) ==
    /\ announced' = h
    /\ bus' = IF Len(bus) < BusCapacity THEN Append(bus, h) ELSE Append(Tail(bus), h)
    /\ lagged' = (lagged \/ Len(bus) = BusCapacity)
    /\ calls' = [c \in Clients |-> IF calls[c].stage \in {"received", "running"}
                                    THEN LowerFloor(calls[c], h) ELSE calls[c]]
    /\ UNCHANGED <<height, cache, fetching>>

(* cache_update_loop: an event.  A block that is not higher is skipped. *)
RecvBlockAdded ==
    /\ fetching = NoBlock /\ ~lagged /\ bus # << >>
    /\ bus' = Tail(bus)
    /\ fetching' = IF cache # NoBlock /\ Head(bus) <= cache THEN NoBlock ELSE Head(bus)
    /\ UNCHANGED <<height, cache, lagged, announced, calls>>

(* cache_update_loop: events were lost *)
RecvLagged ==
    /\ fetching = NoBlock /\ lagged
    /\ lagged' = FALSE
    /\ cache' = NoBlock
    /\ UNCHANGED <<height, fetching, bus, announced, calls>>

(* Fault: the cache outlives a fetch that failed *)
KeepOnFailure(outcome, h) == IF outcome = "value" THEN h ELSE cache

(* Fault: the cache takes the announced height for the block *)
TrustAnnouncement(outcome, h) == IF outcome \in {"value", "none"} THEN h ELSE NoBlock

(* The cache after the answer to the fetch of block h *)
CacheAfter(outcome, h) ==
    IF outcome # "value" THEN NoBlock
    ELSE IF cache # NoBlock /\ h <= cache THEN cache ELSE h

(* cache_update_loop: the answer of the node, or an error of the client *)
FetchBlock ==
    /\ fetching # NoBlock
    /\ \E outcome \in NodeOutcomes("block_with_signatures", fetching) \cup ClientErrors :
         cache' = CacheAfter(ParseResponse(outcome), fetching)
    /\ fetching' = NoBlock
    /\ UNCHANGED <<height, bus, lagged, announced, calls>>

-----------------------------------------------------------------------------
(* Requests *)

HandlersOf(server) == IF server = "speculative" THEN SpeculativeHandlers ELSE Handlers

(* The block that an answer may not be behind: the latest block when the   *)
(* request came; for the cached block, the last one that was announced and *)
(* that the node had, if the loop had dealt with all announcements.        *)
Floor(r) ==
    CASE r.method = "chain_get_block" -> IF Quiet /\ announced <= height THEN announced ELSE NoBlock
      [] r.method \in {"chain_get_era_summary", "chain_get_era_info_by_switch_block", "info_get_reward"} ->
           LatestSwitch(height)
      [] OTHER -> height

Send(c, r) ==
    /\ calls[c].stage = "idle"
    /\ calls' = [calls EXCEPT ![c] = [Idle EXCEPT !.stage = "received", !.request = r, !.floor = Floor(r)]]
    /\ UNCHANGED <<height, cacheVars>>

(* The client has its reply *)
Close(c) ==
    /\ calls[c].stage = "done"
    /\ calls' = [calls EXCEPT ![c] = Idle]
    /\ UNCHANGED <<height, cacheVars>>

Respond(call, response) == [call EXCEPT !.stage = "done", !.todo = << >>, !.response = response]

(* run_service: the limit of all requests comes first *)
RefuseTooMany(c) ==
    /\ calls[c].stage = "received"
    /\ calls' = [calls EXCEPT ![c] = Respond(@, [status |-> TooManyRequests, id |-> Absent,
                                                 outcome |-> "TooManyRequests"])]
    /\ UNCHANGED <<height, cacheVars>>

(* What the framework makes of the request: a reply, or "accepted" *)
Framed(c) == Route(calls[c].request, AllowUnknownFields)
IsAccepted(c) == Framed(c).outcome = "accepted"
HandlerOf(c) == HandlersOf(calls[c].request.server)[calls[c].request.method]
HasHandler(c) == calls[c].request.method \in DOMAIN HandlersOf(calls[c].request.server)

Reject(c) ==
    /\ calls[c].stage = "received" /\ ~IsAccepted(c)
    /\ calls' = [calls EXCEPT ![c] = Respond(@, Framed(c))]
    /\ UNCHANGED <<height, cacheVars>>

(* handle_request: there is no such method *)
MethodNotFound(c) ==
    /\ calls[c].stage = "received" /\ IsAccepted(c) /\ ~HasHandler(c)
    /\ calls' = [calls EXCEPT ![c] = Respond(@, NewFailure(Framed(c).id, "MethodNotFound"))]
    /\ UNCHANGED <<height, cacheVars>>

(* handle_request: the limit of the method *)
Throttle(c) ==
    /\ calls[c].stage = "received" /\ IsAccepted(c) /\ HasHandler(c)
    /\ calls' = [calls EXCEPT ![c] = Respond(@, NewFailure(Framed(c).id, "RequestThrottled"))]
    /\ UNCHANGED <<height, cacheVars>>

Run(call, plan) ==
    IF plan = << >> THEN Respond(call, NewSuccess(call.request.id))
    ELSE [call EXCEPT !.stage = "running", !.todo = plan]

(* handle_request and register_as_handler: the parameters are parsed and   *)
(* the method starts                                                       *)
HandleRequest(c) ==
    /\ calls[c].stage = "received" /\ IsAccepted(c) /\ HasHandler(c)
    /\ LET r == calls[c].request
           id == Framed(c).id
       IN calls' = [calls EXCEPT ![c] =
            IF ~ParsesAs(r, HandlerOf(c).params) THEN Respond(@, NewFailure(id, "InvalidParams"))
            ELSE IF r.args = "malformed" THEN Respond(@, NewFailure(id, Code(HandlerOf(c).malformed)))
            ELSE Run(@, Plan(r.method, r.at))]
    /\ UNCHANGED <<height, cacheVars>>

-----------------------------------------------------------------------------
(* The steps of a method *)

Fail(call, error) == Respond(call, NewFailure(call.request.id, Code(error)))

(* The rest of the method goes on, or the result is complete *)
Continue(call, rest) ==
    IF rest = << >> THEN Respond(call, NewSuccess(call.request.id)) ELSE [call EXCEPT !.todo = rest]

(* The steps that are left after step i was answered with a value of a block *)
After(call, outcome, at) ==
    LET step == Head(call.todo) IN
    IF \/ step.stop = "legacy" /\ outcome = "legacy"
       \/ step.stop = "no_switch" /\ at \notin SwitchBlocks
    THEN << >>
    ELSE IF step.none = "else" THEN Tail(Tail(call.todo)) ELSE Tail(call.todo)

(* A value: it is a part of the result, and the block of a header pins     *)
(* what follows.  The registry of system contracts is no part of it.       *)
Found(call, outcome, at) ==
    LET what == Head(call.todo).ask.what IN
    Continue([call EXCEPT
        !.header = IF what \in {"header", "switch_header"} THEN at ELSE @,
        !.parts = IF what \in BlockQuestions \cup StateQuestions \cup {"switch_header"} /\ what # "registry"
                  THEN @ \cup {at} ELSE @], After(call, outcome, at))

(* The range that goes with the error for a missing block *)
RangeStep == Step(ReadAvailableBlockRange, "EmptyEnvelope")

(* Fault: what is missing is asked for until it is there *)
PollUntilThere(call) == [call EXCEPT !.todo = << Always(ReadNodeStatus) >> \o @]

(* No value *)
Missing(call) ==
    LET step == Head(call.todo) IN
    CASE step.none = "NoBlockFound" -> [call EXCEPT !.todo = << RangeStep >>]
      [] step.none = "else" -> [call EXCEPT !.todo = Tail(@)]
      [] step.none = "null" -> Continue(call, Tail(call.todo))
      [] OTHER -> Fail(call, step.none)

(* The method gets the answer to its question *)
Answered(call, outcome, at) ==
    LET step == Head(call.todo)
        parsed == IF step.ask.what = "try_accept_transaction" THEN AcceptanceOf(outcome)
                  ELSE ParseResponse(outcome)
    IN CASE outcome = "odd" -> Fail(call, step.bad)
         [] parsed = "value" /\ step.ask.what = "available_block_range" -> Fail(call, "NoBlockFound")
         [] parsed \in {"value", "legacy"} /\ step.ask.what # "available_block_range" -> Found(call, parsed, at)
         [] parsed = "none" -> Missing(call)
         [] parsed = "InvalidTransaction" -> Fail(call, step.refused)
         [] OTHER -> Fail(call, parsed)

(* What the node made of a submission when it got it.  The node client     *)
(* sends it again after a lost connection, so that the node may have dealt *)
(* with it before, and differently, and also when there is no answer.      *)
Verdicts(what, outcome) ==
    IF what # "try_accept_transaction" THEN {{}}
    ELSE {v \in SUBSET {"accepted", "refused"} :
            /\ outcome = "value" => "accepted" \in v
            /\ outcome = "InvalidTransaction" => "refused" \in v}

(* The node answers *)
AskNode(c) ==
    /\ calls[c].stage = "running"
    /\ LET call == calls[c]
           step == Head(call.todo)
           at == ReadAt(step.ask, call.header)
       IN \E outcome \in NodeOutcomes(step.ask.what, at) \cup (IF step.bad = "" THEN {} ELSE {"odd"}) :
            /\ outcome = "odd" => "value" \in NodeOutcomes(step.ask.what, at)
            /\ \E verdicts \in Verdicts(step.ask.what, outcome) :
                 calls' = [calls EXCEPT ![c] =
                   Answered([call EXCEPT !.asked = TRUE, !.verdicts = verdicts], outcome, at)]
    /\ UNCHANGED <<height, cacheVars>>

(* The node client reports an error.  The node may have accepted the       *)
(* transaction all the same.                                               *)
AskFails(c) ==
    /\ calls[c].stage = "running"
    /\ \E error \in ClientErrors :
         \E verdicts \in Verdicts(Head(calls[c].todo).ask.what, error) :
              calls' = [calls EXCEPT ![c] =
                Answered([@ EXCEPT !.asked = TRUE, !.verdicts = verdicts], error, NoBlock)]
    /\ UNCHANGED <<height, cacheVars>>

(* CachingNodeClient: the latest block comes from the cache, unless it is  *)
(* empty or its lock is not to be had within 5 ms.                         *)
GetBlockFromCache(c) ==
    /\ calls[c].stage = "running"
    /\ Head(calls[c].todo).ask = ReadBlockWithSignatures(Latest)
    /\ cache # NoBlock
    /\ calls' = [calls EXCEPT ![c] = Found(@, "value", cache)]
    /\ UNCHANGED <<height, cacheVars>>

Ask(c) == AskNode(c) \/ AskFails(c) \/ GetBlockFromCache(c)
Dispatch(c) == Reject(c) \/ MethodNotFound(c) \/ Throttle(c) \/ HandleRequest(c)

-----------------------------------------------------------------------------
Init ==
    /\ height = StartHeight
    /\ cache = NoBlock /\ fetching = NoBlock
    /\ bus = << >> /\ lagged = FALSE /\ announced = NoBlock
    /\ calls = [c \in Clients |-> Idle]

Loop == RecvBlockAdded \/ RecvLagged \/ FetchBlock

Next ==
    \/ Grow
    \/ \E h \in 1 .. MaxHeight : Announce(h)
    \/ Loop
    \/ \E c \in Clients : \/ \E r \in Requests : Send(c, r)
                          \/ Close(c)
                          \/ RefuseTooMany(c)
                          \/ Dispatch(c)
                          \/ Ask(c)

Spec == Init /\ [][Next]_vars

(* The tasks of the runtime run; the node client always returns *)
FairSpec ==
    /\ Spec
    /\ WF_vars(Loop)
    /\ \A c \in Clients : WF_vars(Dispatch(c)) /\ WF_vars(Ask(c))

-----------------------------------------------------------------------------
(* Properties *)

Succeeded(c) == calls[c].stage = "done" /\ calls[c].response.outcome = "success"

(* The parts of a result are of one block: of the one that the request     *)
(* named, or else of the one whose header was read, however the chain grew *)
(* between the questions.  state_get_entity without a block identifier is  *)
(* excepted: it asks for the latest state with each of its questions.      *)
OneBlock ==
    \A c \in Clients : Succeeded(c) =>
        LET r == calls[c].request IN
        /\ r.at.by # "none" => calls[c].parts \subseteq {r.at.height}
        /\ r.method # "state_get_entity" => Cardinality(calls[c].parts) <= 1

(* A result for the latest block is not of a block behind the chain that   *)
(* the node had when the request came.  chain_get_block, which may come    *)
(* from the cache, is not behind the last announcement that was dealt with *)
(* by then, nor behind one that came since: a failed fetch or lost events  *)
(* empty the cache.                                                        *)
NotBehind ==
    \A c \in Clients : Succeeded(c) /\ calls[c].request.at.by = "none" =>
        \A b \in calls[c].parts : b >= calls[c].floor

(* A client that submits a transaction or a deploy learns that it was      *)
(* accepted only if the node accepted it, and that it is invalid only if   *)
(* the node refused it; the other errors leave it open.                    *)
SubmitTruthful ==
    \A c \in Clients :
        /\ calls[c].stage = "done"
        /\ calls[c].request.method \in {"account_put_deploy", "account_put_transaction"}
        => /\ Succeeded(c) => "accepted" \in calls[c].verdicts
           /\ calls[c].response.outcome \in {"InvalidTransaction", "InvalidDeploy"} => "refused" \in calls[c].verdicts

(* What the JSON-RPC specification calls a request that is to be answered; *)
(* the doc of Request::new lists it.                                       *)
IsCall(r) ==
    /\ r.path = "rpc" /\ r.post /\ r.content_type = "json" /\ r.length = "fits" /\ r.object
    /\ r.jsonrpc = "2.0"
    /\ r.method \in DOMAIN HandlersOf(r.server)
    /\ r.id \in {"text", "integer", "null"}
    /\ r.params \in {"absent", "null", "empty", "array", "object"}

(* Only a well-formed call reaches the node: a notification, which has no  *)
(* id, never does.  Every JSON-RPC reply carries the id of its request, or *)
(* null where there is no id to be had.                                    *)
OnlyCallsRun ==
    \A c \in Clients :
        LET r == calls[c].request
            response == calls[c].response
        IN /\ calls[c].asked => IsCall(r)
           /\ response.status = 200 =>
                \/ response.id = r.id
                \/ response.id = "null" /\ (~r.object \/ r.id \notin {"text", "integer", "null"})

(* Every request gets a reply, whatever the node answers *)
RequestsAnswered == \A c \in Clients : (calls[c].stage = "received") ~> (calls[c].stage = "done")
=============================================================================
