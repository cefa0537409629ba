--------------------------- MODULE RpcServerProofs ---------------------------
(***************************************************************************)
(* What holds of the RPC servers for any number of clients, any requests,  *)
(* any growth of the chain and any capacity of the event channel: which    *)
(* requests reach the node, of which block a result is, and what a  *)
(* client learns of a transaction that it submits.                         *)
(***************************************************************************)
EXTENDS RpcServer, TLAPS, FiniteSetTheorems, SequenceTheorems

-----------------------------------------------------------------------------
\* The inductive invariants.

\* Identifiers, steps and replies.
Ids == {Latest, Header} \cup [by : {"block", "root", "era"}, height : Nat]
Whats == BlockQuestions \cup StateQuestions
         \cup {"switch_header", "trie", "try_accept_transaction", "exec_speculatively", "transaction", "peers",
               "available_block_range", "chainspec", "validator_changes", "status"}
Nones == {"", "else", "null", "EmptyEnvelope", "NoBlockFound", "GlobalStateEntryNotFound", "NoDeployWithHash",
          "NoTransactionWithHash", "RewardNotFound", "AccountNotFound", "AddressableEntityNotFound"}
Bads == {"", "InvalidNamedKeys", "InvalidAuctionState", "FoundTransactionInsteadOfDeploy", "AccountMigratedToEntity"}
Refusals == {"InvalidTransaction", "DeployIsInvalid", "TransactionIsInvalid"}
Stops == {"", "legacy", "no_switch"}
Steps == [ask : [what : Whats, at : Ids], none : Nones, bad : Bads, refused : Refusals, stop : Stops]

Codes == {"NoSuchStateRoot", "QueryFailed", "VariantMismatch", "NoSuchBlock", "NoSuchTransaction", "NoSuchDeploy",
          "NoSuchAccount", "NoSuchAddressableEntity", "NoRewardsFound", "FailedToParseGetBalanceURef",
          "FailedToParseQueryKey", "InvalidTransaction", "InvalidDeploy", "QueryFailedToExecute",
          "FunctionIsDisabled", "SwitchBlockNotFound", "SwitchBlockParentNotFound", "UnsupportedRewardsV1Request",
          "PurseNotFound", "AccountMigratedToEntity", "InternalError", "NodeRequestFailed"}
Refused == {"NotFound", "MethodNotAllowed", "MissingHeader", "InvalidHeader", "BodyTooLarge", "MissingId",
            "ParseError", "InvalidRequest", "MethodNotFound", "RequestThrottled", "InvalidParams", "TooManyRequests"}
Kinds == {Absent, "null", "text", "integer", "fraction", "boolean", "array", "object"}
Responses == [status : Nat, id : Kinds, outcome : Codes \cup Refused \cup {"none", "success"}]
NoRequest == [method |-> Absent]

CallTypes ==
    [stage : {"idle", "received", "running", "done"}, request : HttpRequests \cup {NoRequest},
     todo : Seq(Steps), header : Nat, parts : SUBSET Nat, floor : Nat, asked : BOOLEAN,
     verdicts : SUBSET {"accepted", "refused"}, response : Responses]

\* Where a call is, and what it keeps at each stage, with the node at height h.
Staged(k, h) ==
    /\ k \in CallTypes
    /\ k.stage # "idle" => k.request \in HttpRequests
    /\ k.stage = "running" <=> k.todo # << >>
    /\ k.stage = "done" <=> k.response # NoResponse
    /\ k.stage = "done" <=> k.response.status # 0
    /\ k.stage \in {"idle", "received"} => k.header = NoBlock /\ k.parts = {} /\ ~k.asked
    /\ k.header <= h /\ k.parts \subseteq 1 .. h

\* Only calls run, and a reply carries the id of its request.
Called(k) ==
    /\ k.asked \/ k.stage = "running" => IsCall(k.request)
    /\ k.response.status = 200 =>
          \/ k.response.id = k.request.id
          \/ k.response.id = "null" /\ (~k.request.object \/ k.request.id \notin {"text", "integer", "null"})

\* What a question adds to the result, and the methods of an era.
IsPart(what) == what \in BlockQuestions \cup StateQuestions \cup {"switch_header"} /\ what # "registry"
EraMethods == {"chain_get_era_summary", "chain_get_era_info_by_switch_block"}
OfEras == EraMethods \cup {"info_get_reward"}
PutMethods == {"account_put_deploy", "account_put_transaction"}

\* A step that asks for the alternative of another one is never the last.
ElseGoesOn(q) == \A i \in 1 .. Len(q) : q[i].none = "else" => i < Len(q)

\* A method of one question,
SingleStep(s, method, id) ==
    /\ s.none # "else" /\ s.ask.what # "switch_header"
    /\ IsPart(s.ask.what) => s.ask.at = id
    /\ s.ask.what = "reward" => method = "info_get_reward"
    /\ s.ask = ReadBlockWithSignatures(Latest) => method = "chain_get_block"

\* the header that pins the block of what follows it,
PinningStep(s, method, id) ==
    /\ s.none = "NoBlockFound"
    /\ s.ask = IF id = Latest /\ method \in EraMethods THEN ReadLatestSwitchBlockHeader ELSE ReadBlockHeader(id)

\* a step after that header,
PinnedStep(s, id) ==
    /\ s.ask.what \notin BlockQuestions \cup {"switch_header", "reward"}
    /\ IsPart(s.ask.what) => s.ask.at = Header \/ (s.ask.at = id /\ id # Latest)

\* and a step of state_get_entity, which has no header.
EntityStep(s, id) ==
    /\ s.none # "else" /\ s.ask.what \notin BlockQuestions \cup {"switch_header", "reward"} /\ s.ask.at = id

\* How the steps of a method are arranged before its first answer.
IsSingle(q, method, id) == Len(q) = 1 /\ SingleStep(q[1], method, id)
IsPinning(q, method, id) ==
    /\ Len(q) > 1 /\ PinningStep(q[1], method, id) /\ method \notin PutMethods
    /\ \A i \in 2 .. Len(q) : PinnedStep(q[i], id)
    /\ ElseGoesOn(q)
IsPinned(q, method, id) ==
    /\ method \notin PutMethods
    /\ \A i \in 1 .. Len(q) : PinnedStep(q[i], id)
    /\ ElseGoesOn(q)
IsEntity(q, method, id) == method = "state_get_entity" /\ \A i \in 1 .. Len(q) : EntityStep(q[i], id)

Arranged(q, method, id) ==
    /\ q \in Seq(Steps)
    /\ q = << >> \/ IsSingle(q, method, id) \/ IsPinning(q, method, id) \/ IsEntity(q, method, id)

\* A running call: before the first answer, after the header of its block, between
\* the questions of state_get_entity, or about to report the available range.
Going(r, todo, header, parts) ==
    \/ header = NoBlock /\ parts = {} /\ IsSingle(todo, r.method, r.at)
    \/ header = NoBlock /\ parts = {} /\ IsPinning(todo, r.method, r.at)
    \/ header # NoBlock /\ IsPinned(todo, r.method, r.at)
    \/ header = NoBlock /\ IsEntity(todo, r.method, r.at)
    \/ todo = << RangeStep >> /\ r.method \notin PutMethods

Underway(k) == Going(k.request, k.todo, k.header, k.parts)

\* The block of a result: at least the floor if the request names none, the named
\* one else; all of one block, that of the header, but for state_get_entity.
OfBlock(k) ==
    /\ k.header # NoBlock => k.parts \subseteq {k.header}
    /\ k.request.method # "state_get_entity" => \A a, b \in k.parts : a = b
    /\ k.request.at = Latest =>
          /\ \A b \in k.parts : b >= k.floor
          /\ k.header # NoBlock => k.header >= k.floor
    /\ k.request.at # Latest =>
          /\ k.parts \subseteq {k.request.at.height}
          /\ k.header # NoBlock => k.header = k.request.at.height

\* The chain has reached the floor.
FloorReached(k, h) == k.floor <= IF k.request.method \in OfEras THEN LatestSwitch(h) ELSE h

\* A submission has its one step to take, and its reply says what the node said.
Submission(k) ==
    k.request.method \in PutMethods =>
        /\ k.stage = "running" => k.todo = Plan(k.request.method, k.request.at)
        /\ k.stage = "done" =>
              /\ k.response.outcome = "success" => "accepted" \in k.verdicts
              /\ k.response.outcome \in {"InvalidTransaction", "InvalidDeploy"} => "refused" \in k.verdicts

CallInv(k, h) ==
    /\ Staged(k, h) /\ Called(k)
    /\ k.stage # "idle" => OfBlock(k)
    /\ k.stage = "running" => Underway(k)
    /\ k.stage \in {"received", "running"} => FloorReached(k, h)
    /\ Submission(k)

\* The chain, the channel and the cache.
ChainTypes ==
    /\ height \in StartHeight .. MaxHeight
    /\ cache \in 0 .. height
    /\ fetching \in 0 .. MaxHeight
    /\ bus \in Seq(1 .. MaxHeight) /\ Len(bus) <= BusCapacity
    /\ lagged \in BOOLEAN
    /\ announced \in 0 .. MaxHeight

CallsInv ==
    /\ calls \in [Clients -> CallTypes]
    /\ \A c \in Clients : CallInv(calls[c], height)

\* The last announcement is the last one in the channel, or the one being fetched,
\* or the cache has it or is empty.
AnnouncementKept ==
    /\ bus # << >> => bus[Len(bus)] = announced
    /\ bus = << >> /\ fetching # NoBlock => fetching = announced
    /\ bus = << >> /\ fetching = NoBlock => cache = NoBlock \/ cache >= announced

\* Whatever the cache holds or may take is not below the floor of a running call.
Guarded(k) ==
    k.stage \in {"received", "running"} /\ k.request.method = "chain_get_block" =>
        /\ \A i \in 1 .. Len(bus) : bus[i] >= k.floor
        /\ fetching # NoBlock => fetching >= k.floor
        /\ cache # NoBlock => cache >= k.floor

FloorKept == \A c \in Clients : Guarded(calls[c])

RpcInv == ChainTypes /\ CallsInv /\ AnnouncementKept /\ FloorKept
-----------------------------------------------------------------------------
\* Operators of the node.

LEMMA Sizes ==
    /\ StartHeight \in Nat /\ StartHeight >= 1 /\ MaxHeight \in Nat /\ StartHeight <= MaxHeight
    /\ BusCapacity \in Nat /\ BusCapacity >= 1
    /\ \A s \in SwitchBlocks : s \in Nat
    /\ Requests \subseteq HttpRequests
<1>1. SwitchBlocks \subseteq 1 .. MaxHeight
    BY RpcAssumption
<1> QED BY <1>1, RpcAssumption

\* A bounded set of numbers has a greatest element: the mirror image has a least.
LEMMA MaxIsGreatest ==
    ASSUME NEW n \in Nat, NEW S, S \subseteq 0 .. n, S # {}
    PROVE  Max(S) \in S /\ \A v \in S : Max(S) >= v
<1> DEFINE R == {ss \in Nat \X Nat : ss[1] < ss[2]}
           T == {n - v : v \in S}
<1>1. \A v, w \in Nat : v < w => <<v, w>> \in R
    OBVIOUS
<1>2. IsWellFoundedOn(R, Nat)
    BY NatLessThanWellFounded, Zenon DEF OpToRel
<1>3. T \subseteq Nat /\ T # {}
    <2>1. \A v \in S : n - v \in Nat
        OBVIOUS
    <2>2. PICK v \in S : TRUE
        OBVIOUS
    <2>3. n - v \in T
        OBVIOUS
    <2> QED BY <2>1, <2>3
<1>4. PICK t \in T : \A u \in T : <<u, t>> \notin R
    <2> HIDE DEF R, T
    <2> QED BY <1>2, <1>3, WFMin
<1>5. \A u \in T : ~(u < t)
    <2> HIDE DEF R, T
    <2> QED BY <1>1, <1>3, <1>4, Zenon
<1>6. PICK v \in S : t = n - v
    OBVIOUS
<1>7. \A w \in S : v >= w
    <2> SUFFICES ASSUME NEW w \in S PROVE v >= w
        OBVIOUS
    <2>1. n - w \in T /\ v \in Int /\ w \in Int
        OBVIOUS
    <2> QED BY <1>5, <1>6, <2>1
<1>8. \E x \in S : \A y \in S : x >= y
    BY <1>7
<1> QED BY <1>8, Zenon DEF Max

LEMMA SwitchBlockRange ==
    ASSUME NEW h \in Nat
    PROVE  /\ LatestSwitch(h) \in 0 .. h
           /\ \A g \in Nat : h <= g => LatestSwitch(h) <= LatestSwitch(g)
<1> DEFINE S(g) == {NoBlock} \cup {s \in SwitchBlocks : s <= g}
<1>1. \A g \in Nat : S(g) \subseteq 0 .. g /\ S(g) # {}
    BY Sizes DEF NoBlock
<1>2. \A g \in Nat : LatestSwitch(g) = Max(S(g))
    BY DEF LatestSwitch
<1>3. \A g \in Nat : h <= g => S(h) \subseteq S(g)
    BY Sizes
<1> HIDE DEF S
<1>4. \A g \in Nat : Max(S(g)) \in S(g) /\ \A v \in S(g) : Max(S(g)) >= v
    BY <1>1, MaxIsGreatest
<1>5. LatestSwitch(h) \in 0 .. h
    BY <1>1, <1>2, <1>4
<1>6. ASSUME NEW g \in Nat, h <= g PROVE LatestSwitch(h) <= LatestSwitch(g)
    <2>1. Max(S(h)) \in S(g) /\ Max(S(g)) >= Max(S(h))
        BY <1>3, <1>4, <1>6
    <2>2. Max(S(g)) \in Nat /\ Max(S(h)) \in Nat
        BY <1>1, <1>4
    <2> QED BY <1>2, <2>1, <2>2
<1> QED BY <1>5, <1>6

\* What the client makes of an answer.
LEMMA Parsed ==
    ASSUME NEW outcome
    PROVE  /\ ParseResponse(outcome) = "value" <=> outcome = "value"
           /\ ParseResponse(outcome) = "legacy" <=> outcome = "legacy"
           /\ AcceptanceOf(outcome) = "value" <=> outcome = "value"
           /\ AcceptanceOf(outcome) = "legacy" <=> outcome = "legacy"
BY DEF ParseResponse, AcceptanceOf, FromErrorCode, ErrorCodes, InvalidTransactionOrDeploy
-----------------------------------------------------------------------------
\* The plans of the methods.

ClientIds == {Latest} \cup [by : {"block", "root", "era"}, height : Nat]

LEMMA IdsDiffer ==
    /\ ClientIds \subseteq Ids /\ Latest \in ClientIds /\ Latest \in Ids /\ Header \in Ids
    /\ Header \notin ClientIds /\ Latest # Header
    /\ \A id \in ClientIds : id.by = "none" <=> id = Latest
BY DEF ClientIds, Ids, Latest, Header

IsStep(s, what, at, none) ==
    /\ s \in Steps /\ s.ask = Question(what, at) /\ s.ask.what = what /\ s.ask.at = at
    /\ s.none = none /\ s.bad = "" /\ s.refused = "InvalidTransaction" /\ s.stop = ""

LEMMA StepType ==
    ASSUME NEW what \in Whats, NEW at \in Ids, NEW none \in Nones
    PROVE  IsStep(Step(Question(what, at), none), what, at, none)
<1>1. "" \in Bads /\ "" \in Stops /\ "InvalidTransaction" \in Refusals
    BY DEF Bads, Stops, Refusals
<1> QED BY <1>1 DEF Question, Step, Steps, IsStep

\* A step with one field replaced.
LEMMA StepExcept ==
    ASSUME NEW s \in Steps
    PROVE  /\ \A x \in Bads : LET t == [s EXCEPT !.bad = x] IN
              t \in Steps /\ t.ask = s.ask /\ t.none = s.none /\ t.refused = s.refused /\ t.stop = s.stop
           /\ \A x \in Refusals : LET t == [s EXCEPT !.refused = x] IN
              t \in Steps /\ t.ask = s.ask /\ t.none = s.none /\ t.bad = s.bad /\ t.stop = s.stop
           /\ \A x \in Stops : LET t == [s EXCEPT !.stop = x] IN
              t \in Steps /\ t.ask = s.ask /\ t.none = s.none /\ t.bad = s.bad /\ t.refused = s.refused
<1>1. \A x \in Bads : LET t == [s EXCEPT !.bad = x] IN
         t \in Steps /\ t.ask = s.ask /\ t.none = s.none /\ t.refused = s.refused /\ t.stop = s.stop
    BY DEF Steps
<1>2. \A x \in Refusals : LET t == [s EXCEPT !.refused = x] IN
         t \in Steps /\ t.ask = s.ask /\ t.none = s.none /\ t.bad = s.bad /\ t.stop = s.stop
    BY DEF Steps
<1>3. \A x \in Stops : LET t == [s EXCEPT !.stop = x] IN
         t \in Steps /\ t.ask = s.ask /\ t.none = s.none /\ t.bad = s.bad /\ t.refused = s.refused
    BY DEF Steps
<1> QED BY <1>1, <1>2, <1>3, Zenon

\* The sequences that the plans are put together from.
LEMMA SingleArranged ==
    ASSUME NEW s \in Steps, NEW method, NEW id, SingleStep(s, method, id)
    PROVE  Arranged(<< s >>, method, id)
<1>1. << s >> \in Seq(Steps) /\ Len(<< s >>) = 1 /\ << s >>[1] = s
    OBVIOUS
<1> QED BY <1>1 DEF Arranged, IsSingle

LEMMA PinningArranged ==
    ASSUME NEW method, method \notin PutMethods, NEW id, NEW a \in Steps, PinningStep(a, method, id),
           NEW q \in Seq(Steps), Len(q) \in {2, 3, 5}, q[1] = a,
           \A i \in 2 .. Len(q) : PinnedStep(q[i], id), ElseGoesOn(q)
    PROVE  Arranged(q, method, id)
<1>1. Len(q) > 1
    OBVIOUS
<1> QED BY <1>1 DEF Arranged, IsPinning

PinnedAs(s, none, id) == s \in Steps /\ s.none = none /\ PinnedStep(s, id)

\* A header and one, two or four steps, as the methods put them together.
LEMMA HeaderAndOne ==
    ASSUME NEW method, method \notin PutMethods, NEW id, NEW a \in Steps, PinningStep(a, method, id),
           NEW n, n # "else", NEW b, PinnedAs(b, n, id), NEW q, q = << a, b >> \/ q = << a >> \o << b >>
    PROVE  Arranged(q, method, id)
<1>1. b \in Steps /\ PinnedStep(b, id) /\ b.none # "else"
    BY DEF PinnedAs
<1>2. q \in Seq(Steps) /\ Len(q) = 2 /\ q[1] = a /\ q[2] = b
    <2>1. CASE q = << a, b >>
        BY <1>1, <2>1
    <2>2. CASE q = << a >> \o << b >>
        BY <1>1, <2>2
    <2> QED BY <2>1, <2>2
<1>3. a.none # "else"
    BY DEF PinningStep
<1>4. ElseGoesOn(q) /\ \A i \in 2 .. Len(q) : PinnedStep(q[i], id)
    BY <1>1, <1>2, <1>3 DEF ElseGoesOn
<1> QED BY <1>2, <1>4, PinningArranged

LEMMA HeaderAndTwo ==
    ASSUME NEW method, method \notin PutMethods, NEW id, NEW a \in Steps, PinningStep(a, method, id),
           NEW n, n # "else", NEW m, NEW b, PinnedAs(b, m, id), NEW c, PinnedAs(c, n, id),
           NEW q, q = << a >> \o << b, c >>
    PROVE  Arranged(q, method, id)
<1>1. /\ b \in Steps /\ PinnedStep(b, id) /\ c \in Steps /\ PinnedStep(c, id) /\ c.none # "else"
    BY DEF PinnedAs
<1>2. q \in Seq(Steps) /\ Len(q) = 3 /\ q[1] = a /\ q[2] = b /\ q[3] = c
    BY <1>1
<1>3. a.none # "else"
    BY DEF PinningStep
<1>4. ElseGoesOn(q) /\ \A i \in 2 .. Len(q) : PinnedStep(q[i], id)
    BY <1>1, <1>2, <1>3 DEF ElseGoesOn
<1> QED BY <1>2, <1>4, PinningArranged

LEMMA HeaderAndFour ==
    ASSUME NEW method, method \notin PutMethods, NEW id, NEW a \in Steps, PinningStep(a, method, id),
           NEW n, n # "else", NEW k, NEW l, NEW m, NEW b, PinnedAs(b, k, id), NEW c, PinnedAs(c, l, id),
           NEW d, PinnedAs(d, m, id), NEW e, PinnedAs(e, n, id), NEW q, q = << a, b, c >> \o << d, e >>
    PROVE  Arranged(q, method, id)
<1>1. /\ b \in Steps /\ PinnedStep(b, id) /\ c \in Steps /\ PinnedStep(c, id)
      /\ d \in Steps /\ PinnedStep(d, id) /\ e \in Steps /\ PinnedStep(e, id) /\ e.none # "else"
    BY DEF PinnedAs
<1>2. q \in Seq(Steps) /\ Len(q) = 5 /\ q[1] = a /\ q[2] = b /\ q[3] = c /\ q[4] = d /\ q[5] = e
    BY <1>1
<1>3. \A i \in 2 .. Len(q) : i = 2 \/ i = 3 \/ i = 4 \/ i = 5
    BY <1>2
<1>4. \A i \in 2 .. Len(q) : PinnedStep(q[i], id)
    BY <1>1, <1>2, <1>3
<1>5. ElseGoesOn(q)
    BY <1>1, <1>2 DEF ElseGoesOn
<1> QED BY <1>2, <1>4, <1>5, PinningArranged

\* The methods of one question.
LEMMA OneQuestion ==
    ASSUME NEW what \in Whats, NEW at \in Ids, NEW none \in Nones, NEW method, NEW id \in ClientIds,
           none # "else", what # "switch_header", IsPart(what) => at = id,
           what = "reward" => method = "info_get_reward",
           Question(what, at) = ReadBlockWithSignatures(Latest) => method = "chain_get_block"
    PROVE  /\ Arranged(<< Step(Question(what, at), none) >>, method, id)
           /\ \A x \in Bads : Arranged(<< [Step(Question(what, at), none) EXCEPT !.bad = x] >>, method, id)
           /\ \A x \in Refusals : Arranged(<< [Step(Question(what, at), none) EXCEPT !.refused = x] >>, method, id)
<1>1. PICK s : s = Step(Question(what, at), none)
    OBVIOUS
<1>2. s \in Steps /\ s.ask = Question(what, at) /\ s.ask.what = what /\ s.ask.at = at /\ s.none = none
    <2>1. IsStep(s, what, at, none)
        BY <1>1, StepType
    <2> QED BY <2>1 DEF IsStep
<1>3. \A t \in Steps : t.ask = s.ask /\ t.none = s.none => SingleStep(t, method, id)
    BY <1>2 DEF SingleStep
<1>4. Arranged(<< s >>, method, id)
    BY <1>2, <1>3, SingleArranged
<1>5. ASSUME NEW x \in Bads
      PROVE  Arranged(<< [s EXCEPT !.bad = x] >>, method, id)
    <2>1. PICK t : t = [s EXCEPT !.bad = x]
        OBVIOUS
    <2>2. t \in Steps /\ t.ask = s.ask /\ t.none = s.none
        BY <1>2, <2>1, StepExcept, Zenon
    <2>3. Arranged(<< t >>, method, id)
        BY <1>3, <2>2, SingleArranged
    <2> QED BY <2>1, <2>3, Zenon
<1>6. ASSUME NEW x \in Refusals
      PROVE  Arranged(<< [s EXCEPT !.refused = x] >>, method, id)
    <2>1. PICK t : t = [s EXCEPT !.refused = x]
        OBVIOUS
    <2>2. t \in Steps /\ t.ask = s.ask /\ t.none = s.none
        BY <1>2, <2>1, StepExcept, Zenon
    <2>3. Arranged(<< t >>, method, id)
        BY <1>3, <2>2, SingleArranged
    <2> QED BY <2>1, <2>3, Zenon
<1> QED BY <1>1, <1>4, <1>5, <1>6, Zenon

\* A question after the header.
LEMMA PinnedQuestion ==
    ASSUME NEW what \in Whats, NEW at \in Ids, NEW none \in Nones, NEW id,
           what \notin BlockQuestions \cup {"switch_header", "reward"},
           IsPart(what) => at = Header \/ (at = id /\ id # Latest)
    PROVE  /\ PinnedAs(Step(Question(what, at), none), none, id)
           /\ \A x \in Bads : PinnedAs([Step(Question(what, at), none) EXCEPT !.bad = x], none, id)
<1>1. PICK s : s = Step(Question(what, at), none)
    OBVIOUS
<1>2. s \in Steps /\ s.ask = Question(what, at) /\ s.ask.what = what /\ s.ask.at = at /\ s.none = none
    <2>1. IsStep(s, what, at, none)
        BY <1>1, StepType
    <2> QED BY <2>1 DEF IsStep
<1>3. \A t \in Steps : t.ask = s.ask /\ t.none = s.none => PinnedAs(t, none, id)
    BY <1>2 DEF PinnedAs, PinnedStep
<1>4. PinnedAs(s, none, id)
    BY <1>2, <1>3
<1>5. ASSUME NEW x \in Bads
      PROVE  PinnedAs([s EXCEPT !.bad = x], none, id)
    <2>1. PICK t : t = [s EXCEPT !.bad = x]
        OBVIOUS
    <2>2. t \in Steps /\ t.ask = s.ask /\ t.none = s.none
        BY <1>2, <2>1, StepExcept, Zenon
    <2> QED BY <1>3, <2>1, <2>2
<1> QED BY <1>1, <1>4, <1>5, Zenon

\* The header that the methods start with.
LEMMA HeaderStep ==
    ASSUME NEW id \in ClientIds, NEW method
    PROVE  /\ IsStep(GetBlockHeader(id), "header", id, "NoBlockFound")
           /\ IsStep(GetLatestSwitchBlockHeader, "switch_header", Latest, "NoBlockFound")
           /\ id # Latest \/ method \notin EraMethods => PinningStep(GetBlockHeader(id), method, id)
           /\ method \in EraMethods => PinningStep(HeaderOrLatestSwitch(id), method, id)
<1>1. id \in Ids /\ Latest \in Ids
    BY IdsDiffer
<1>2. "header" \in Whats /\ "switch_header" \in Whats /\ "NoBlockFound" \in Nones
    BY DEF Whats, BlockQuestions, Nones
<1>3. /\ IsStep(GetBlockHeader(id), "header", id, "NoBlockFound")
      /\ IsStep(GetLatestSwitchBlockHeader, "switch_header", Latest, "NoBlockFound")
    BY <1>1, <1>2, StepType DEF GetBlockHeader, GetLatestSwitchBlockHeader, ReadBlockHeader, ReadLatestSwitchBlockHeader
<1>4. id # Latest \/ method \notin EraMethods => PinningStep(GetBlockHeader(id), method, id)
    BY <1>3 DEF IsStep, PinningStep, ReadBlockHeader
<1>5. method \in EraMethods => PinningStep(HeaderOrLatestSwitch(id), method, id)
    BY <1>3 DEF IsStep, PinningStep, ReadBlockHeader, ReadLatestSwitchBlockHeader, HeaderOrLatestSwitch
<1> QED BY <1>3, <1>4, <1>5

\* The methods that read a header first.
LEMMA TransfersArranged ==
    ASSUME NEW id \in ClientIds
    PROVE  Arranged(GetBlockTransfers(id), "chain_get_block_transfers", id)
<1>1. PICK a, b : a = GetBlockHeader(id) /\ b = Step(Question("transfers", Header), "null")
    OBVIOUS
<1>2. a \in Steps /\ PinningStep(a, "chain_get_block_transfers", id)
    BY <1>1, HeaderStep DEF IsStep, EraMethods
<1>3. /\ "transfers" \in Whats /\ "null" \in Nones /\ "transfers" \notin BlockQuestions \cup {"switch_header"}
      /\ "chain_get_block_transfers" \notin PutMethods
    BY DEF Whats, Nones, BlockQuestions, StateQuestions, PutMethods
<1>4. PinnedAs(b, "null", id)
    BY <1>1, <1>3, IdsDiffer, PinnedQuestion
<1>5. Arranged(<< a, b >>, "chain_get_block_transfers", id)
    BY <1>2, <1>3, <1>4, HeaderAndOne
<1> QED BY <1>1, <1>5 DEF GetBlockTransfers, ReadBlockTransfers

LEMMA EraArranged ==
    ASSUME NEW id \in ClientIds
    PROVE  /\ Arranged(GetEraSummary(id), "chain_get_era_summary", id)
           /\ Arranged(GetEraInfoBySwitchBlock(id), "chain_get_era_info_by_switch_block", id)
<1>1. PICK a, b, c : /\ a = HeaderOrLatestSwitch(id)
                     /\ b = Step(Question("era_summary", Header), "else")
                     /\ c = Step(Question("era_info", Header), "GlobalStateEntryNotFound")
    OBVIOUS
<1>2. PICK d : d = [a EXCEPT !.stop = "no_switch"]
    OBVIOUS
<1>3. a \in Steps
    BY <1>1, HeaderStep DEF HeaderOrLatestSwitch, IsStep
<1>4. "no_switch" \in Stops
    BY DEF Stops
<1>5. d \in Steps /\ d.ask = a.ask /\ d.none = a.none
    BY <1>2, <1>3, <1>4, StepExcept, Zenon
<1>6. ASSUME NEW method \in EraMethods
      PROVE  PinningStep(a, method, id) /\ PinningStep(d, method, id)
    <2>1. PinningStep(a, method, id)
        BY <1>1, <1>6, HeaderStep
    <2> QED BY <1>5, <2>1 DEF PinningStep
<1>7. /\ "era_summary" \in Whats /\ "era_info" \in Whats /\ "else" \in Nones /\ "GlobalStateEntryNotFound" \in Nones
      /\ "era_summary" \notin BlockQuestions \cup {"switch_header"} /\ "era_info" \notin BlockQuestions \cup {"switch_header"}
      /\ \A method \in EraMethods : method \notin PutMethods
    BY DEF Whats, Nones, BlockQuestions, StateQuestions, PutMethods, EraMethods
<1>8. PinnedAs(b, "else", id) /\ PinnedAs(c, "GlobalStateEntryNotFound", id)
    BY <1>1, <1>7, IdsDiffer, PinnedQuestion
<1>9. \A method \in EraMethods :
         Arranged(<< a >> \o << b, c >>, method, id) /\ Arranged(<< d >> \o << b, c >>, method, id)
    BY <1>3, <1>5, <1>6, <1>7, <1>8, HeaderAndTwo
<1>10. GetEraSummaryByBlock = << b, c >>
    BY <1>1 DEF GetEraSummaryByBlock, QueryGlobalState
<1>11. "chain_get_era_summary" \in EraMethods /\ "chain_get_era_info_by_switch_block" \in EraMethods
    BY DEF EraMethods
<1> QED BY <1>1, <1>2, <1>9, <1>10, <1>11 DEF GetEraSummary, GetEraInfoBySwitchBlock

LEMMA AuctionArranged ==
    ASSUME NEW id \in ClientIds
    PROVE  /\ Arranged(GetAuctionInfo(id), "state_get_auction_info", id)
           /\ Arranged(GetAuctionInfoV2(id), "state_get_auction_info_v2", id)
<1>1. PICK state : state = StateOf(id)
    OBVIOUS
<1>2. state \in Ids /\ (state = Header \/ (state = id /\ id # Latest))
    BY <1>1, IdsDiffer DEF StateOf
<1>3. /\ "bids" \in Whats /\ "registry" \in Whats /\ "entity_snapshot" \in Whats /\ "hash_snapshot" \in Whats
      /\ "else" \in Nones /\ "GlobalStateEntryNotFound" \in Nones /\ "EmptyEnvelope" \in Nones
      /\ "InvalidAuctionState" \in Bads /\ ~IsPart("registry")
      /\ \A what \in {"bids", "registry", "entity_snapshot", "hash_snapshot"} :
            what \notin BlockQuestions \cup {"switch_header", "reward"}
    BY DEF Whats, Nones, Bads, BlockQuestions, StateQuestions, IsPart
<1>4. PICK a, b, c, v, d, e :
         /\ a = GetBlockHeader(id)
         /\ b = FetchBidKinds(state)
         /\ c = AuctionRegistry(Latest) /\ v = AuctionRegistry(state)
         /\ d = [Step(Question("entity_snapshot", state), "else") EXCEPT !.bad = "InvalidAuctionState"]
         /\ e = [Step(Question("hash_snapshot", state), "GlobalStateEntryNotFound") EXCEPT !.bad = "InvalidAuctionState"]
    OBVIOUS
<1>5. ASSUME NEW method \in {"state_get_auction_info", "state_get_auction_info_v2"}
      PROVE  a \in Steps /\ PinningStep(a, method, id) /\ method \notin PutMethods
    BY <1>4, HeaderStep DEF IsStep, EraMethods, PutMethods
<1>6. PinnedAs(b, "EmptyEnvelope", id)
    BY <1>2, <1>3, <1>4, PinnedQuestion DEF FetchBidKinds, Always, QueryGlobalStateByTag
<1>7. PinnedAs(c, "GlobalStateEntryNotFound", id) /\ PinnedAs(v, "GlobalStateEntryNotFound", id)
    BY <1>2, <1>3, <1>4, IdsDiffer, PinnedQuestion DEF AuctionRegistry, QueryGlobalState
<1>8. PinnedAs(d, "else", id) /\ PinnedAs(e, "GlobalStateEntryNotFound", id)
    BY <1>2, <1>3, <1>4, PinnedQuestion
<1>9. ASSUME NEW method \in {"state_get_auction_info", "state_get_auction_info_v2"}
      PROVE  Arranged(<< a, b, c >> \o << d, e >>, method, id) /\ Arranged(<< a, b, v >> \o << d, e >>, method, id)
    BY <1>5, <1>6, <1>7, <1>8, HeaderAndFour
<1>10. AuctionSnapshot(state) = << d, e >>
    BY <1>4 DEF AuctionSnapshot, QueryGlobalState
<1> QED BY <1>1, <1>4, <1>9, <1>10 DEF GetAuctionInfo, GetAuctionInfoV2

LEMMA QueryArranged ==
    ASSUME NEW id \in ClientIds
    PROVE  Arranged(QueryGlobalStateRpc(id), "query_global_state", id)
<1>1. PICK a, b : a = GetBlockHeader(id) /\ b = Step(Question("item", id), "GlobalStateEntryNotFound")
    OBVIOUS
<1>2. /\ "item" \in Whats /\ "GlobalStateEntryNotFound" \in Nones /\ "item" \notin BlockQuestions \cup {"switch_header"}
      /\ "query_global_state" \notin PutMethods \cup EraMethods
    BY DEF Whats, Nones, BlockQuestions, StateQuestions, PutMethods, EraMethods
<1>3. id \in Ids /\ (id.by = "block" => id # Latest)
    BY IdsDiffer
<1>4. CASE id.by = "block"
    <2>1. a \in Steps /\ PinningStep(a, "query_global_state", id)
        BY <1>1, <1>2, HeaderStep DEF IsStep
    <2>2. PinnedAs(b, "GlobalStateEntryNotFound", id)
        BY <1>1, <1>2, <1>3, <1>4, PinnedQuestion
    <2>3. Arranged(<< a >> \o << b >>, "query_global_state", id)
        BY <1>2, <2>1, <2>2, HeaderAndOne
    <2> QED BY <1>1, <1>4, <2>3 DEF QueryGlobalStateRpc, QueryGlobalState
<1>5. CASE id.by # "block"
    <2>1. Question("item", id) # ReadBlockWithSignatures(Latest)
        BY DEF Question, ReadBlockWithSignatures
    <2>2. Arranged(<< b >>, "query_global_state", id)
        BY <1>1, <1>2, <1>3, <2>1, OneQuestion
    <2>3. << >> \o << b >> = << b >>
        OBVIOUS
    <2> QED BY <1>1, <1>5, <2>2, <2>3 DEF QueryGlobalStateRpc, QueryGlobalState
<1> QED BY <1>4, <1>5

\* state_get_entity asks four questions, all about the identifier of the request.
LEMMA EntityArranged ==
    ASSUME NEW id \in ClientIds
    PROVE  Arranged(GetAddressableEntity(id), "state_get_entity", id)
<1>1. PICK a, b, c, d : /\ a = Step(Question("entity", id), "AddressableEntityNotFound")
                        /\ b = Step(Question("named_keys", id), "EmptyEnvelope")
                        /\ c = Step(Question("entry_points_v1", id), "EmptyEnvelope")
                        /\ d = Step(Question("entry_points_v2", id), "EmptyEnvelope")
    OBVIOUS
<1>2. /\ "entity" \in Whats /\ "named_keys" \in Whats /\ "entry_points_v1" \in Whats /\ "entry_points_v2" \in Whats
      /\ "AddressableEntityNotFound" \in Nones /\ "EmptyEnvelope" \in Nones /\ id \in Ids
      /\ \A what \in {"entity", "named_keys", "entry_points_v1", "entry_points_v2"} :
            what \notin BlockQuestions \cup {"switch_header", "reward"}
      /\ "legacy" \in Stops /\ "InvalidNamedKeys" \in Bads
    BY IdsDiffer DEF Whats, Nones, Stops, Bads, BlockQuestions, StateQuestions
<1>3. /\ IsStep(a, "entity", id, "AddressableEntityNotFound") /\ IsStep(b, "named_keys", id, "EmptyEnvelope")
      /\ IsStep(c, "entry_points_v1", id, "EmptyEnvelope") /\ IsStep(d, "entry_points_v2", id, "EmptyEnvelope")
    BY <1>1, <1>2, StepType
<1>4. /\ a \in Steps /\ EntityStep(a, id) /\ b \in Steps /\ EntityStep(b, id)
      /\ c \in Steps /\ EntityStep(c, id) /\ d \in Steps /\ EntityStep(d, id)
    BY <1>2, <1>3 DEF IsStep, EntityStep
<1>5. PICK w, x, z : w = [a EXCEPT !.stop = "legacy"] /\ x = [b EXCEPT !.bad = "InvalidNamedKeys"]
                     /\ z = [d EXCEPT !.bad = "InvalidNamedKeys"]
    OBVIOUS
<1>6. /\ w \in Steps /\ w.ask = a.ask /\ w.none = a.none
      /\ x \in Steps /\ x.ask = b.ask /\ x.none = b.none
      /\ z \in Steps /\ z.ask = d.ask /\ z.none = d.none
    <2>1. w \in Steps /\ w.ask = a.ask /\ w.none = a.none
        BY <1>2, <1>4, <1>5, StepExcept, Zenon
    <2>2. x \in Steps /\ x.ask = b.ask /\ x.none = b.none
        BY <1>2, <1>4, <1>5, StepExcept, Zenon
    <2>3. z \in Steps /\ z.ask = d.ask /\ z.none = d.none
        BY <1>2, <1>4, <1>5, StepExcept, Zenon
    <2> QED BY <2>1, <2>2, <2>3
<1>7. EntityStep(w, id) /\ EntityStep(x, id) /\ EntityStep(c, id) /\ EntityStep(z, id)
    BY <1>4, <1>6 DEF EntityStep
<1>8. PICK q : q = << w, x >> \o << c, z >>
    OBVIOUS
<1>9. q \in Seq(Steps) /\ Len(q) = 4 /\ q[1] = w /\ q[2] = x /\ q[3] = c /\ q[4] = z
    BY <1>4, <1>6, <1>8
<1>10. \A i \in 1 .. Len(q) : EntityStep(q[i], id)
    <2>1. \A i \in 1 .. Len(q) : i = 1 \/ i = 2 \/ i = 3 \/ i = 4
        BY <1>9
    <2> QED BY <1>7, <1>9, <2>1
<1>11. Arranged(q, "state_get_entity", id)
    BY <1>9, <1>10 DEF Arranged, IsEntity
<1>12. GetEntityNamedKeys(id) = x /\ GetEntityEntryPoints(id) = << c, z >>
    BY <1>1, <1>5 DEF GetEntityNamedKeys, GetEntityEntryPoints, Always, QueryGlobalStateByPrefix
<1> QED BY <1>1, <1>5, <1>8, <1>11, <1>12 DEF GetAddressableEntity, ReadEntity

\* The other methods ask one question.
LEMMA OthersArranged ==
    ASSUME NEW id \in ClientIds, NEW method
    PROVE  /\ Arranged(PutDeploy, method, id) /\ Arranged(PutTransaction, method, id)
           /\ Arranged(GetBlock(id), "chain_get_block", id) /\ Arranged(GetStateRootHash(id), method, id)
           /\ Arranged(GetDeploy, method, id) /\ Arranged(GetTransaction, method, id)
           /\ Arranged(GetPeers, method, id) /\ Arranged(GetValidatorChanges, method, id)
           /\ Arranged(GetChainspec, method, id) /\ Arranged(GetStatus, method, id)
           /\ Arranged(GetReward(id), "info_get_reward", id) /\ Arranged(GetItem(id), method, id)
           /\ Arranged(GetBalance(id), method, id) /\ Arranged(GetAccountInfo(id), method, id)
           /\ Arranged(GetPackage(id), method, id) /\ Arranged(GetDictionaryItem(id), method, id)
           /\ Arranged(QueryBalance(id), method, id) /\ Arranged(QueryBalanceDetails(id), method, id)
           /\ Arranged(GetTrie, method, id) /\ Arranged(SpeculativeExecTxn, method, id)
           /\ Arranged(SpeculativeExec, method, id) /\ Arranged(RpcDiscover, method, id)
<1> DEFINE Plain == {"try_accept_transaction", "transaction", "peers", "validator_changes", "chainspec", "status",
                     "trie", "exec_speculatively"}
           Named == {"header", "item", "balance", "account", "package", "dictionary_item"}
<1>1. id \in Ids /\ Latest \in Ids
    BY IdsDiffer
<1>2. \A what \in Plain : what \in Whats /\ what \notin {"switch_header", "reward"} /\ ~IsPart(what) /\ what # "block_with_signatures"
    BY DEF Whats, IsPart, BlockQuestions, StateQuestions
<1>3. \A what \in Named : what \in Whats /\ what \notin {"switch_header", "reward"} /\ what # "block_with_signatures"
    BY DEF Whats, BlockQuestions, StateQuestions
<1>4. \A what, at : what # "block_with_signatures" => Question(what, at) # ReadBlockWithSignatures(Latest)
    BY DEF Question, ReadBlockWithSignatures
<1>5. ASSUME NEW what \in Plain, NEW none \in Nones, none # "else"
      PROVE  /\ Arranged(<< Step(Question(what, Latest), none) >>, method, id)
             /\ \A x \in Bads : Arranged(<< [Step(Question(what, Latest), none) EXCEPT !.bad = x] >>, method, id)
             /\ \A x \in Refusals : Arranged(<< [Step(Question(what, Latest), none) EXCEPT !.refused = x] >>, method, id)
    <2> HIDE DEF Plain, Named
    <2> QED BY <1>1, <1>2, <1>4, <1>5, OneQuestion
<1>6. ASSUME NEW what \in Named, NEW none \in Nones, none # "else"
      PROVE  /\ Arranged(<< Step(Question(what, id), none) >>, method, id)
             /\ \A x \in Bads : Arranged(<< [Step(Question(what, id), none) EXCEPT !.bad = x] >>, method, id)
    <2> HIDE DEF Plain, Named
    <2> QED BY <1>1, <1>3, <1>4, <1>6, OneQuestion
<1>7. /\ "" \in Nones /\ "EmptyEnvelope" \in Nones /\ "NoBlockFound" \in Nones /\ "NoDeployWithHash" \in Nones
      /\ "NoTransactionWithHash" \in Nones /\ "RewardNotFound" \in Nones /\ "GlobalStateEntryNotFound" \in Nones
      /\ "AccountNotFound" \in Nones /\ "AddressableEntityNotFound" \in Nones
      /\ "FoundTransactionInsteadOfDeploy" \in Bads /\ "AccountMigratedToEntity" \in Bads
      /\ "DeployIsInvalid" \in Refusals /\ "TransactionIsInvalid" \in Refusals
    BY DEF Nones, Bads, Refusals
<1>8. Arranged(PutDeploy, method, id) /\ Arranged(PutTransaction, method, id)
    BY <1>5, <1>7 DEF PutDeploy, PutTransaction, TryAcceptTransaction
<1>9. Arranged(GetDeploy, method, id) /\ Arranged(GetTransaction, method, id)
    BY <1>5, <1>7 DEF GetDeploy, GetTransaction, ReadTransactionWithExecutionInfo
<1>10. /\ Arranged(GetPeers, method, id) /\ Arranged(GetValidatorChanges, method, id)
       /\ Arranged(GetChainspec, method, id) /\ Arranged(GetStatus, method, id) /\ Arranged(GetTrie, method, id)
       /\ Arranged(SpeculativeExecTxn, method, id) /\ Arranged(SpeculativeExec, method, id)
    BY <1>5, <1>7
       DEF GetPeers, GetValidatorChanges, GetChainspec, GetStatus, GetTrie, SpeculativeExecTxn, SpeculativeExec, Always,
           ReadPeers, ReadValidatorChanges, ReadChainspecBytes, ReadNodeStatus, ReadTrieBytes, ExecSpeculatively
<1>11. /\ Arranged(GetStateRootHash(id), method, id)
       /\ Arranged(GetItem(id), method, id) /\ Arranged(GetAccountInfo(id), method, id)
       /\ Arranged(GetPackage(id), method, id) /\ Arranged(GetDictionaryItem(id), method, id)
    BY <1>6, <1>7
       DEF GetStateRootHash, GetBlockHeader, ReadBlockHeader, GetItem, QueryGlobalState,
           GetAccountInfo, GetPackage, ReadPackage, GetDictionaryItem, QueryDictionaryItem
<1>12. /\ Arranged(GetBalance(id), method, id) /\ Arranged(QueryBalance(id), method, id)
       /\ Arranged(QueryBalanceDetails(id), method, id)
    BY <1>6, <1>7 DEF GetBalance, QueryBalance, QueryBalanceDetails, ReadBalance, Always
<1>13. Arranged(GetBlock(id), "chain_get_block", id)
    <2>1. "block_with_signatures" \in Whats
        BY DEF Whats, BlockQuestions
    <2> QED BY <1>1, <1>7, <2>1, OneQuestion DEF GetBlock, GetBlockWithSignatures, ReadBlockWithSignatures
<1>14. Arranged(RpcDiscover, method, id)
    BY DEF RpcDiscover, Arranged
<1>15. Arranged(GetReward(id), "info_get_reward", id)
    <2>1. "reward" \in Whats
        BY DEF Whats, StateQuestions
    <2> QED BY <1>1, <1>4, <1>7, <2>1, OneQuestion DEF GetReward, ReadReward
<1> QED BY <1>8, <1>9, <1>10, <1>11, <1>12, <1>13, <1>14, <1>15

Methods == DOMAIN Handlers \cup DOMAIN SpeculativeHandlers

LEMMA PlanArranged ==
    ASSUME NEW method \in Methods, NEW id \in ClientIds
    PROVE  Arranged(Plan(method, id), method, id)
<1>1. method \in WithNoIds \cup WithoutParams \cup WithOptionalParams \cup WithBlock \cup WithEra \cup WithState \cup WithRoot
                 \cup {"speculative_exec_txn", "speculative_exec", "rpc.discover"}
    BY DEF Methods, Handlers, SpeculativeHandlers
<1>2. CASE method \in WithNoIds \cup WithoutParams \cup {"speculative_exec_txn", "speculative_exec", "rpc.discover"}
    BY <1>2, OthersArranged DEF WithNoIds, WithoutParams, Plan
<1>3. CASE method \in WithOptionalParams
    BY <1>3, OthersArranged, TransfersArranged, EraArranged, AuctionArranged DEF WithOptionalParams, Plan
<1>4. CASE method \in WithBlock \cup WithEra
    BY <1>4, OthersArranged, EntityArranged DEF WithBlock, WithEra, Plan
<1>5. CASE method \in WithState \cup WithRoot
    BY <1>5, OthersArranged, QueryArranged DEF WithState, WithRoot, Plan
<1> QED BY <1>1, <1>2, <1>3, <1>4, <1>5
-----------------------------------------------------------------------------
\* Calls and their replies.

LEMMA RequestParts ==
    ASSUME NEW r \in HttpRequests
    PROVE  r.id \in Kinds /\ r.at \in ClientIds
BY DEF HttpRequests, Kinds, ClientIds

LEMMA IdTypes ==
    \A id \in Ids : /\ id.height \in Nat
                    /\ id.by \in {"none", "header", "block", "root", "era"}
                    /\ id.by = "none" <=> id = Latest
                    /\ id.by = "header" <=> id = Header
BY DEF Ids, Latest, Header

LEMMA CodeRange ==
    ASSUME NEW error
    PROVE  /\ Code(error) \in Codes
           /\ Code(error) \in {"InvalidTransaction", "InvalidDeploy"} =>
                 error \in {"TransactionIsInvalid", "SpecExecutionFailed", "DeployIsInvalid"}
BY DEF Code, Codes

LEMMA Replies ==
    ASSUME NEW id \in Kinds
    PROVE  /\ NewSuccess(id) \in Responses /\ NewSuccess(id).status = 200
           /\ NewSuccess(id).id = id /\ NewSuccess(id).outcome = "success"
           /\ \A e \in Codes \cup Refused :
                 /\ NewFailure(id, e) \in Responses /\ NewFailure(id, e).status = 200
                 /\ NewFailure(id, e).id = id /\ NewFailure(id, e).outcome = e
<1>1. NewSuccess(id) \in Responses /\ NewSuccess(id).status = 200
      /\ NewSuccess(id).id = id /\ NewSuccess(id).outcome = "success"
    BY DEF NewSuccess, Responses
<1>2. ASSUME NEW e \in Codes \cup Refused
      PROVE  /\ NewFailure(id, e) \in Responses /\ NewFailure(id, e).status = 200
             /\ NewFailure(id, e).id = id /\ NewFailure(id, e).outcome = e
    BY DEF NewFailure, Responses
<1> QED BY <1>1, <1>2

\* The fields of a call.
CallIs(n, stage, request, todo, header, parts, floor, asked, verdicts, response) ==
    /\ n \in CallTypes
    /\ n.stage = stage /\ n.request = request /\ n.todo = todo /\ n.header = header /\ n.parts = parts
    /\ n.floor = floor /\ n.asked = asked /\ n.verdicts = verdicts /\ n.response = response

\* The updates of a call that the actions make.
LEMMA IdleCall ==
    CallIs(Idle, "idle", NoRequest, << >>, NoBlock, {}, NoBlock, FALSE, {}, NoResponse)
<1>1. NoResponse \in Responses
    BY DEF NoResponse, Responses, Kinds
<1>2. << >> \in Seq(Steps) /\ NoBlock \in Nat
    BY DEF NoBlock
<1> QED BY <1>1, <1>2 DEF Idle, CallIs, CallTypes, NoRequest

LEMMA ReceivedCall ==
    ASSUME NEW r \in HttpRequests, NEW f \in Nat
    PROVE  CallIs([Idle EXCEPT !.stage = "received", !.request = r, !.floor = f],
                  "received", r, << >>, NoBlock, {}, f, FALSE, {}, NoResponse)
BY IdleCall DEF CallIs, CallTypes

LEMMA RespondedCall ==
    ASSUME NEW k \in CallTypes, NEW r \in Responses
    PROVE  CallIs(Respond(k, r), "done", k.request, << >>, k.header, k.parts, k.floor, k.asked, k.verdicts, r)
<1>1. PICK q \in Seq(Steps) : q = << >>
    <2>1. << >> \in Seq(Steps)
        OBVIOUS
    <2> QED BY <2>1, Zenon
<1>2. Respond(k, r) = [k EXCEPT !.stage = "done", !.todo = q, !.response = r]
    BY <1>1 DEF Respond
<1>3. CallIs([k EXCEPT !.stage = "done", !.todo = q, !.response = r],
             "done", k.request, q, k.header, k.parts, k.floor, k.asked, k.verdicts, r)
    BY DEF CallIs, CallTypes
<1> QED BY <1>1, <1>2, <1>3

LEMMA PlannedCall ==
    ASSUME NEW k \in CallTypes, NEW q \in Seq(Steps)
    PROVE  /\ CallIs([k EXCEPT !.todo = q],
                     k.stage, k.request, q, k.header, k.parts, k.floor, k.asked, k.verdicts, k.response)
           /\ CallIs([k EXCEPT !.stage = "running", !.todo = q],
                     "running", k.request, q, k.header, k.parts, k.floor, k.asked, k.verdicts, k.response)
BY DEF CallIs, CallTypes

LEMMA AskedCall ==
    ASSUME NEW k \in CallTypes, NEW v \in SUBSET {"accepted", "refused"}
    PROVE  CallIs([k EXCEPT !.asked = TRUE, !.verdicts = v],
                  k.stage, k.request, k.todo, k.header, k.parts, k.floor, TRUE, v, k.response)
BY DEF CallIs, CallTypes

LEMMA FoundCall ==
    ASSUME NEW k \in CallTypes, NEW b \in Nat, NEW p \in SUBSET Nat
    PROVE  CallIs([k EXCEPT !.header = b, !.parts = p],
                  k.stage, k.request, k.todo, b, p, k.floor, k.asked, k.verdicts, k.response)
BY DEF CallIs, CallTypes

LEMMA LoweredCall ==
    ASSUME NEW k \in CallTypes, NEW f \in Nat
    PROVE  CallIs([k EXCEPT !.floor = f],
                  k.stage, k.request, k.todo, k.header, k.parts, f, k.asked, k.verdicts, k.response)
BY DEF CallIs, CallTypes

\* A reply that a call may get.
ReplyFits(k, r) ==
    /\ r \in Responses /\ r.status # 0
    /\ r.status = 200 =>
          \/ r.id = k.request.id
          \/ r.id = "null" /\ (~k.request.object \/ k.request.id \notin {"text", "integer", "null"})
    /\ k.request.method \in PutMethods =>
          /\ r.outcome = "success" => "accepted" \in k.verdicts
          /\ r.outcome \in {"InvalidTransaction", "InvalidDeploy"} => "refused" \in k.verdicts

\* What holds of a call with a request, whatever its stage.
Sound(k, h) ==
    /\ k \in CallTypes /\ k.request \in HttpRequests
    /\ k.header <= h /\ k.parts \subseteq 1 .. h
    /\ k.asked => IsCall(k.request)
    /\ OfBlock(k)

LEMMA RespondKeeps ==
    ASSUME NEW h \in Nat, NEW k, Sound(k, h), NEW r, ReplyFits(k, r)
    PROVE  CallInv(Respond(k, r), h)
<1>1. PICK n : n = Respond(k, r)
    OBVIOUS
<1>2. CallIs(n, "done", k.request, << >>, k.header, k.parts, k.floor, k.asked, k.verdicts, r)
    BY <1>1, RespondedCall DEF Sound, ReplyFits
<1>3. r # NoResponse
    BY DEF ReplyFits, NoResponse
<1>4. Staged(n, h)
    BY <1>2, <1>3 DEF CallIs, Staged, Sound, ReplyFits
<1>5. Called(n)
    BY <1>2 DEF CallIs, Called, Sound, ReplyFits
<1>6. OfBlock(n)
    BY <1>2 DEF CallIs, OfBlock, Sound
<1>7. Submission(n)
    BY <1>2 DEF CallIs, Submission, ReplyFits
<1> QED BY <1>1, <1>2, <1>4, <1>5, <1>6, <1>7 DEF CallInv, CallIs
-----------------------------------------------------------------------------
\* The steps of a method.

\* A call that runs.
Live(k, h) ==
    /\ Sound(k, h) /\ k.stage = "running" /\ k.response = NoResponse
    /\ IsCall(k.request) /\ FloorReached(k, h)

LEMMA RunningParts ==
    ASSUME NEW h \in Nat, NEW k, CallInv(k, h), k.stage = "running"
    PROVE  /\ Live(k, h) /\ Underway(k)
           /\ k.todo \in Seq(Steps) /\ k.todo # << >> /\ Len(k.todo) \in Nat /\ Len(k.todo) >= 1
           /\ Head(k.todo) = k.todo[1] /\ k.todo[1] \in Steps
<1>1. k \in CallTypes /\ k.todo # << >> /\ k.response = NoResponse
    BY DEF CallInv, Staged
<1>2. k.todo \in Seq(Steps)
    BY <1>1 DEF CallTypes
<1>3. Len(k.todo) \in Nat /\ Len(k.todo) >= 1 /\ Head(k.todo) = k.todo[1] /\ k.todo[1] \in Steps
    BY <1>1, <1>2
<1>4. Live(k, h) /\ Underway(k)
    BY <1>1 DEF Live, Sound, CallInv, Staged, Called
<1> QED BY <1>1, <1>2, <1>3, <1>4

LEMMA FailKeeps ==
    ASSUME NEW h \in Nat, NEW k, Live(k, h), NEW error,
           k.request.method \in PutMethods /\ Code(error) \in {"InvalidTransaction", "InvalidDeploy"}
              => "refused" \in k.verdicts
    PROVE  CallInv(Fail(k, error), h)
<1>1. PICK r : r = NewFailure(k.request.id, Code(error))
    OBVIOUS
<1>2. k.request.id \in Kinds /\ Code(error) \in Codes
    BY RequestParts, CodeRange DEF Live, Sound
<1>3. r \in Responses /\ r.status = 200 /\ r.id = k.request.id /\ r.outcome = Code(error)
    BY <1>1, <1>2, Replies
<1>4. Code(error) # "success"
    BY <1>2 DEF Codes
<1>5. ReplyFits(k, r)
    BY <1>3, <1>4 DEF ReplyFits
<1> QED BY <1>1, <1>5, RespondKeeps DEF Fail, Live

LEMMA SucceedKeeps ==
    ASSUME NEW h \in Nat, NEW k, Live(k, h), k.request.method \in PutMethods => "accepted" \in k.verdicts
    PROVE  CallInv(Respond(k, NewSuccess(k.request.id)), h)
<1>1. PICK r : r = NewSuccess(k.request.id)
    OBVIOUS
<1>2. k.request.id \in Kinds
    BY RequestParts DEF Live, Sound
<1>3. r \in Responses /\ r.status = 200 /\ r.id = k.request.id /\ r.outcome = "success"
    BY <1>1, <1>2, Replies
<1>4. ReplyFits(k, r)
    BY <1>3 DEF ReplyFits
<1> QED BY <1>1, <1>4, RespondKeeps DEF Live

LEMMA GoesOn ==
    ASSUME NEW h \in Nat, NEW k, Live(k, h), k.request.method \notin PutMethods,
           NEW q \in Seq(Steps), q # << >>, Going(k.request, q, k.header, k.parts)
    PROVE  CallInv([k EXCEPT !.todo = q], h)
<1>1. PICK n : n = [k EXCEPT !.todo = q]
    OBVIOUS
<1>2. CallIs(n, k.stage, k.request, q, k.header, k.parts, k.floor, k.asked, k.verdicts, k.response)
    BY <1>1, PlannedCall DEF Live, Sound
<1>3. Staged(n, h)
    BY <1>2 DEF CallIs, Staged, Live, Sound, NoResponse
<1>4. Called(n)
    BY <1>2 DEF CallIs, Called, Live, NoResponse
<1>5. OfBlock(n)
    BY <1>2 DEF CallIs, OfBlock, Live, Sound
<1>6. Underway(n) /\ FloorReached(n, h) /\ Submission(n)
    BY <1>2 DEF CallIs, Underway, FloorReached, Submission, Live
<1> QED BY <1>1, <1>2, <1>3, <1>4, <1>5, <1>6 DEF CallInv

LEMMA ContinueKeeps ==
    ASSUME NEW h \in Nat, NEW k, Live(k, h), NEW rest \in Seq(Steps),
           rest # << >> => k.request.method \notin PutMethods /\ Going(k.request, rest, k.header, k.parts),
           k.request.method \in PutMethods => "accepted" \in k.verdicts
    PROVE  CallInv(Continue(k, rest), h)
<1>1. CASE rest = << >>
    BY <1>1, SucceedKeeps DEF Continue
<1>2. CASE rest # << >>
    BY <1>2, GoesOn DEF Continue
<1> QED BY <1>1, <1>2

\* What is left of a sequence of steps.
LEMMA RestPinned ==
    ASSUME NEW q \in Seq(Steps), q # << >>, NEW method, NEW id, IsPinned(q, method, id)
    PROVE  /\ Tail(q) \in Seq(Steps) /\ IsPinned(Tail(q), method, id)
           /\ q[1].none = "else" =>
                 Tail(q) # << >> /\ Tail(Tail(q)) \in Seq(Steps) /\ IsPinned(Tail(Tail(q)), method, id)
<1>1. ASSUME NEW t \in Seq(Steps), t # << >>, IsPinned(t, method, id)
      PROVE  Tail(t) \in Seq(Steps) /\ IsPinned(Tail(t), method, id)
    <2>1. PICK u : u = Tail(t)
        OBVIOUS
    <2>2. /\ u \in Seq(Steps) /\ Len(u) \in Nat /\ Len(t) \in Nat /\ Len(u) = Len(t) - 1
          /\ \A i \in 1 .. Len(u) : u[i] = t[i + 1] /\ i + 1 \in 1 .. Len(t)
        BY <1>1, <2>1
    <2>3. IsPinned(u, method, id)
        BY <1>1, <2>2 DEF IsPinned, ElseGoesOn
    <2> QED BY <2>1, <2>2, <2>3
<1>2. q[1].none = "else" => Tail(q) # << >>
    <2>1. 1 \in 1 .. Len(q)
        OBVIOUS
    <2>2. q[1].none = "else" => 1 < Len(q)
        BY <2>1 DEF IsPinned, ElseGoesOn
    <2>3. 1 < Len(q) => Tail(q) # << >>
        OBVIOUS
    <2> QED BY <2>2, <2>3
<1> QED BY <1>1, <1>2

\* An answer is of the block that its question asks for: one that the request names,
\* the one of the header, or one that is not behind the floor.
ReadRight(k, at) ==
    LET ask == k.todo[1].ask IN
    /\ ask.at = Latest => at >= k.floor
    /\ ask.at = Header => at = k.header
    /\ ask.at \notin {Latest, Header} => at = ask.at.height

LEMMA RangeOnly ==
    ASSUME NEW q, q = << RangeStep >>
    PROVE  /\ q \in Seq(Steps) /\ Len(q) = 1 /\ q[1].ask.what = "available_block_range"
           /\ q[1].ask.at = Latest /\ q[1].none = "EmptyEnvelope" /\ q[1].bad = ""
<1>1. PICK s : s = RangeStep
    OBVIOUS
<1>2. "available_block_range" \in Whats /\ "EmptyEnvelope" \in Nones /\ Latest \in Ids
    BY IdsDiffer DEF Whats, Nones
<1>3. IsStep(s, "available_block_range", Latest, "EmptyEnvelope")
    BY <1>1, <1>2, StepType DEF RangeStep, ReadAvailableBlockRange
<1>4. q[1] = s /\ Len(q) = 1
    BY <1>1
<1>5. q \in Seq(Steps)
    <2>1. s \in Steps /\ q = << s >>
        BY <1>1, <1>3 DEF IsStep
    <2> QED BY <2>1
<1> QED BY <1>3, <1>4, <1>5 DEF IsStep

\* The result with a part of block at, after each kind of step.
LEMMA PartOfOneBlock ==
    ASSUME NEW h \in Nat, NEW k, Live(k, h), Underway(k), k.todo \in Seq(Steps), k.todo # << >>,
           NEW at \in 1 .. h, ReadRight(k, at), NEW what, what = k.todo[1].ask.what, what # "available_block_range",
           NEW b \in Nat, b = (IF what \in {"header", "switch_header"} THEN at ELSE k.header),
           NEW p, p = (IF IsPart(what) THEN k.parts \cup {at} ELSE k.parts),
           NEW n, CallIs(n, k.stage, k.request, k.todo, b, p, k.floor, k.asked, k.verdicts, k.response)
    PROVE  OfBlock(n)
<1> DEFINE id == k.request.at
           method == k.request.method
           ask == k.todo[1].ask
<1>1. k.header \in Nat /\ k.parts \subseteq Nat /\ k.floor \in Nat /\ k.parts \subseteq 1 .. h /\ OfBlock(k)
    BY DEF Live, Sound, CallTypes
<1>2. id \in ClientIds
    BY RequestParts DEF Live, Sound
<1>3. id \in Ids /\ id # Header /\ Latest # Header
    BY <1>2, IdsDiffer
<1>4. IsPart("header") /\ IsPart("switch_header") /\ IsPart("block_with_signatures")
    BY DEF IsPart, BlockQuestions
<1>5. CASE k.header = NoBlock /\ k.parts = {} /\ IsSingle(k.todo, method, id)
    <2>1. what # "switch_header" /\ (IsPart(what) => ask.at = id)
        BY <1>5 DEF IsSingle, SingleStep
    <2>2. IsPart(what) => (id = Latest => at >= k.floor) /\ (id # Latest => at = id.height)
        BY <1>3, <2>1 DEF ReadRight
    <2>3. b = NoBlock \/ (b = at /\ what = "header")
        BY <1>5, <2>1
    <2>4. p = {} \/ (p = {at} /\ IsPart(what))
        BY <1>5
    <2> QED BY <1>1, <1>4, <2>2, <2>3, <2>4 DEF OfBlock, CallIs, NoBlock
<1>6. CASE k.header = NoBlock /\ k.parts = {} /\ IsPinning(k.todo, method, id)
    <2>1. what \in {"header", "switch_header"} /\ ask.at = id
        BY <1>6 DEF IsPinning, PinningStep, ReadLatestSwitchBlockHeader, ReadBlockHeader, Question
    <2>2. b = at /\ p = {at}
        BY <1>4, <1>6, <2>1
    <2>3. (id = Latest => at >= k.floor) /\ (id # Latest => at = id.height)
        BY <1>3, <2>1 DEF ReadRight
    <2> QED BY <2>2, <2>3 DEF OfBlock, CallIs
<1>7. CASE k.header # NoBlock /\ IsPinned(k.todo, method, id)
    <2>1. PinnedStep(k.todo[1], id)
        BY <1>7 DEF IsPinned
    <2>2. b = k.header
        BY <2>1 DEF PinnedStep, BlockQuestions
    <2>3. IsPart(what) => at = k.header
        BY <1>1, <1>3, <1>7, <2>1 DEF PinnedStep, ReadRight, OfBlock
    <2>4. p \subseteq {k.header}
        BY <1>1, <1>7, <2>3 DEF OfBlock
    <2> QED BY <1>1, <1>7, <2>2, <2>4 DEF OfBlock, CallIs
<1>8. CASE k.header = NoBlock /\ IsEntity(k.todo, method, id)
    <2>1. EntityStep(k.todo[1], id) /\ method = "state_get_entity"
        BY <1>8 DEF IsEntity
    <2>2. b = NoBlock
        BY <1>8, <2>1 DEF EntityStep, BlockQuestions
    <2>3. (id = Latest => at >= k.floor) /\ (id # Latest => at = id.height)
        BY <1>3, <2>1 DEF EntityStep, ReadRight
    <2>4. \A y \in p : y \in k.parts \/ y = at
        OBVIOUS
    <2> QED BY <1>1, <2>1, <2>2, <2>3, <2>4 DEF OfBlock, CallIs
<1>9. k.todo # << RangeStep >>
    BY RangeOnly
<1> QED BY <1>5, <1>6, <1>7, <1>8, <1>9 DEF Underway, Going

\* The steps after an answer with a value.
LEMMA AfterGoesOn ==
    ASSUME NEW h \in Nat, NEW k, Live(k, h), Underway(k), k.todo \in Seq(Steps), k.todo # << >>,
           NEW at \in 1 .. h, NEW what, what = k.todo[1].ask.what, what # "available_block_range",
           NEW b \in Nat, b = (IF what \in {"header", "switch_header"} THEN at ELSE k.header),
           NEW p, NEW outcome, NEW rest, rest = After(k, outcome, at)
    PROVE  /\ rest \in Seq(Steps)
           /\ rest # << >> => k.request.method \notin PutMethods /\ Going(k.request, rest, b, p)
<1> DEFINE id == k.request.at
           method == k.request.method
           q == k.todo
<1>1. /\ Len(q) \in Nat /\ Len(q) >= 1 /\ Head(q) = q[1] /\ Tail(q) \in Seq(Steps) /\ Len(Tail(q)) = Len(q) - 1
      /\ \A i \in 1 .. Len(Tail(q)) : Tail(q)[i] = q[i + 1] /\ i + 1 \in 1 .. Len(q)
    OBVIOUS
<1>2. /\ rest = << >> \/ rest = Tail(q) \/ (q[1].none = "else" /\ rest = Tail(Tail(q)))
      /\ q[1].none # "else" => rest = << >> \/ rest = Tail(q)
    BY <1>1 DEF After
<1>3. << >> \in Seq(Steps)
    OBVIOUS
<1>4. CASE k.header = NoBlock /\ k.parts = {} /\ IsSingle(q, method, id)
    <2>1. q[1].none # "else" /\ Len(Tail(q)) = 0
        BY <1>1, <1>4 DEF IsSingle, SingleStep
    <2>2. Tail(q) = << >>
        BY <1>1, <2>1, EmptySeq
    <2> QED BY <1>2, <1>3, <2>1, <2>2
<1>5. CASE k.header = NoBlock /\ k.parts = {} /\ IsPinning(q, method, id)
    <2>1. /\ what \in {"header", "switch_header"} /\ q[1].none # "else" /\ method \notin PutMethods
          /\ \A i \in 2 .. Len(q) : PinnedStep(q[i], id)
        BY <1>5 DEF IsPinning, PinningStep, ReadLatestSwitchBlockHeader, ReadBlockHeader, Question
    <2>2. IsPinned(Tail(q), method, id)
        BY <1>1, <1>5, <2>1 DEF IsPinned, IsPinning, ElseGoesOn
    <2>3. b # NoBlock
        BY <2>1 DEF NoBlock
    <2> QED BY <1>1, <1>2, <1>3, <2>1, <2>2, <2>3 DEF Going
<1>6. CASE k.header # NoBlock /\ IsPinned(q, method, id)
    <2>1. /\ IsPinned(Tail(q), method, id)
          /\ q[1].none = "else" => Tail(Tail(q)) \in Seq(Steps) /\ IsPinned(Tail(Tail(q)), method, id)
        BY <1>6, RestPinned
    <2>2. b # NoBlock /\ method \notin PutMethods
        BY <1>6 DEF IsPinned, NoBlock
    <2> QED BY <1>1, <1>2, <1>3, <2>1, <2>2 DEF Going
<1>7. CASE k.header = NoBlock /\ IsEntity(q, method, id)
    <2>1. EntityStep(q[1], id) /\ method \notin PutMethods
        BY <1>1, <1>7 DEF IsEntity, PutMethods
    <2>2. q[1].none # "else" /\ b = NoBlock
        BY <1>7, <2>1 DEF EntityStep, BlockQuestions
    <2>3. IsEntity(Tail(q), method, id)
        BY <1>1, <1>7 DEF IsEntity
    <2> QED BY <1>1, <1>2, <1>3, <2>1, <2>2, <2>3 DEF Going
<1>8. q # << RangeStep >>
    BY RangeOnly
<1> QED BY <1>4, <1>5, <1>6, <1>7, <1>8 DEF Underway, Going

LEMMA FoundKeeps ==
    ASSUME NEW h \in Nat, NEW k, Live(k, h), Underway(k), k.todo \in Seq(Steps), k.todo # << >>,
           NEW at \in 1 .. h, ReadRight(k, at), k.todo[1].ask.what # "available_block_range",
           k.request.method \in PutMethods => "accepted" \in k.verdicts, NEW outcome
    PROVE  CallInv(Found(k, outcome, at), h)
<1>1. PICK what : what = k.todo[1].ask.what
    OBVIOUS
<1>2. k \in CallTypes /\ k.header \in Nat /\ k.parts \subseteq Nat /\ Head(k.todo) = k.todo[1] /\ at \in Nat
    BY DEF Live, Sound, CallTypes
<1>3. PICK b \in Nat : b = (IF what \in {"header", "switch_header"} THEN at ELSE k.header)
    BY <1>2
<1>4. PICK p \in SUBSET Nat : p = (IF IsPart(what) THEN k.parts \cup {at} ELSE k.parts)
    BY <1>2
<1>5. PICK n : n = [k EXCEPT !.header = b, !.parts = p]
    OBVIOUS
<1>6. PICK rest : rest = After(k, outcome, at)
    OBVIOUS
<1>7. Found(k, outcome, at) = Continue(n, rest)
    BY <1>1, <1>2, <1>3, <1>4, <1>5, <1>6 DEF Found, IsPart
<1>8. CallIs(n, k.stage, k.request, k.todo, b, p, k.floor, k.asked, k.verdicts, k.response)
    BY <1>2, <1>5, FoundCall
<1>9. OfBlock(n)
    BY <1>1, <1>3, <1>4, <1>8, PartOfOneBlock
<1>10. rest \in Seq(Steps) /\ (rest # << >> => k.request.method \notin PutMethods /\ Going(k.request, rest, b, p))
    BY <1>1, <1>3, <1>6, AfterGoesOn
<1>11. b <= h /\ p \subseteq 1 .. h
    BY <1>3, <1>4 DEF Live, Sound
<1>12. Live(n, h)
    BY <1>8, <1>9, <1>11 DEF Live, Sound, CallIs, FloorReached
<1> QED BY <1>7, <1>8, <1>10, <1>12, ContinueKeeps DEF CallIs

LEMMA MissingKeeps ==
    ASSUME NEW h \in Nat, NEW k, Live(k, h), Underway(k), k.todo \in Seq(Steps), k.todo # << >>,
           k.request.method \notin PutMethods
    PROVE  CallInv(Missing(k), h)
<1> DEFINE q == k.todo
           id == k.request.at
           method == k.request.method
<1>1. /\ Len(q) \in Nat /\ Len(q) >= 1 /\ Head(q) = q[1] /\ Tail(q) \in Seq(Steps) /\ Len(Tail(q)) = Len(q) - 1
      /\ \A i \in 1 .. Len(Tail(q)) : Tail(q)[i] = q[i + 1] /\ i + 1 \in 1 .. Len(q)
    OBVIOUS
<1>2. CASE q[1].none = "NoBlockFound"
    <2>1. << RangeStep >> \in Seq(Steps) /\ << RangeStep >> # << >>
        BY RangeOnly
    <2>2. Going(k.request, << RangeStep >>, k.header, k.parts)
        BY DEF Going
    <2>3. CallInv([k EXCEPT !.todo = << RangeStep >>], h)
        BY <2>1, <2>2, GoesOn
    <2> QED BY <1>1, <1>2, <2>3 DEF Missing
<1>3. CASE q[1].none \in {"else", "null"}
    <2>1. ~IsPinning(q, method, id) /\ q # << RangeStep >>
        BY <1>3, RangeOnly DEF IsPinning, PinningStep
    <2>2. q[1].none = "else" => ~IsSingle(q, method, id) /\ ~IsEntity(q, method, id)
        BY <1>1 DEF IsSingle, SingleStep, IsEntity, EntityStep
    <2>3. IsSingle(q, method, id) => Tail(q) = << >>
        BY <1>1, EmptySeq DEF IsSingle
    <2>4. IsEntity(q, method, id) => IsEntity(Tail(q), method, id)
        BY <1>1 DEF IsEntity
    <2>5. IsPinned(q, method, id) => IsPinned(Tail(q), method, id) /\ (q[1].none = "else" => Tail(q) # << >>)
        BY RestPinned
    <2>6. Tail(q) # << >> => Going(k.request, Tail(q), k.header, k.parts)
        BY <2>1, <2>3, <2>4, <2>5 DEF Underway, Going
    <2>7. q[1].none = "else" => Tail(q) # << >>
        BY <2>1, <2>2, <2>5 DEF Underway, Going
    <2>8. q[1].none = "else" => CallInv([k EXCEPT !.todo = Tail(q)], h)
        BY <1>1, <2>6, <2>7, GoesOn
    <2>9. CallInv(Continue(k, Tail(q)), h)
        BY <1>1, <2>6, ContinueKeeps
    <2> QED BY <1>1, <1>3, <2>8, <2>9 DEF Missing
<1>4. CASE q[1].none \notin {"NoBlockFound", "else", "null"}
    <2>1. CallInv(Fail(k, q[1].none), h)
        BY FailKeeps
    <2> QED BY <1>1, <1>4, <2>1 DEF Missing
<1> QED BY <1>2, <1>3, <1>4

\* The one step of a submission.
IsSubmission(q) == Len(q) = 1 /\ q[1].ask.what = "try_accept_transaction" /\ q[1].bad = ""

LEMMA PutSteps ==
    ASSUME NEW method \in PutMethods, NEW id
    PROVE  IsSubmission(Plan(method, id))
<1>0. PICK q : q = Plan(method, id)
    OBVIOUS
<1>1. PICK s : s = Step(TryAcceptTransaction, "")
    OBVIOUS
<1>2. IsStep(s, "try_accept_transaction", Latest, "")
    <2>1. "try_accept_transaction" \in Whats /\ "" \in Nones /\ Latest \in Ids
        BY IdsDiffer DEF Whats, Nones
    <2> QED BY <1>1, <2>1, StepType DEF TryAcceptTransaction
<1>3. ASSUME NEW x \in Refusals, q = << [s EXCEPT !.refused = x] >>
      PROVE  Len(q) = 1 /\ q[1].ask.what = "try_accept_transaction" /\ q[1].bad = ""
    <2>1. PICK t : t = [s EXCEPT !.refused = x]
        OBVIOUS
    <2>2. t.ask = s.ask /\ t.bad = s.bad
        <3>1. s \in Steps
            BY <1>2 DEF IsStep
        <3> QED BY <2>1, <3>1, StepExcept, Zenon
    <2>3. q[1] = t /\ Len(q) = 1
        BY <1>3, <2>1
    <2> QED BY <1>2, <2>2, <2>3 DEF IsStep
<1>4. "DeployIsInvalid" \in Refusals /\ "TransactionIsInvalid" \in Refusals
    BY DEF Refusals
<1>5. method = "account_put_deploy" => q = << [s EXCEPT !.refused = "DeployIsInvalid"] >>
    BY <1>0, <1>1 DEF Plan, PutDeploy
<1>6. method = "account_put_transaction" => q = << [s EXCEPT !.refused = "TransactionIsInvalid"] >>
    BY <1>0, <1>1 DEF Plan, PutTransaction
<1>7. IsSubmission(q)
    BY <1>3, <1>4, <1>5, <1>6 DEF PutMethods, IsSubmission
<1> QED BY <1>0, <1>7

\* What a submission may get for an answer.
PutOutcomes == {"value", "not_found", "RootNotFound", "InternalError", "InvalidTransaction"} \cup ClientErrors

LEMMA SubmissionAnswered ==
    ASSUME NEW h \in Nat, NEW k, Live(k, h), Underway(k), Submission(k), k.todo \in Seq(Steps), k.todo # << >>,
           k.request.method \in PutMethods, NEW outcome \in PutOutcomes, NEW at,
           outcome = "value" => at \in 1 .. h /\ ReadRight(k, at) /\ "accepted" \in k.verdicts,
           outcome = "InvalidTransaction" => "refused" \in k.verdicts
    PROVE  CallInv(Answered(k, outcome, at), h)
<1>1. Head(k.todo) = k.todo[1]
    OBVIOUS
<1>2. k.todo[1].ask.what = "try_accept_transaction"
    <2>1. IsSubmission(k.todo)
        BY PutSteps DEF Submission, Live
    <2> QED BY <2>1 DEF IsSubmission
<1>3. /\ AcceptanceOf("value") = "value"
      /\ AcceptanceOf("InvalidTransaction") = "InvalidTransaction"
      /\ \A o \in PutOutcomes : AcceptanceOf(o) \notin {"none", "legacy"} \cup (Refusals \ {"InvalidTransaction"})
      /\ \A o \in PutOutcomes \ {"value", "InvalidTransaction"} :
            AcceptanceOf(o) \notin {"value", "InvalidTransaction", "TransactionIsInvalid", "SpecExecutionFailed", "DeployIsInvalid"}
      /\ "odd" \notin PutOutcomes
    BY DEF AcceptanceOf, FromErrorCode, ErrorCodes, InvalidTransactionOrDeploy, PutOutcomes, ClientErrors, Refusals
<1>4. CASE outcome = "value"
    <2>1. CallInv(Found(k, "value", at), h)
        BY <1>2, <1>4, FoundKeeps
    <2> QED BY <1>1, <1>2, <1>3, <1>4, <2>1 DEF Answered
<1>5. CASE outcome = "InvalidTransaction"
    <2>1. CallInv(Fail(k, k.todo[1].refused), h)
        BY <1>5, FailKeeps
    <2> QED BY <1>1, <1>2, <1>3, <1>5, <2>1 DEF Answered
<1>6. CASE outcome \notin {"value", "InvalidTransaction"}
    <2>1. CallInv(Fail(k, AcceptanceOf(outcome)), h)
        BY <1>3, <1>6, CodeRange, FailKeeps
    <2> QED BY <1>1, <1>2, <1>3, <1>6, <2>1 DEF Answered
<1> QED BY <1>4, <1>5, <1>6

\* What an answer leads to.
LEMMA AnswerForms ==
    ASSUME NEW k, k.todo \in Seq(Steps), k.todo # << >>, NEW outcome, NEW at,
           NEW parsed, parsed = (IF k.todo[1].ask.what = "try_accept_transaction" THEN AcceptanceOf(outcome)
                                 ELSE ParseResponse(outcome)),
           NEW a, a = Answered(k, outcome, at)
    PROVE  \/ \E error : a = Fail(k, error)
           \/ a = Missing(k)
           \/ a = Found(k, parsed, at) /\ parsed \in {"value", "legacy"} /\ k.todo[1].ask.what # "available_block_range"
<1>1. Head(k.todo) = k.todo[1]
    OBVIOUS
<1>2. CASE outcome = "odd"
    <2>1. parsed = "odd"
        BY <1>2 DEF AcceptanceOf, ParseResponse, ErrorCodes
    <2>2. a = Fail(k, k.todo[1].bad)
        BY <1>1, <1>2, <2>1 DEF Answered
    <2> QED BY <2>2
<1>3. CASE outcome # "odd" /\ k.todo[1].ask.what = "available_block_range" /\ parsed \in {"value", "legacy"}
    BY <1>1, <1>3 DEF Answered
<1>4. CASE outcome # "odd" /\ parsed \in {"value", "legacy"} /\ k.todo[1].ask.what # "available_block_range"
    BY <1>1, <1>4 DEF Answered
<1>5. CASE outcome # "odd" /\ parsed = "none"
    BY <1>1, <1>5 DEF Answered
<1>6. CASE outcome # "odd" /\ parsed = "InvalidTransaction"
    BY <1>1, <1>6 DEF Answered
<1>7. CASE outcome # "odd" /\ parsed \notin {"value", "legacy", "none", "InvalidTransaction"}
    BY <1>1, <1>7 DEF Answered
<1> QED BY <1>2, <1>3, <1>4, <1>5, <1>6, <1>7

LEMMA QuestionAnswered ==
    ASSUME NEW h \in Nat, NEW k, Live(k, h), Underway(k), k.todo \in Seq(Steps), k.todo # << >>,
           k.request.method \notin PutMethods, NEW outcome, NEW at,
           outcome \in {"value", "legacy"} => at \in 1 .. h /\ ReadRight(k, at)
    PROVE  CallInv(Answered(k, outcome, at), h)
<1>2. PICK parsed : parsed = IF k.todo[1].ask.what = "try_accept_transaction" THEN AcceptanceOf(outcome)
                             ELSE ParseResponse(outcome)
    OBVIOUS
<1>3. (parsed = "value" <=> outcome = "value") /\ (parsed = "legacy" <=> outcome = "legacy")
    BY <1>2, Parsed
<1>4. \A error : CallInv(Fail(k, error), h)
    BY FailKeeps
<1>5. CallInv(Missing(k), h)
    BY MissingKeeps
<1>6. ASSUME parsed \in {"value", "legacy"}, k.todo[1].ask.what # "available_block_range"
      PROVE  CallInv(Found(k, parsed, at), h)
    BY <1>3, <1>6, FoundKeeps
<1>7. PICK a : a = Answered(k, outcome, at)
    OBVIOUS
<1>8. \/ \E error : a = Fail(k, error)
      \/ a = Missing(k)
      \/ a = Found(k, parsed, at) /\ parsed \in {"value", "legacy"} /\ k.todo[1].ask.what # "available_block_range"
    BY <1>2, <1>7, AnswerForms
<1> QED BY <1>4, <1>5, <1>6, <1>7, <1>8

\* The node has a value of a block only if it has the block.
LEMMA NodeValue ==
    ASSUME NEW what, NEW at \in Nat, height \in Nat
    PROVE  /\ "value" \in NodeOutcomes(what, at) \/ "legacy" \in NodeOutcomes(what, at) => at \in 1 .. height
           /\ NodeOutcomes("try_accept_transaction", at) \subseteq PutOutcomes
<1>1. "value" \notin NodeErrors(what) /\ "legacy" \notin NodeErrors(what)
    BY DEF NodeErrors
<1>2. "value" \in NodeOutcomes(what, at) \/ "legacy" \in NodeOutcomes(what, at) => at # NoBlock /\ ~(at > height)
    BY <1>1 DEF NodeOutcomes
<1>3. NodeErrors("try_accept_transaction") = {"InternalError", "InvalidTransaction"}
    BY DEF NodeErrors
<1>4. NodeOutcomes("try_accept_transaction", at) \subseteq PutOutcomes
    BY <1>3 DEF NodeOutcomes, PutOutcomes
<1> QED BY <1>2, <1>4 DEF NoBlock

LEMMA ReadAtRight ==
    ASSUME height \in Nat, NEW k, Live(k, height), Underway(k), k.todo \in Seq(Steps), k.todo # << >>,
           NEW at, at = ReadAt(k.todo[1].ask, k.header)
    PROVE  at \in Nat /\ ReadRight(k, at)
<1> DEFINE ask == k.todo[1].ask
           method == k.request.method
           id == k.request.at
<1>1. k.header \in Nat /\ k.floor \in Nat /\ LatestSwitch(height) \in 0 .. height
    BY SwitchBlockRange DEF Live, Sound, CallTypes
<1>2. ask.at \in Ids /\ 1 \in 1 .. Len(k.todo)
    <2>1. k.todo[1] \in Steps /\ 1 \in 1 .. Len(k.todo)
        OBVIOUS
    <2> QED BY <2>1 DEF Steps
<1>3. ask.at.height \in Nat
    BY <1>2, IdTypes
<1>4. k.floor <= height /\ (method \in OfEras => k.floor <= LatestSwitch(height))
    BY <1>1 DEF Live, FloorReached
<1>5. CASE ask.what = "switch_header"
    <2>1. ~IsSingle(k.todo, method, id)
        BY <1>5 DEF IsSingle, SingleStep
    <2>2. ~IsPinned(k.todo, method, id) /\ ~IsEntity(k.todo, method, id)
        BY <1>2, <1>5 DEF IsPinned, PinnedStep, IsEntity, EntityStep
    <2>3. k.todo # << RangeStep >>
        BY <1>5, RangeOnly
    <2>4. IsPinning(k.todo, method, id)
        BY <2>1, <2>2, <2>3 DEF Underway, Going
    <2>5. ask.at = Latest /\ method \in EraMethods
        BY <1>5, <2>4 DEF IsPinning, PinningStep, ReadLatestSwitchBlockHeader, ReadBlockHeader, Question
    <2>6. at = LatestSwitch(height)
        BY <1>5 DEF ReadAt
    <2> QED BY <1>1, <1>4, <2>5, <2>6, IdsDiffer DEF ReadRight, OfEras
<1>6. CASE ask.what = "reward" /\ ask.at = Latest
    <2>1. ~IsPinned(k.todo, method, id) /\ ~IsEntity(k.todo, method, id)
        BY <1>2, <1>6 DEF IsPinned, PinnedStep, IsEntity, EntityStep
    <2>2. k.todo # << RangeStep >>
        BY <1>6, RangeOnly
    <2>3. ~IsPinning(k.todo, method, id)
        BY <1>6 DEF IsPinning, PinningStep, ReadLatestSwitchBlockHeader, ReadBlockHeader, Question
    <2>4. IsSingle(k.todo, method, id)
        BY <2>1, <2>2, <2>3 DEF Underway, Going
    <2>5. method \in OfEras
        BY <1>6, <2>4 DEF IsSingle, SingleStep, OfEras
    <2>6. at = LatestSwitch(height)
        BY <1>2, <1>6, IdTypes DEF ReadAt
    <2> QED BY <1>1, <1>4, <1>6, <2>5, <2>6, IdsDiffer DEF ReadRight
<1>7. CASE ask.what # "switch_header" /\ ~(ask.what = "reward" /\ ask.at = Latest)
    <2>1. /\ ask.at = Latest => at = height
          /\ ask.at = Header => at = k.header
          /\ ask.at \notin {Latest, Header} => at = ask.at.height
        BY <1>2, <1>7, IdTypes DEF ReadAt
    <2>2. at \in Nat
        BY <1>1, <1>3, <2>1
    <2> QED BY <1>1, <1>4, <2>1, <2>2 DEF ReadRight
<1> QED BY <1>5, <1>6, <1>7
-----------------------------------------------------------------------------
\* What the framework lets through.

LEMMA Routed ==
    ASSUME NEW r \in HttpRequests, NEW f, f = Route(r, AllowUnknownFields)
    PROVE  /\ f.outcome # "accepted" =>
                 /\ f \in Responses /\ f.status # 0 /\ f.outcome \in Refused
                 /\ f.status = 200 =>
                       \/ f.id = r.id
                       \/ f.id = "null" /\ (~r.object \/ r.id \notin {"text", "integer", "null"})
           /\ f.outcome = "accepted" =>
                 /\ f.id = r.id
                 /\ r.path = "rpc" /\ r.post /\ r.content_type = "json" /\ r.length = "fits" /\ r.object
                 /\ r.jsonrpc = "2.0" /\ r.id \in {"text", "integer", "null"}
                 /\ r.params \in {"absent", "null", "empty", "array", "object"}
<1>1. /\ r.content_type \in {Absent, "json", "other"} /\ r.post \in BOOLEAN /\ r.object \in BOOLEAN
      /\ r.id \in Kinds
      /\ r.params \in {Absent, "null", "empty", "array", "object", "integer", "text", "fraction", "boolean"}
    BY DEF HttpRequests, Kinds
<1>2. ASSUME NEW rejection \in {"NotFound", "MethodNotAllowed", "MissingHeader", "InvalidHeader", "BodyTooLarge", "MissingId"},
             f = Rejected(rejection)
      PROVE  f \in Responses /\ f.status \notin {0, 200} /\ f.outcome \in Refused /\ f.outcome # "accepted"
    <2>1. PICK s \in Nat \ {0, 200} : s = HandleRejection(rejection)
        BY DEF HandleRejection
    <2>2. f = [status |-> s, id |-> Absent, outcome |-> rejection]
        BY <1>2, <2>1 DEF Rejected
    <2>3. rejection \in Refused /\ rejection # "accepted" /\ Absent \in Kinds
        BY DEF Refused, Kinds
    <2> QED BY <2>2, <2>3 DEF Responses
<1>3. ASSUME NEW id \in Kinds, NEW error \in {"InvalidRequest", "ParseError"}, f = NewFailure(id, error)
      PROVE  f \in Responses /\ f.status = 200 /\ f.id = id /\ f.outcome \in Refused /\ f.outcome # "accepted"
    <2>1. error \in Refused /\ error # "accepted"
        BY DEF Refused
    <2> QED BY <1>3, <2>1, Replies
<1>4. CASE BaseFilter(r) # "passed"
    <2>1. BaseFilter(r) \in {"NotFound", "MethodNotAllowed", "MissingHeader", "InvalidHeader", "BodyTooLarge"}
        BY <1>4 DEF BaseFilter
    <2>2. f = Rejected(BaseFilter(r))
        BY <1>4 DEF Route
    <2> QED BY <1>2, <2>1, <2>2
<1>5. CASE BaseFilter(r) = "passed" /\ ~r.object
    <2>1. f = NewFailure("null", "ParseError") /\ "null" \in Kinds
        BY <1>5 DEF Route, HandleBody, Kinds
    <2> QED BY <1>3, <1>5, <2>1
<1>6. CASE BaseFilter(r) = "passed" /\ r.object
    <2>1. r.path = "rpc" /\ r.post /\ r.content_type = "json" /\ r.length = "fits"
        BY <1>1, <1>6 DEF BaseFilter
    <2>2. f = NewRequest(r, AllowUnknownFields)
        BY <1>6 DEF Route, HandleBody
    <2>3. PICK bad \in BOOLEAN : bad <=> \/ r.jsonrpc # JSON_RPC_VERSION
                          \/ r.method \in {Absent, "not a string"}
                          \/ (r.params # Absent /\ ParamsTryFrom(r.params) = "InvalidRequest")
        OBVIOUS
    <2>4. CASE bad
        <3>1. f = NewFailure(EchoedId(r.id), "InvalidRequest")
            BY <2>2, <2>3, <2>4 DEF NewRequest
        <3>2. EchoedId(r.id) \in Kinds /\ (EchoedId(r.id) = r.id \/ (r.id = Absent /\ EchoedId(r.id) = "null"))
            BY <1>1 DEF EchoedId, Kinds
        <3> QED BY <1>3, <3>1, <3>2 DEF Absent
    <2>5. CASE ~bad /\ r.id = Absent
        <3>1. f = Rejected("MissingId")
            BY <2>2, <2>3, <2>5 DEF NewRequest
        <3> QED BY <1>2, <3>1
    <2>6. CASE ~bad /\ r.id # Absent /\ ~IsValidId(r.id)
        <3>1. f = NewFailure("null", "InvalidRequest") /\ "null" \in Kinds
            BY <2>2, <2>3, <2>6 DEF NewRequest, Kinds
        <3> QED BY <1>3, <2>6, <3>1 DEF IsValidId
    <2>7. CASE ~bad /\ r.id # Absent /\ IsValidId(r.id)
        <3>1. f = Accepted(r)
            BY <2>2, <2>3, <2>7 DEF NewRequest, AllowUnknownFields
        <3>2. f.outcome = "accepted" /\ f.id = r.id
            BY <3>1 DEF Accepted
        <3>3. r.jsonrpc = "2.0" /\ r.params \in {"absent", "null", "empty", "array", "object"}
            BY <1>1, <2>3, <2>7 DEF JSON_RPC_VERSION, ParamsTryFrom, Absent
        <3> QED BY <1>6, <2>1, <2>7, <3>2, <3>3 DEF IsValidId
    <2> QED BY <2>4, <2>5, <2>6, <2>7
<1> QED BY <1>1, <1>4, <1>5, <1>6
-----------------------------------------------------------------------------
\* The actions.

LEMMA CallsAreTyped ==
    ASSUME ChainTypes, CallsInv
    PROVE  TypeOK
<1>1. height \in Nat
    BY Sizes DEF ChainTypes
<1>2. ASSUME NEW c \in Clients
      PROVE  /\ calls[c].stage \in {"idle", "received", "running", "done"}
             /\ (calls[c].stage = "running") <=> (calls[c].todo # << >>)
             /\ (calls[c].stage = "done") <=> (calls[c].response # NoResponse)
             /\ calls[c].header \in 0 .. height
             /\ calls[c].parts \subseteq 1 .. height
    <2>1. Staged(calls[c], height)
        BY DEF CallsInv, CallInv
    <2>2. calls[c].stage \in {"idle", "received", "running", "done"} /\ calls[c].header \in Nat
        BY <2>1 DEF Staged, CallTypes
    <2> QED BY <1>1, <2>1, <2>2 DEF Staged
<1> QED BY <1>2 DEF TypeOK, ChainTypes

\* A step of one call.
LEMMA OneCall ==
    ASSUME RpcInv, NEW c \in Clients, NEW n, calls' = [calls EXCEPT ![c] = n], UNCHANGED <<height, cacheVars>>,
           CallInv(n, height), Guarded(n)
    PROVE  RpcInv'
<1>1. /\ height' = height /\ cache' = cache /\ fetching' = fetching /\ bus' = bus /\ lagged' = lagged
      /\ announced' = announced
    BY DEF cacheVars
<1>2. n \in CallTypes
    BY DEF CallInv, Staged
<1>3. calls' \in [Clients -> CallTypes] /\ \A d \in Clients : calls'[d] = IF d = c THEN n ELSE calls[d]
    BY <1>2 DEF RpcInv, CallsInv
<1>4. ChainTypes' /\ AnnouncementKept'
    BY <1>1 DEF RpcInv, ChainTypes, AnnouncementKept
<1>5. CallsInv'
    <2>1. \A d \in Clients : CallInv(calls'[d], height)
        BY <1>3 DEF RpcInv, CallsInv
    <2>2. \A d \in Clients : CallInv(calls'[d], height')
        BY <1>1, <2>1
    <2> QED BY <1>3, <2>2 DEF CallsInv
<1>6. FloorKept'
    <2>1. \A d \in Clients : Guarded(calls'[d])
        BY <1>3 DEF RpcInv, FloorKept
    <2> QED BY <1>1, <2>1 DEF FloorKept, Guarded
<1> QED BY <1>4, <1>5, <1>6 DEF RpcInv

LEMMA OneReply ==
    ASSUME RpcInv, NEW c \in Clients, NEW r, calls' = [calls EXCEPT ![c] = Respond(calls[c], r)],
           UNCHANGED <<height, cacheVars>>, Sound(calls[c], height), ReplyFits(calls[c], r)
    PROVE  RpcInv'
<1>1. PICK n : n = Respond(calls[c], r)
    OBVIOUS
<1>2. height \in Nat
    BY Sizes DEF RpcInv, ChainTypes
<1>3. CallInv(n, height)
    BY <1>1, <1>2, RespondKeeps
<1>4. n.stage = "done"
    BY <1>1, RespondedCall DEF CallIs, Sound, ReplyFits
<1> QED BY <1>1, <1>3, <1>4, OneCall DEF Guarded

LEMMA IdleInv ==
    ASSUME NEW h \in Nat
    PROVE  CallInv(Idle, h)
<1>1. CallIs(Idle, "idle", NoRequest, << >>, NoBlock, {}, NoBlock, FALSE, {}, NoResponse)
    BY IdleCall
<1>2. NoResponse.status = 0 /\ NoRequest.method \notin PutMethods
    BY DEF NoResponse, NoRequest, PutMethods, Absent
<1>3. Staged(Idle, h)
    BY <1>1, <1>2 DEF CallIs, Staged, NoBlock
<1>4. Called(Idle) /\ Submission(Idle)
    BY <1>1, <1>2 DEF CallIs, Called, Submission
<1> QED BY <1>1, <1>3, <1>4 DEF CallInv, CallIs

LEMMA InitInv == Init => RpcInv
<1> SUFFICES ASSUME Init PROVE RpcInv
    OBVIOUS
<1>1. ChainTypes
    <2>1. height = StartHeight /\ cache = 0 /\ fetching = 0 /\ lagged = FALSE /\ announced = 0
        BY DEF Init, NoBlock
    <2>2. bus \in Seq(1 .. MaxHeight) /\ Len(bus) = 0
        BY DEF Init
    <2>3. lagged \in BOOLEAN
        BY <2>1
    <2>4. /\ height \in StartHeight .. MaxHeight /\ cache \in 0 .. height /\ fetching \in 0 .. MaxHeight
          /\ announced \in 0 .. MaxHeight /\ Len(bus) <= BusCapacity
        BY <2>1, <2>2, Sizes
    <2> QED BY <2>2, <2>3, <2>4 DEF ChainTypes
<1>2. \A c \in Clients : calls[c] = Idle
    BY DEF Init
<1>3. CallsInv
    <2>1. height \in Nat
        BY Sizes DEF Init
    <2>2. Idle \in CallTypes
        BY IdleCall DEF CallIs
    <2> QED BY <1>2, <2>1, <2>2, IdleInv DEF CallsInv, Init
<1>4. AnnouncementKept
    BY DEF Init, AnnouncementKept
<1>5. FloorKept
    BY <1>2, IdleCall DEF CallIs, FloorKept, Guarded
<1> QED BY <1>1, <1>3, <1>4, <1>5 DEF RpcInv

LEMMA CallGrows ==
    ASSUME NEW h \in Nat, NEW g \in Nat, h <= g, NEW k, CallInv(k, h)
    PROVE  CallInv(k, g)
<1>1. k \in CallTypes /\ k.header \in Nat /\ k.floor \in Nat
    BY DEF CallInv, Staged, CallTypes
<1>2. Staged(k, g)
    <2>1. 1 .. h \subseteq 1 .. g
        OBVIOUS
    <2> QED BY <1>1, <2>1 DEF CallInv, Staged
<1>3. FloorReached(k, h) => FloorReached(k, g)
    <2>1. LatestSwitch(h) \in Nat /\ LatestSwitch(g) \in Nat /\ LatestSwitch(h) <= LatestSwitch(g)
        BY SwitchBlockRange
    <2> QED BY <1>1, <2>1 DEF FloorReached
<1> QED BY <1>2, <1>3 DEF CallInv

LEMMA GrowKeeps ==
    ASSUME RpcInv, Grow
    PROVE  RpcInv'
<1>1. /\ height' = height + 1 /\ height < MaxHeight /\ cache' = cache /\ fetching' = fetching /\ bus' = bus
      /\ lagged' = lagged /\ announced' = announced /\ calls' = calls
    BY DEF Grow, cacheVars
<1>2. height \in Nat /\ height' \in Nat /\ height <= height'
    BY <1>1, Sizes DEF RpcInv, ChainTypes
<1>3. ChainTypes'
    BY <1>1, <1>2, Sizes DEF RpcInv, ChainTypes
<1>4. AnnouncementKept' /\ FloorKept'
    BY <1>1 DEF RpcInv, AnnouncementKept, FloorKept, Guarded
<1>5. CallsInv'
    <2>1. \A c \in Clients : CallInv(calls[c], height')
        BY <1>2, CallGrows DEF RpcInv, CallsInv
    <2> QED BY <1>1, <2>1 DEF RpcInv, CallsInv
<1> QED BY <1>3, <1>4, <1>5 DEF RpcInv

LEMMA FloorLowers ==
    ASSUME NEW g \in Nat, NEW k, CallInv(k, g), k.stage \in {"received", "running"}, NEW h \in Nat,
           NEW n, n = LowerFloor(k, h)
    PROVE  /\ CallInv(n, g) /\ n.stage = k.stage /\ n.request = k.request /\ n.floor \in Nat /\ n.floor <= k.floor
           /\ n.request.method = "chain_get_block" => n.floor <= h
<1>1. k \in CallTypes /\ k.floor \in Nat
    BY DEF CallInv, Staged, CallTypes
<1>2. CASE k.request.method = "chain_get_block" /\ h < k.floor
    <2>1. n = [k EXCEPT !.floor = h]
        BY <1>2 DEF LowerFloor
    <2>2. CallIs(n, k.stage, k.request, k.todo, k.header, k.parts, h, k.asked, k.verdicts, k.response)
        BY <1>1, <2>1, LoweredCall
    <2>3. Staged(n, g)
        BY <2>2 DEF CallIs, Staged, CallInv
    <2>4. Called(n) /\ Submission(n)
        BY <2>2 DEF CallIs, Called, Submission, CallInv
    <2>5. OfBlock(n)
        <3>1. k.header \in Nat /\ k.parts \subseteq Nat
            BY <1>1 DEF CallTypes
        <3> QED BY <1>1, <1>2, <2>2, <3>1 DEF CallIs, OfBlock, CallInv
    <2>6. n.stage = "running" => Underway(n)
        BY <2>2 DEF CallIs, Underway, CallInv
    <2>7. FloorReached(n, g)
        <3>1. LatestSwitch(g) \in Nat
            BY SwitchBlockRange
        <3> QED BY <1>1, <1>2, <2>2, <3>1 DEF CallIs, FloorReached, CallInv
    <2> QED BY <1>1, <1>2, <2>2, <2>3, <2>4, <2>5, <2>6, <2>7 DEF CallInv, CallIs
<1>3. CASE ~(k.request.method = "chain_get_block" /\ h < k.floor)
    <2>1. n = k
        BY <1>3 DEF LowerFloor
    <2> QED BY <1>1, <1>3, <2>1
<1> QED BY <1>2, <1>3

LEMMA AnnounceKeeps ==
    ASSUME RpcInv, NEW h \in 1 .. MaxHeight, Announce(h)
    PROVE  RpcInv'
<1>1. /\ height' = height /\ cache' = cache /\ fetching' = fetching /\ announced' = h
      /\ lagged' = (lagged \/ Len(bus) = BusCapacity)
      /\ calls' = [c \in Clients |-> IF calls[c].stage \in {"received", "running"}
                                      THEN LowerFloor(calls[c], h) ELSE calls[c]]
    BY DEF Announce
<1>2. height \in Nat /\ h \in Nat /\ bus \in Seq(1 .. MaxHeight) /\ Len(bus) \in Nat /\ Len(bus) <= BusCapacity
      /\ BusCapacity \in Nat /\ BusCapacity >= 1
    BY Sizes DEF RpcInv, ChainTypes
<1>3. /\ bus' \in Seq(1 .. MaxHeight) /\ Len(bus') \in Nat /\ Len(bus') >= 1 /\ Len(bus') <= BusCapacity
      /\ bus'[Len(bus')] = h
      /\ \A i \in 1 .. Len(bus') : bus'[i] = h \/ \E j \in 1 .. Len(bus) : bus'[i] = bus[j]
    <2>1. CASE Len(bus) < BusCapacity
        <3>1. bus' = Append(bus, h)
            BY <2>1 DEF Announce
        <3> QED BY <1>2, <2>1, <3>1
    <2>2. CASE ~(Len(bus) < BusCapacity)
        <3>1. bus' = Append(Tail(bus), h)
            BY <2>2 DEF Announce
        <3>2. bus # << >> /\ Len(bus) = BusCapacity
            BY <1>2, <2>2
        <3>3. PICK t : t = Tail(bus)
            OBVIOUS
        <3>4. /\ t \in Seq(1 .. MaxHeight) /\ Len(t) \in Nat /\ Len(t) = Len(bus) - 1
              /\ \A i \in 1 .. Len(t) : t[i] = bus[i + 1] /\ i + 1 \in 1 .. Len(bus)
            BY <1>2, <3>2, <3>3
        <3>5. bus' = Append(t, h)
            BY <3>1, <3>3
        <3>6. /\ bus' \in Seq(1 .. MaxHeight) /\ Len(bus') = Len(bus) /\ bus'[Len(bus')] = h
              /\ \A i \in 1 .. Len(bus') : i # Len(bus') => i \in 1 .. Len(t) /\ bus'[i] = t[i]
            BY <1>2, <3>4, <3>5
        <3> QED BY <1>2, <3>2, <3>4, <3>6
    <2> QED BY <2>1, <2>2
<1>4. ChainTypes'
    <2>1. lagged' \in BOOLEAN
        BY <1>1
    <2> QED BY <1>1, <1>3, <2>1 DEF RpcInv, ChainTypes
<1>5. AnnouncementKept'
    <2>1. bus' # << >>
        BY <1>3
    <2> QED BY <1>1, <1>3, <2>1 DEF AnnouncementKept
<1>6. ASSUME NEW c \in Clients
      PROVE  calls'[c] \in CallTypes /\ CallInv(calls'[c], height) /\ Guarded(calls[c])'
    <2>1. CallInv(calls[c], height) /\ Guarded(calls[c])
        BY DEF RpcInv, CallsInv, FloorKept
    <2>2. CASE calls[c].stage \in {"received", "running"}
        <3>1. PICK n : n = calls'[c]
            OBVIOUS
        <3>2. n = LowerFloor(calls[c], h)
            BY <1>1, <2>2, <3>1
        <3>3. /\ CallInv(n, height) /\ n.stage = calls[c].stage /\ n.request = calls[c].request
              /\ n.floor \in Nat /\ n.floor <= calls[c].floor
              /\ n.request.method = "chain_get_block" => n.floor <= h
            BY <1>2, <2>1, <2>2, <3>2, FloorLowers
        <3>4. n.request.method = "chain_get_block" =>
                  /\ \A i \in 1 .. Len(bus') : bus'[i] >= n.floor
                  /\ fetching # NoBlock => fetching >= n.floor
                  /\ cache # NoBlock => cache >= n.floor
            <4>1. calls[c].floor \in Nat /\ fetching \in Nat /\ cache \in Nat
                BY <1>2, <2>1 DEF RpcInv, ChainTypes, CallInv, Staged, CallTypes
            <4>2. \A i \in 1 .. Len(bus) : bus[i] \in 1 .. MaxHeight
                BY <1>2, ElementOfSeq, Zenon
            <4>3. ASSUME n.request.method = "chain_get_block", NEW i \in 1 .. Len(bus')
                  PROVE  bus'[i] >= n.floor
                <5>1. \A j \in 1 .. Len(bus) : bus[j] >= calls[c].floor
                    BY <2>1, <2>2, <3>3, <4>3 DEF Guarded
                <5>2. \A j \in 1 .. Len(bus) : bus[j] >= n.floor
                    BY <3>3, <4>1, <4>2, <5>1
                <5> QED BY <1>2, <1>3, <3>3, <4>3, <5>2
            <4>4. n.request.method = "chain_get_block" =>
                      (fetching # NoBlock => fetching >= n.floor) /\ (cache # NoBlock => cache >= n.floor)
                BY <2>1, <2>2, <3>3, <4>1 DEF Guarded
            <4> QED BY <4>3, <4>4
        <3>5. n \in CallTypes
            BY <3>3 DEF CallInv, Staged
        <3> QED BY <1>1, <3>1, <3>3, <3>4, <3>5 DEF Guarded
    <2>3. CASE calls[c].stage \notin {"received", "running"}
        <3>1. calls'[c] = calls[c]
            BY <1>1, <2>3
        <3> QED BY <2>1, <2>3, <3>1 DEF Guarded, CallInv, Staged
    <2> QED BY <2>2, <2>3
<1>7. CallsInv'
    BY <1>1, <1>6 DEF CallsInv
<1>8. FloorKept'
    BY <1>6 DEF FloorKept
<1> QED BY <1>4, <1>5, <1>7, <1>8 DEF RpcInv

\* The loop that keeps the cache leaves the calls alone.
LEMMA CallsStay ==
    ASSUME RpcInv, calls' = calls, height' = height
    PROVE  CallsInv'
BY DEF RpcInv, CallsInv

LEMMA BusElements ==
    ASSUME RpcInv
    PROVE  /\ bus \in Seq(1 .. MaxHeight) /\ Len(bus) \in Nat
           /\ \A i \in 1 .. Len(bus) : bus[i] \in 1 .. MaxHeight /\ bus[i] \in Nat
           /\ fetching \in Nat /\ cache \in Nat /\ height \in Nat /\ announced \in Nat
<1>1. bus \in Seq(1 .. MaxHeight)
    BY DEF RpcInv, ChainTypes
<1>2. \A i \in 1 .. Len(bus) : bus[i] \in 1 .. MaxHeight
    BY <1>1, ElementOfSeq, Zenon
<1>3. Len(bus) \in Nat
    BY <1>1
<1>4. fetching \in Nat /\ cache \in Nat /\ height \in Nat /\ announced \in Nat
    BY Sizes DEF RpcInv, ChainTypes
<1> QED BY <1>1, <1>2, <1>3, <1>4

LEMMA RecvBlockAddedKeeps ==
    ASSUME RpcInv, RecvBlockAdded
    PROVE  RpcInv'
<1>1. /\ height' = height /\ cache' = cache /\ lagged' = lagged /\ announced' = announced /\ calls' = calls
      /\ bus # << >> /\ fetching = NoBlock
    BY DEF RecvBlockAdded
<1>2. PICK t : t = bus'
    OBVIOUS
<1>3. /\ Head(bus) = bus[1] /\ t \in Seq(1 .. MaxHeight) /\ Len(t) \in Nat /\ Len(t) = Len(bus) - 1 /\ Len(bus) >= 1
      /\ \A i \in 1 .. Len(t) : t[i] = bus[i + 1] /\ i + 1 \in 1 .. Len(bus)
      /\ bus[1] \in 1 .. MaxHeight
    <2>1. t = Tail(bus)
        BY <1>2 DEF RecvBlockAdded
    <2>2. Len(bus) >= 1
        BY <1>1, BusElements
    <2> QED BY <1>1, <2>1, <2>2, BusElements
<1>4. \/ fetching' = NoBlock /\ cache # NoBlock /\ bus[1] <= cache
      \/ fetching' = bus[1]
    BY <1>3 DEF RecvBlockAdded
<1>5. ChainTypes'
    <2>1. fetching' \in 0 .. MaxHeight
        BY <1>3, <1>4, Sizes DEF NoBlock
    <2>2. Len(t) <= BusCapacity
        BY <1>3, Sizes, BusElements DEF RpcInv, ChainTypes
    <2> QED BY <1>1, <1>2, <1>3, <2>1, <2>2 DEF RpcInv, ChainTypes
<1>6. AnnouncementKept'
    <2>1. bus[Len(bus)] = announced
        BY <1>1 DEF RpcInv, AnnouncementKept
    <2>2. CASE t # << >>
        <3>1. Len(t) >= 1
            BY <1>3, <2>2, EmptySeq
        <3>2. t[Len(t)] = announced
            BY <1>3, <2>1, <3>1, BusElements
        <3> QED BY <1>1, <1>2, <2>2, <3>2 DEF AnnouncementKept
    <2>3. CASE t = << >>
        <3>1. Len(bus) = 1
            BY <1>3, <2>3, BusElements
        <3>2. bus[1] = announced /\ bus[1] # NoBlock
            BY <1>3, <2>1, <3>1 DEF NoBlock
        <3> QED BY <1>1, <1>2, <1>4, <2>3, <3>2, BusElements DEF AnnouncementKept
    <2> QED BY <2>2, <2>3
<1>7. FloorKept'
    <2> SUFFICES ASSUME NEW c \in Clients, calls[c].stage \in {"received", "running"},
                        calls[c].request.method = "chain_get_block"
                 PROVE  /\ \A i \in 1 .. Len(t) : t[i] >= calls[c].floor
                        /\ fetching' # NoBlock => fetching' >= calls[c].floor
                        /\ cache # NoBlock => cache >= calls[c].floor
        BY <1>1, <1>2 DEF FloorKept, Guarded
    <2>1. /\ \A i \in 1 .. Len(bus) : bus[i] >= calls[c].floor
          /\ cache # NoBlock => cache >= calls[c].floor
        BY DEF RpcInv, FloorKept, Guarded
    <2>2. 1 \in 1 .. Len(bus)
        BY <1>3, BusElements
    <2> QED BY <1>3, <1>4, <2>1, <2>2
<1>8. CallsInv'
    BY <1>1, CallsStay
<1> QED BY <1>5, <1>6, <1>7, <1>8 DEF RpcInv

LEMMA RecvLaggedKeeps ==
    ASSUME RpcInv, RecvLagged
    PROVE  RpcInv'
<1>1. /\ height' = height /\ cache' = NoBlock /\ fetching' = fetching /\ lagged' = FALSE /\ bus' = bus
      /\ announced' = announced /\ calls' = calls
    BY DEF RecvLagged
<1>2. ChainTypes'
    <2>1. cache' \in 0 .. height
        BY <1>1, BusElements DEF NoBlock
    <2>2. lagged' \in BOOLEAN
        BY <1>1
    <2> QED BY <1>1, <2>1, <2>2 DEF RpcInv, ChainTypes
<1>3. AnnouncementKept' /\ FloorKept'
    BY <1>1 DEF RpcInv, AnnouncementKept, FloorKept, Guarded
<1>4. CallsInv'
    BY <1>1, CallsStay
<1> QED BY <1>2, <1>3, <1>4 DEF RpcInv

LEMMA FetchBlockKeeps ==
    ASSUME RpcInv, FetchBlock
    PROVE  RpcInv'
<1>1. /\ height' = height /\ fetching # NoBlock /\ fetching' = NoBlock /\ bus' = bus /\ lagged' = lagged
      /\ announced' = announced /\ calls' = calls
    BY DEF FetchBlock
<1>2. PICK outcome \in NodeOutcomes("block_with_signatures", fetching) \cup ClientErrors :
         cache' = CacheAfter(ParseResponse(outcome), fetching)
    BY DEF FetchBlock
<1>3. ParseResponse(outcome) = "value" => fetching \in 1 .. height
    <2>1. outcome = "value" => outcome \in NodeOutcomes("block_with_signatures", fetching)
        BY <1>2 DEF ClientErrors
    <2> QED BY <2>1, BusElements, NodeValue, Parsed
<1>4. \/ cache' = NoBlock
      \/ cache' = cache /\ cache # NoBlock /\ fetching <= cache
      \/ cache' = fetching /\ fetching \in 1 .. height
    BY <1>2, <1>3 DEF CacheAfter
<1>5. ChainTypes'
    BY <1>1, <1>4, BusElements, Sizes DEF RpcInv, ChainTypes, NoBlock
<1>6. AnnouncementKept'
    BY <1>1, <1>4, BusElements DEF RpcInv, AnnouncementKept, NoBlock
<1>7. FloorKept'
    BY <1>1, <1>4 DEF RpcInv, FloorKept, Guarded
<1>8. CallsInv'
    BY <1>1, CallsStay
<1> QED BY <1>5, <1>6, <1>7, <1>8 DEF RpcInv

LEMMA SendKeeps ==
    ASSUME RpcInv, NEW c \in Clients, NEW r \in Requests, Send(c, r)
    PROVE  RpcInv'
<1>1. r \in HttpRequests
    BY Sizes
<1>2. PICK f : f = Floor(r)
    OBVIOUS
<1>3. LatestSwitch(height) \in 0 .. height /\ LatestSwitch(height) \in Nat
    BY BusElements, SwitchBlockRange
<1>4. /\ f \in Nat
      /\ f <= IF r.method \in OfEras THEN LatestSwitch(height) ELSE height
      /\ r.method = "chain_get_block" => (Quiet /\ f = announced) \/ f = NoBlock
    BY <1>2, <1>3, BusElements DEF Floor, OfEras, EraMethods, NoBlock
<1>5. PICK n : n = [Idle EXCEPT !.stage = "received", !.request = r, !.floor = f]
    OBVIOUS
<1>6. CallIs(n, "received", r, << >>, NoBlock, {}, f, FALSE, {}, NoResponse)
    BY <1>1, <1>4, <1>5, ReceivedCall
<1>7. CallInv(n, height)
    <2>1. Staged(n, height)
        BY <1>1, <1>6, BusElements DEF CallIs, Staged, NoBlock, NoResponse
    <2>2. Called(n) /\ Submission(n)
        BY <1>6 DEF CallIs, Called, Submission, NoResponse
    <2>3. OfBlock(n)
        BY <1>6 DEF CallIs, OfBlock
    <2>4. FloorReached(n, height)
        BY <1>4, <1>6 DEF CallIs, FloorReached
    <2> QED BY <1>6, <2>1, <2>2, <2>3, <2>4 DEF CallInv, CallIs
<1>8. Guarded(n)
    <2> SUFFICES ASSUME r.method = "chain_get_block"
                 PROVE  /\ \A i \in 1 .. Len(bus) : bus[i] >= f
                        /\ fetching # NoBlock => fetching >= f
                        /\ cache # NoBlock => cache >= f
        BY <1>6 DEF CallIs, Guarded
    <2>1. CASE f = NoBlock
        BY <2>1, BusElements DEF NoBlock
    <2>2. CASE Quiet /\ f = announced
        <3>1. bus = << >> /\ fetching = NoBlock
            BY <2>2 DEF Quiet
        <3>2. Len(bus) = 0
            BY <3>1
        <3>3. cache = NoBlock \/ cache >= announced
            BY <3>1 DEF RpcInv, AnnouncementKept
        <3> QED BY <2>2, <3>1, <3>2, <3>3
    <2> QED BY <1>4, <2>1, <2>2
<1>9. calls' = [calls EXCEPT ![c] = n] /\ UNCHANGED <<height, cacheVars>>
    BY <1>2, <1>5 DEF Send
<1> QED BY <1>7, <1>8, <1>9, OneCall

LEMMA CloseKeeps ==
    ASSUME RpcInv, NEW c \in Clients, Close(c)
    PROVE  RpcInv'
<1>1. CallInv(Idle, height)
    BY BusElements, IdleInv
<1>2. Guarded(Idle)
    BY IdleCall DEF Guarded, CallIs
<1> QED BY <1>1, <1>2, OneCall DEF Close

\* A request that has not been looked at.
LEMMA ReceivedParts ==
    ASSUME RpcInv, NEW c \in Clients, calls[c].stage = "received"
    PROVE  /\ Sound(calls[c], height) /\ calls[c].request \in HttpRequests /\ calls[c].request.id \in Kinds
           /\ calls[c].request.at \in ClientIds
           /\ calls[c].response = NoResponse /\ calls[c].header = NoBlock /\ calls[c].parts = {} /\ ~calls[c].asked
           /\ FloorReached(calls[c], height)
<1>1. CallInv(calls[c], height)
    BY DEF RpcInv, CallsInv
<1>2. calls[c].request \in HttpRequests
    BY <1>1 DEF CallInv, Staged
<1> QED BY <1>1, <1>2, RequestParts DEF CallInv, Staged, Sound

LEMMA Refusal ==
    ASSUME NEW k, NEW r \in Responses, r.status # 0, r.outcome \in Refused,
           r.status = 200 =>
              \/ r.id = k.request.id
              \/ r.id = "null" /\ (~k.request.object \/ k.request.id \notin {"text", "integer", "null"})
    PROVE  ReplyFits(k, r)
<1>1. r.outcome \notin {"success", "InvalidTransaction", "InvalidDeploy"}
    BY DEF Refused
<1> QED BY <1>1 DEF ReplyFits

LEMMA RefuseTooManyKeeps ==
    ASSUME RpcInv, NEW c \in Clients, RefuseTooMany(c)
    PROVE  RpcInv'
<1>1. PICK r : r = [status |-> TooManyRequests, id |-> Absent, outcome |-> "TooManyRequests"]
    OBVIOUS
<1>2. r \in Responses /\ r.status = 429 /\ r.outcome \in Refused
    <2>1. Absent \in Kinds /\ "TooManyRequests" \in Refused
        BY DEF Kinds, Refused
    <2> QED BY <1>1, <2>1 DEF Responses, TooManyRequests
<1>3. ReplyFits(calls[c], r)
    BY <1>2, Refusal
<1>4. calls' = [calls EXCEPT ![c] = Respond(calls[c], r)] /\ UNCHANGED <<height, cacheVars>>
    BY <1>1 DEF RefuseTooMany
<1>5. Sound(calls[c], height)
    BY ReceivedParts DEF RefuseTooMany
<1> QED BY <1>3, <1>4, <1>5, OneReply

LEMMA RejectKeeps ==
    ASSUME RpcInv, NEW c \in Clients, Reject(c)
    PROVE  RpcInv'
<1>1. PICK r : r = Framed(c)
    OBVIOUS
<1>2. Sound(calls[c], height) /\ calls[c].request \in HttpRequests
    BY ReceivedParts DEF Reject
<1>3. r.outcome # "accepted" /\ r = Route(calls[c].request, AllowUnknownFields)
    BY <1>1 DEF Reject, IsAccepted, Framed
<1>4. ReplyFits(calls[c], r)
    BY <1>2, <1>3, Routed, Refusal
<1>5. calls' = [calls EXCEPT ![c] = Respond(calls[c], r)] /\ UNCHANGED <<height, cacheVars>>
    BY <1>1 DEF Reject
<1> QED BY <1>2, <1>4, <1>5, OneReply

\* An error that handle_request replies with.
LEMMA HandlerRefuses ==
    ASSUME RpcInv, NEW c \in Clients, calls[c].stage = "received", IsAccepted(c), NEW e \in Codes \cup Refused,
           calls[c].request.method \in PutMethods => e \notin {"InvalidTransaction", "InvalidDeploy"},
           calls' = [calls EXCEPT ![c] = Respond(calls[c], NewFailure(Framed(c).id, e))],
           UNCHANGED <<height, cacheVars>>
    PROVE  RpcInv'
<1>1. Sound(calls[c], height) /\ calls[c].request \in HttpRequests /\ calls[c].request.id \in Kinds
    BY ReceivedParts
<1>2. Framed(c).id = calls[c].request.id
    BY <1>1, Routed DEF IsAccepted, Framed
<1>3. PICK r : r = NewFailure(calls[c].request.id, e)
    OBVIOUS
<1>4. r \in Responses /\ r.status = 200 /\ r.id = calls[c].request.id /\ r.outcome = e
    BY <1>1, <1>3, Replies
<1>5. e # "success"
    BY DEF Codes, Refused
<1>6. ReplyFits(calls[c], r)
    BY <1>4, <1>5 DEF ReplyFits
<1> QED BY <1>1, <1>2, <1>3, <1>6, OneReply

LEMMA MethodNotFoundKeeps ==
    ASSUME RpcInv, NEW c \in Clients, MethodNotFound(c) \/ Throttle(c)
    PROVE  RpcInv'
<1>1. "MethodNotFound" \in Refused /\ "RequestThrottled" \in Refused
    BY DEF Refused
<1>2. CASE MethodNotFound(c)
    BY <1>1, <1>2, HandlerRefuses DEF MethodNotFound
<1>3. CASE Throttle(c)
    BY <1>1, <1>3, HandlerRefuses DEF Throttle
<1> QED BY <1>2, <1>3

LEMMA HandlerParts ==
    ASSUME NEW server, NEW method \in DOMAIN HandlersOf(server)
    PROVE  /\ method \in Methods
           /\ HandlersOf(server)[method].malformed \in {"", "InvalidPurseURef", "InvalidDictionaryKey"}
<1>1. CASE server = "speculative"
    <2>1. HandlersOf(server) = SpeculativeHandlers
        BY <1>1 DEF HandlersOf
    <2>2. method \in DOMAIN SpeculativeHandlers /\ SpeculativeHandlers[method].malformed = ""
        BY <2>1 DEF SpeculativeHandlers, Method
    <2> QED BY <2>1, <2>2 DEF Methods
<1>2. CASE server # "speculative"
    <2>1. HandlersOf(server) = Handlers
        BY <1>2 DEF HandlersOf
    <2>2. method \in WithNoIds \cup WithoutParams \cup WithOptionalParams \cup WithBlock \cup WithEra \cup WithState \cup WithRoot
        BY <2>1 DEF Handlers
    <2>3. Handlers[method] = CASE method \in WithNoIds -> Method("with", NoIds, "")
             [] method \in WithoutParams -> Method("without", NoIds, "")
             [] method \in WithOptionalParams -> Method("optional", MaybeBlock, "")
             [] method \in WithBlock -> Method("with", MaybeBlock, "")
             [] method \in WithEra -> Method("with", MaybeEra, "")
             [] method \in WithState -> Method("with", MaybeState, "")
             [] method = "state_get_item" -> Method("with", {"root"}, "")
             [] method = "state_get_balance" -> Method("with", {"root"}, "InvalidPurseURef")
             [] method = "state_get_dictionary_item" -> Method("with", {"root"}, "InvalidDictionaryKey")
        BY <2>2 DEF Handlers
    <2>4. PICK params, ids, malformed : /\ malformed \in {"", "InvalidPurseURef", "InvalidDictionaryKey"}
                                        /\ Handlers[method] = Method(params, ids, malformed)
        BY <2>2, <2>3 DEF WithRoot
    <2>5. Method(params, ids, malformed).malformed = malformed
        BY DEF Method
    <2>6. Handlers[method].malformed \in {"", "InvalidPurseURef", "InvalidDictionaryKey"}
        BY <2>4, <2>5
    <2> QED BY <2>1, <2>6 DEF Methods
<1> QED BY <1>1, <1>2

LEMMA HandleRequestKeeps ==
    ASSUME RpcInv, NEW c \in Clients, HandleRequest(c)
    PROVE  RpcInv'
<1>1. PICK k : k = calls[c]
    OBVIOUS
<1>2. k.stage = "received" /\ IsAccepted(c) /\ HasHandler(c) /\ UNCHANGED <<height, cacheVars>>
    BY <1>1 DEF HandleRequest
<1>3. /\ Sound(k, height) /\ k.request \in HttpRequests /\ k.request.id \in Kinds /\ k.request.at \in ClientIds
      /\ k.response = NoResponse /\ k.header = NoBlock /\ k.parts = {} /\ ~k.asked /\ FloorReached(k, height)
    BY <1>1, <1>2, ReceivedParts
<1>4. k.request.method \in DOMAIN HandlersOf(k.request.server)
    BY <1>1, <1>2 DEF HasHandler
<1>5. IsCall(k.request)
    BY <1>1, <1>2, <1>3, <1>4, Routed DEF IsCall, IsAccepted, Framed
<1>6. \/ calls' = [calls EXCEPT ![c] = Respond(k, NewFailure(Framed(c).id, "InvalidParams"))]
      \/ calls' = [calls EXCEPT ![c] = Respond(k, NewFailure(Framed(c).id, Code(HandlerOf(c).malformed)))]
      \/ calls' = [calls EXCEPT ![c] = Run(k, Plan(k.request.method, k.request.at))]
    BY <1>1 DEF HandleRequest
<1>7. CASE calls' = [calls EXCEPT ![c] = Respond(k, NewFailure(Framed(c).id, "InvalidParams"))]
    <2>1. "InvalidParams" \in Refused
        BY DEF Refused
    <2> QED BY <1>1, <1>2, <1>7, <2>1, HandlerRefuses
<1>8. CASE calls' = [calls EXCEPT ![c] = Respond(k, NewFailure(Framed(c).id, Code(HandlerOf(c).malformed)))]
    <2>1. HandlerOf(c).malformed \in {"", "InvalidPurseURef", "InvalidDictionaryKey"}
        BY <1>1, <1>4, HandlerParts DEF HandlerOf
    <2>2. /\ Code(HandlerOf(c).malformed) \in Codes
          /\ Code(HandlerOf(c).malformed) \notin {"InvalidTransaction", "InvalidDeploy"}
        BY <2>1, CodeRange
    <2> QED BY <1>1, <1>2, <1>8, <2>2, HandlerRefuses
<1>9. CASE calls' = [calls EXCEPT ![c] = Run(k, Plan(k.request.method, k.request.at))]
    <2>1. PICK q : q = Plan(k.request.method, k.request.at)
        OBVIOUS
    <2>2. Arranged(q, k.request.method, k.request.at)
        BY <1>3, <1>4, <2>1, HandlerParts, PlanArranged
    <2>3. q \in Seq(Steps)
        BY <2>2 DEF Arranged
    <2>4. CASE q = << >>
        <3>1. PICK r : r = NewSuccess(k.request.id)
            OBVIOUS
        <3>2. r \in Responses /\ r.status = 200 /\ r.id = k.request.id
            BY <1>3, <3>1, Replies
        <3>3. k.request.method \notin PutMethods
            <4>1. Len(q) = 0
                BY <2>4
            <4>2. k.request.method \in PutMethods => IsSubmission(q)
                BY <2>1, PutSteps
            <4> QED BY <4>1, <4>2 DEF IsSubmission
        <3>4. ReplyFits(k, r)
            BY <3>2, <3>3 DEF ReplyFits
        <3>5. calls' = [calls EXCEPT ![c] = Respond(k, r)]
            BY <1>9, <2>1, <2>4, <3>1 DEF Run
        <3> QED BY <1>1, <1>2, <1>3, <3>4, <3>5, OneReply
    <2>5. CASE q # << >>
        <3>1. PICK n : n = [k EXCEPT !.stage = "running", !.todo = q]
            OBVIOUS
        <3>2. calls' = [calls EXCEPT ![c] = n]
            BY <1>9, <2>1, <2>5, <3>1 DEF Run
        <3>3. CallIs(n, "running", k.request, q, k.header, k.parts, k.floor, k.asked, k.verdicts, k.response)
            BY <1>3, <2>3, <3>1, PlannedCall DEF Sound
        <3>4. Staged(n, height)
            BY <1>3, <2>5, <3>3 DEF CallIs, Staged, Sound, NoResponse
        <3>5. Called(n)
            BY <1>3, <1>5, <3>3 DEF CallIs, Called, NoResponse
        <3>6. OfBlock(n)
            BY <1>3, <3>3 DEF CallIs, OfBlock, Sound
        <3>7. Underway(n)
            BY <1>3, <2>2, <2>5, <3>3 DEF CallIs, Arranged, Underway, Going
        <3>8. FloorReached(n, height) /\ Submission(n)
            BY <1>3, <2>1, <3>3 DEF CallIs, FloorReached, Submission
        <3>9. CallInv(n, height)
            BY <3>3, <3>4, <3>5, <3>6, <3>7, <3>8 DEF CallInv
        <3>10. Guarded(n)
            BY <1>1, <1>2, <3>3 DEF RpcInv, FloorKept, Guarded, CallIs
        <3> QED BY <1>2, <3>2, <3>9, <3>10, OneCall
    <2> QED BY <2>4, <2>5
<1> QED BY <1>6, <1>7, <1>8, <1>9

\* An answer leaves the request and its floor as they are.
SameCall(n, k) == n.request = k.request /\ n.floor = k.floor

LEMMA AnswerKeepsFloor ==
    ASSUME NEW k \in CallTypes, NEW outcome, NEW at
    PROVE  SameCall(Answered(k, outcome, at), k) /\ SameCall(Found(k, outcome, at), k)
<1>1. ASSUME NEW j \in CallTypes, NEW r
      PROVE  SameCall(Respond(j, r), j)
    BY DEF Respond, SameCall, CallTypes
<1>2. ASSUME NEW j \in CallTypes, NEW q
      PROVE  SameCall([j EXCEPT !.todo = q], j)
    BY DEF SameCall, CallTypes
<1>3. ASSUME NEW j \in CallTypes, NEW q
      PROVE  SameCall(Continue(j, q), j)
    BY <1>1, <1>2 DEF Continue
<1>4. ASSUME NEW o
      PROVE  SameCall(Found(k, o, at), k)
    <2>1. PICK b, p : /\ b = (IF Head(k.todo).ask.what \in {"header", "switch_header"} THEN at ELSE k.header)
                      /\ p = (IF IsPart(Head(k.todo).ask.what) THEN k.parts \cup {at} ELSE k.parts)
        OBVIOUS
    <2>2. PICK j : j = [k EXCEPT !.header = b, !.parts = p]
        OBVIOUS
    <2>3. Found(k, o, at) = Continue(j, After(k, o, at))
        BY <2>1, <2>2 DEF Found, IsPart
    <2>4. ASSUME NEW q
          PROVE  SameCall(Continue(j, q), k)
        BY <2>2 DEF Continue, Respond, SameCall, CallTypes
    <2> QED BY <2>3, <2>4
<1>5. SameCall(Missing(k), k)
    <2>1. ASSUME NEW e
          PROVE  SameCall(Fail(k, e), k)
        BY <1>1 DEF Fail
    <2> QED BY <1>2, <1>3, <2>1 DEF Missing
<1>6. ASSUME NEW e
      PROVE  SameCall(Fail(k, e), k)
    BY <1>1 DEF Fail
<1> QED BY <1>4, <1>5, <1>6 DEF Answered

\* A step of a running call.
LEMMA Answers ==
    ASSUME RpcInv, NEW c \in Clients, calls[c].stage = "running",
           NEW n, CallInv(n, height), SameCall(n, calls[c]),
           calls' = [calls EXCEPT ![c] = n], UNCHANGED <<height, cacheVars>>
    PROVE  RpcInv'
<1>1. Guarded(n)
    BY DEF RpcInv, FloorKept, Guarded, SameCall
<1> QED BY <1>1, OneCall

AskedOf(n, k, h, v) ==
    /\ Live(n, h) /\ Underway(n) /\ Submission(n) /\ n \in CallTypes /\ SameCall(n, k)
    /\ n.todo = k.todo /\ n.header = k.header /\ n.verdicts = v

LEMMA AskedParts ==
    ASSUME NEW h \in Nat, NEW k, CallInv(k, h), k.stage = "running", NEW v \in SUBSET {"accepted", "refused"}
    PROVE  AskedOf([k EXCEPT !.asked = TRUE, !.verdicts = v], k, h, v)
<1>0. PICK n : n = [k EXCEPT !.asked = TRUE, !.verdicts = v]
    OBVIOUS
<1>1. Live(k, h) /\ Underway(k) /\ k \in CallTypes
    BY RunningParts DEF Live, Sound
<1>2. CallIs(n, k.stage, k.request, k.todo, k.header, k.parts, k.floor, TRUE, v, k.response)
    BY <1>0, <1>1, AskedCall
<1>3. Live(n, h)
    <2>1. OfBlock(n)
        BY <1>1, <1>2 DEF CallIs, OfBlock, Live, Sound
    <2> QED BY <1>1, <1>2, <2>1 DEF CallIs, Live, Sound, FloorReached
<1>4. Underway(n) /\ Submission(n)
    BY <1>1, <1>2 DEF CallIs, Underway, Submission, CallInv
<1>5. AskedOf(n, k, h, v)
    BY <1>2, <1>3, <1>4 DEF CallIs, SameCall, AskedOf
<1> QED BY <1>0, <1>5

LEMMA AskNodeKeeps ==
    ASSUME RpcInv, NEW c \in Clients, AskNode(c)
    PROVE  RpcInv'
<1>1. PICK k : k = calls[c]
    OBVIOUS
<1>2. k.stage = "running" /\ UNCHANGED <<height, cacheVars>> /\ CallInv(k, height) /\ height \in Nat
    BY <1>1, BusElements DEF AskNode, RpcInv, CallsInv
<1>3. k.todo \in Seq(Steps) /\ k.todo # << >> /\ Head(k.todo) = k.todo[1]
    BY <1>2, RunningParts
<1>4. PICK what, at : what = k.todo[1].ask.what /\ at = ReadAt(k.todo[1].ask, k.header)
    OBVIOUS
<1>5. PICK outcome, v :
         /\ outcome \in NodeOutcomes(what, at) \cup (IF k.todo[1].bad = "" THEN {} ELSE {"odd"})
         /\ v \in Verdicts(what, outcome)
         /\ calls' = [calls EXCEPT ![c] = Answered([k EXCEPT !.asked = TRUE, !.verdicts = v], outcome, at)]
    <2>1. \E outcome \in NodeOutcomes(Head(calls[c].todo).ask.what, ReadAt(Head(calls[c].todo).ask, calls[c].header))
                          \cup (IF Head(calls[c].todo).bad = "" THEN {} ELSE {"odd"}) :
          \E v \in Verdicts(Head(calls[c].todo).ask.what, outcome) :
             calls' = [calls EXCEPT ![c] = Answered([calls[c] EXCEPT !.asked = TRUE, !.verdicts = v], outcome,
                                                    ReadAt(Head(calls[c].todo).ask, calls[c].header))]
        BY Zenon DEF AskNode
    <2>2. /\ Head(calls[c].todo).ask.what = what /\ ReadAt(Head(calls[c].todo).ask, calls[c].header) = at
          /\ Head(calls[c].todo).bad = k.todo[1].bad
        BY <1>1, <1>3, <1>4
    <2>3. \E outcome \in NodeOutcomes(what, at) \cup (IF k.todo[1].bad = "" THEN {} ELSE {"odd"}) :
          \E v \in Verdicts(what, outcome) :
             calls' = [calls EXCEPT ![c] = Answered([k EXCEPT !.asked = TRUE, !.verdicts = v], outcome, at)]
        BY <1>1, <2>1, <2>2
    <2> QED BY <2>3, Zenon
<1>6. PICK n : n = [k EXCEPT !.asked = TRUE, !.verdicts = v]
    OBVIOUS
<1>7. v \in SUBSET {"accepted", "refused"}
    BY <1>5 DEF Verdicts
<1>8. /\ Live(n, height) /\ Underway(n) /\ Submission(n) /\ n \in CallTypes /\ SameCall(n, k)
      /\ n.todo = k.todo /\ n.header = k.header /\ n.verdicts = v
    <2>1. AskedOf(n, k, height, v)
        BY <1>2, <1>6, <1>7, AskedParts
    <2> QED BY <2>1 DEF AskedOf
<1>9. at \in Nat /\ ReadRight(n, at)
    BY <1>2, <1>3, <1>4, <1>8, ReadAtRight
<1>10. outcome \in {"value", "legacy"} => at \in 1 .. height
    <2>1. outcome \in {"value", "legacy"} => outcome \in NodeOutcomes(what, at)
        BY <1>5
    <2> QED BY <1>2, <1>9, <2>1, NodeValue
<1>11. CallInv(Answered(n, outcome, at), height)
    <2>1. CASE n.request.method \in PutMethods
        <3>1. n.todo = Plan(n.request.method, n.request.at)
            BY <1>8, <2>1 DEF Submission, Live
        <3>2. what = "try_accept_transaction" /\ k.todo[1].bad = ""
            <4>1. IsSubmission(k.todo)
                BY <1>8, <2>1, <3>1, PutSteps
            <4> QED BY <1>4, <4>1 DEF IsSubmission
        <3>3. outcome \in PutOutcomes
            BY <1>2, <1>5, <1>9, <3>2, NodeValue
        <3>4. /\ outcome = "value" => "accepted" \in n.verdicts
              /\ outcome = "InvalidTransaction" => "refused" \in n.verdicts
            BY <1>5, <1>8, <3>2 DEF Verdicts
        <3> QED BY <1>2, <1>3, <1>8, <1>9, <1>10, <2>1, <3>3, <3>4, SubmissionAnswered
    <2>2. CASE n.request.method \notin PutMethods
        BY <1>2, <1>3, <1>8, <1>9, <1>10, <2>2, QuestionAnswered
    <2> QED BY <2>1, <2>2
<1>12. SameCall(Answered(n, outcome, at), k)
    BY <1>8, AnswerKeepsFloor DEF SameCall
<1> QED BY <1>1, <1>2, <1>5, <1>6, <1>11, <1>12, Answers

LEMMA AskFailsKeeps ==
    ASSUME RpcInv, NEW c \in Clients, AskFails(c)
    PROVE  RpcInv'
<1>1. PICK k : k = calls[c]
    OBVIOUS
<1>2. k.stage = "running" /\ UNCHANGED <<height, cacheVars>> /\ CallInv(k, height) /\ height \in Nat
    BY <1>1, BusElements DEF AskFails, RpcInv, CallsInv
<1>3. k.todo \in Seq(Steps) /\ k.todo # << >> /\ Head(k.todo) = k.todo[1]
    BY <1>2, RunningParts
<1>4. PICK error, v :
         /\ error \in ClientErrors /\ v \in Verdicts(k.todo[1].ask.what, error)
         /\ calls' = [calls EXCEPT ![c] = Answered([k EXCEPT !.asked = TRUE, !.verdicts = v], error, NoBlock)]
    BY <1>1, <1>3 DEF AskFails
<1>5. PICK n : n = [k EXCEPT !.asked = TRUE, !.verdicts = v]
    OBVIOUS
<1>6. v \in SUBSET {"accepted", "refused"}
    BY <1>4 DEF Verdicts
<1>7. Live(n, height) /\ Underway(n) /\ Submission(n) /\ n \in CallTypes /\ SameCall(n, k) /\ n.todo = k.todo
    <2>1. AskedOf(n, k, height, v)
        BY <1>2, <1>5, <1>6, AskedParts
    <2> QED BY <2>1 DEF AskedOf
<1>8. error \in PutOutcomes /\ error \notin {"value", "legacy", "InvalidTransaction"}
    BY <1>4 DEF ClientErrors, PutOutcomes
<1>9. CallInv(Answered(n, error, NoBlock), height)
    <2>1. CASE n.request.method \in PutMethods
        BY <1>2, <1>3, <1>7, <1>8, <2>1, SubmissionAnswered
    <2>2. CASE n.request.method \notin PutMethods
        BY <1>2, <1>3, <1>7, <1>8, <2>2, QuestionAnswered
    <2> QED BY <2>1, <2>2
<1>10. SameCall(Answered(n, error, NoBlock), k)
    BY <1>7, AnswerKeepsFloor DEF SameCall
<1> QED BY <1>1, <1>2, <1>4, <1>5, <1>9, <1>10, Answers

LEMMA GetBlockFromCacheKeeps ==
    ASSUME RpcInv, NEW c \in Clients, GetBlockFromCache(c)
    PROVE  RpcInv'
<1>1. PICK k : k = calls[c]
    OBVIOUS
<1>2. /\ k.stage = "running" /\ UNCHANGED <<height, cacheVars>> /\ CallInv(k, height) /\ height \in Nat
      /\ cache # NoBlock /\ calls' = [calls EXCEPT ![c] = Found(k, "value", cache)]
    BY <1>1, BusElements DEF GetBlockFromCache, RpcInv, CallsInv
<1>3. /\ Live(k, height) /\ Underway(k) /\ k.todo \in Seq(Steps) /\ k.todo # << >> /\ Head(k.todo) = k.todo[1]
      /\ 1 \in 1 .. Len(k.todo) /\ k \in CallTypes
    BY <1>2, RunningParts DEF Live, Sound
<1>4. k.todo[1].ask = ReadBlockWithSignatures(Latest)
    BY <1>1, <1>3 DEF GetBlockFromCache
<1>5. k.todo[1].ask.what = "block_with_signatures" /\ k.todo[1].ask.at = Latest
    BY <1>4 DEF ReadBlockWithSignatures, Question
<1>6. k.request.method = "chain_get_block"
    <2> DEFINE method == k.request.method
               id == k.request.at
    <2>1. ~IsPinning(k.todo, method, id)
        BY <1>5 DEF IsPinning, PinningStep, ReadLatestSwitchBlockHeader, ReadBlockHeader, Question
    <2>2. ~IsPinned(k.todo, method, id) /\ ~IsEntity(k.todo, method, id)
        BY <1>3, <1>5 DEF IsPinned, PinnedStep, IsEntity, EntityStep, BlockQuestions
    <2>3. k.todo # << RangeStep >>
        BY <1>5, RangeOnly
    <2>4. IsSingle(k.todo, method, id)
        BY <1>3, <2>1, <2>2, <2>3 DEF Underway, Going
    <2> QED BY <1>4, <2>4 DEF IsSingle, SingleStep
<1>7. cache >= k.floor /\ cache \in 1 .. height
    BY <1>1, <1>2, <1>6, BusElements DEF RpcInv, FloorKept, Guarded, ChainTypes, NoBlock
<1>8. ReadRight(k, cache)
    BY <1>5, <1>7, IdsDiffer DEF ReadRight
<1>9. k.request.method \notin PutMethods
    BY <1>6 DEF PutMethods
<1>10. CallInv(Found(k, "value", cache), height)
    BY <1>2, <1>3, <1>5, <1>7, <1>8, <1>9, FoundKeeps
<1>11. SameCall(Found(k, "value", cache), k)
    BY <1>3, AnswerKeepsFloor
<1> QED BY <1>1, <1>2, <1>10, <1>11, Answers
-----------------------------------------------------------------------------
\* Every step keeps the invariant.
LEMMA NextInv == RpcInv /\ [Next]_vars => RpcInv'
<1> SUFFICES ASSUME RpcInv, [Next]_vars PROVE RpcInv'
    OBVIOUS
<1>1. CASE UNCHANGED vars
    <2>1. /\ height' = height /\ cache' = cache /\ fetching' = fetching /\ bus' = bus /\ lagged' = lagged
          /\ announced' = announced /\ calls' = calls
        BY <1>1 DEF vars, cacheVars
    <2>2. ChainTypes' /\ AnnouncementKept' /\ FloorKept'
        BY <2>1 DEF RpcInv, ChainTypes, AnnouncementKept, FloorKept, Guarded
    <2> QED BY <2>1, <2>2, CallsStay DEF RpcInv
<1>2. CASE Grow
    BY <1>2, GrowKeeps
<1>3. ASSUME NEW h \in 1 .. MaxHeight, Announce(h) PROVE RpcInv'
    BY <1>3, AnnounceKeeps
<1>4. CASE Loop
    BY <1>4, RecvBlockAddedKeeps, RecvLaggedKeeps, FetchBlockKeeps DEF Loop
<1>5. ASSUME NEW c \in Clients, NEW r \in Requests, Send(c, r) PROVE RpcInv'
    BY <1>5, SendKeeps
<1>6. ASSUME NEW c \in Clients, Close(c) PROVE RpcInv'
    BY <1>6, CloseKeeps
<1>7. ASSUME NEW c \in Clients, RefuseTooMany(c) PROVE RpcInv'
    BY <1>7, RefuseTooManyKeeps
<1>8. ASSUME NEW c \in Clients, Dispatch(c) PROVE RpcInv'
    BY <1>8, RejectKeeps, MethodNotFoundKeeps, HandleRequestKeeps DEF Dispatch
<1>9. ASSUME NEW c \in Clients, Ask(c) PROVE RpcInv'
    BY <1>9, AskNodeKeeps, AskFailsKeeps, GetBlockFromCacheKeeps DEF Ask
<1> QED BY <1>1, <1>2, <1>3, <1>4, <1>5, <1>6, <1>7, <1>8, <1>9 DEF Next

LEMMA Invariance == Spec => []RpcInv
BY InitInv, NextInv, PTL DEF Spec

\* Every variable has its type, the cached block is one that the node has, the channel
\* keeps its capacity, and a request has a reply exactly when it is done.
THEOREM TypeCorrect == Spec => []TypeOK
<1>1. RpcInv => TypeOK
    BY CallsAreTyped DEF RpcInv
<1> QED BY <1>1, Invariance, PTL

\* The parts of a result are of the block that the request named, or else of the one
\* whose header was read, for every plan of questions and however the chain grows
\* between them.
THEOREM OneBlockPerResult == Spec => []OneBlock
<1>1. RpcInv => OneBlock
    <2> SUFFICES ASSUME RpcInv, NEW c \in Clients, Succeeded(c)
                 PROVE  /\ calls[c].request.at.by # "none" => calls[c].parts \subseteq {calls[c].request.at.height}
                        /\ calls[c].request.method # "state_get_entity" => Cardinality(calls[c].parts) <= 1
        BY DEF OneBlock
    <2>1. CallInv(calls[c], height) /\ calls[c].stage = "done"
        BY DEF RpcInv, CallsInv, Succeeded
    <2>2. OfBlock(calls[c]) /\ calls[c].request \in HttpRequests
        BY <2>1 DEF CallInv, Staged
    <2>3. calls[c].request.at.by # "none" => calls[c].request.at # Latest
        BY DEF Latest
    <2>4. ASSUME NEW S, \A a, b \in S : a = b
          PROVE  Cardinality(S) <= 1
        <3>1. CASE S = {}
            BY <3>1, FS_EmptySet
        <3>2. CASE S # {}
            <4>1. PICK a \in S : TRUE
                BY <3>2
            <4>2. S = {a}
                BY <2>4, <4>1
            <4> QED BY <4>2, FS_Singleton
        <3> QED BY <3>1, <3>2
    <2> QED BY <2>2, <2>3, <2>4 DEF OfBlock
<1> QED BY <1>1, Invariance, PTL

\* A result for the latest block is not behind the chain that the node had when the
\* request came; one from the cache is not behind the last announcement that had been
\* dealt with by then, nor behind one that came since.
THEOREM NeverBehind == Spec => []NotBehind
<1>1. RpcInv => NotBehind
    <2> SUFFICES ASSUME RpcInv, NEW c \in Clients, Succeeded(c), calls[c].request.at.by = "none",
                        NEW b \in calls[c].parts
                 PROVE  b >= calls[c].floor
        BY DEF NotBehind
    <2>1. CallInv(calls[c], height) /\ calls[c].stage = "done"
        BY DEF RpcInv, CallsInv, Succeeded
    <2>2. OfBlock(calls[c]) /\ calls[c].request \in HttpRequests
        BY <2>1 DEF CallInv, Staged
    <2>3. calls[c].request.at = Latest
        BY <2>2, RequestParts, IdsDiffer
    <2> QED BY <2>2, <2>3 DEF OfBlock
<1> QED BY <1>1, Invariance, PTL

\* A client that submits a transaction learns that it was accepted only if the node
\* accepted it, and that it is invalid only if the node refused it.
THEOREM SubmissionsAreTruthful == Spec => []SubmitTruthful
<1>1. RpcInv => SubmitTruthful
    <2> SUFFICES ASSUME RpcInv, NEW c \in Clients, calls[c].stage = "done",
                        calls[c].request.method \in {"account_put_deploy", "account_put_transaction"}
                 PROVE  /\ Succeeded(c) => "accepted" \in calls[c].verdicts
                        /\ calls[c].response.outcome \in {"InvalidTransaction", "InvalidDeploy"}
                              => "refused" \in calls[c].verdicts
        BY DEF SubmitTruthful
    <2>1. Submission(calls[c])
        BY DEF RpcInv, CallsInv, CallInv
    <2> QED BY <2>1 DEF Submission, PutMethods, Succeeded
<1> QED BY <1>1, Invariance, PTL

\* Only a well-formed call of a registered method reaches the node, and every JSON-RPC
\* reply carries the id of its request, or null where there is none to be had.
THEOREM OnlyCallsReachTheNode == Spec => []OnlyCallsRun
<1>1. RpcInv => OnlyCallsRun
    <2> SUFFICES ASSUME RpcInv, NEW c \in Clients
                 PROVE  Called(calls[c])
        BY DEF OnlyCallsRun, Called
    <2> QED BY DEF RpcInv, CallsInv, CallInv
<1> QED BY <1>1, Invariance, PTL

-----------------------------------------------------------------------------
\* How many questions a method asks.

\* The questions that a method may still ask: the available range is the last one, and
\* comes in place of the others.
TodoRank(q) == IF q = << RangeStep >> THEN 1 ELSE Len(q) + 1

\* Every answer, of the node, of the node client or of the cache, gives the client its
\* reply or leaves the method fewer questions to ask; nothing else changes what is left
\* to ask.  RequestsAnswered rests on it.
AnswersBringOn ==
    [][\A c \in Clients : calls[c].stage = "running" =>
          \/ calls'[c].stage = "done"
          \/ calls'[c].stage = "running" /\ TodoRank(calls'[c].todo) < TodoRank(calls[c].todo)
          \/ calls'[c].stage = "running" /\ calls'[c].todo = calls[c].todo /\ ~Ask(c)]_vars

\* What an update leaves of a call.
LEMMA RespondStage ==
    ASSUME NEW k \in CallTypes, NEW r
    PROVE  Respond(k, r).stage = "done"
BY DEF Respond, CallTypes

LEMMA TodoStage ==
    ASSUME NEW k \in CallTypes, NEW q, NEW n, n = [k EXCEPT !.todo = q]
    PROVE  n.stage = k.stage /\ n.todo = q
BY DEF CallTypes

LEMMA FloorStage ==
    ASSUME NEW k \in CallTypes, NEW f, NEW n, n = [k EXCEPT !.floor = f]
    PROVE  n.stage = k.stage /\ n.todo = k.todo
BY DEF CallTypes

\* A shorter list ranks lower, and so does the question for the range.
LEMMA ShorterRanks ==
    ASSUME NEW q \in Seq(Steps), q # << >>
    PROVE  /\ TodoRank(q) \in Nat
           /\ Tail(q) # << >> => TodoRank(Tail(q)) < TodoRank(q)
           /\ Tail(q) # << >> /\ Tail(Tail(q)) # << >> => TodoRank(Tail(Tail(q))) < TodoRank(q)
           /\ q[1].none = "NoBlockFound" => TodoRank(<< RangeStep >>) < TodoRank(q)
<1>1. ASSUME NEW t \in Seq(Steps), t # << >>
      PROVE  /\ TodoRank(t) \in Nat /\ TodoRank(t) >= 1 /\ Tail(t) \in Seq(Steps)
             /\ Tail(t) # << >> => TodoRank(Tail(t)) < TodoRank(t)
    <2>1. PICK u : u = Tail(t)
        OBVIOUS
    <2>2. u \in Seq(Steps) /\ Len(u) \in Nat /\ Len(t) \in Nat /\ Len(t) >= 1 /\ Len(u) = Len(t) - 1
        BY <1>1, <2>1
    <2>3. TodoRank(t) \in Nat /\ TodoRank(t) >= 1
        BY <2>2 DEF TodoRank
    <2>4. ASSUME u # << >> PROVE TodoRank(u) < TodoRank(t)
        <3>1. Len(u) # 0
            BY <2>2, <2>4, EmptySeq
        <3>2. t # << RangeStep >>
            <4>1. t = << RangeStep >> => Len(t) = 1
                BY RangeOnly, Zenon
            <4> QED BY <2>2, <3>1, <4>1
        <3>3. TodoRank(t) = Len(t) + 1
            BY <3>2 DEF TodoRank
        <3>4. TodoRank(u) = 1 \/ TodoRank(u) = Len(u) + 1
            BY DEF TodoRank
        <3> QED BY <2>2, <3>1, <3>3, <3>4
    <2> QED BY <2>1, <2>2, <2>3, <2>4
<1>2. /\ TodoRank(q) \in Nat /\ Tail(q) \in Seq(Steps)
      /\ Tail(q) # << >> => TodoRank(Tail(q)) < TodoRank(q)
    BY <1>1
<1>3. ASSUME Tail(q) # << >>, Tail(Tail(q)) # << >> PROVE TodoRank(Tail(Tail(q))) < TodoRank(q)
    <2>1. PICK t : t = Tail(q)
        OBVIOUS
    <2>2. TodoRank(t) \in Nat /\ Tail(t) \in Seq(Steps) /\ TodoRank(Tail(t)) < TodoRank(t)
        BY <1>1, <1>2, <1>3, <2>1
    <2>3. TodoRank(Tail(t)) \in Nat
        BY <1>1, <1>3, <2>1, <2>2
    <2> QED BY <1>2, <1>3, <2>1, <2>2, <2>3
<1>4. ASSUME q[1].none = "NoBlockFound" PROVE TodoRank(<< RangeStep >>) < TodoRank(q)
    <2>1. q # << RangeStep >>
        BY <1>4, RangeOnly
    <2>2. TodoRank(q) = Len(q) + 1 /\ TodoRank(<< RangeStep >>) = 1
        BY <2>1 DEF TodoRank
    <2>3. Len(q) \in Nat /\ Len(q) >= 1
        OBVIOUS
    <2> QED BY <2>2, <2>3
<1> QED BY <1>2, <1>3, <1>4

\* The list that is left after an answer.
Ranked(k, a) ==
    \/ a.stage = "done"
    \/ a.stage = "running" /\ TodoRank(a.todo) < TodoRank(k.todo)

LEMMA ContinueRanks ==
    ASSUME NEW k, NEW m \in CallTypes, m.stage = "running", NEW rest,
           rest # << >> => TodoRank(rest) < TodoRank(k.todo)
    PROVE  Ranked(k, Continue(m, rest))
<1>1. CASE rest = << >>
    <2>1. Continue(m, rest).stage = "done"
        BY <1>1, RespondStage DEF Continue
    <2> QED BY <2>1 DEF Ranked
<1>2. CASE rest # << >>
    <2>1. PICK n : n = [m EXCEPT !.todo = rest]
        OBVIOUS
    <2>2. n = Continue(m, rest) /\ n.stage = "running" /\ n.todo = rest
        BY <1>2, <2>1, TodoStage DEF Continue
    <2>3. Ranked(k, n)
        BY <1>2, <2>2 DEF Ranked
    <2> QED BY <2>2, <2>3
<1> QED BY <1>1, <1>2

\* A step that has an alternative has one to go on with.
LEMMA ElseHasNext ==
    ASSUME NEW k, Underway(k), k.todo \in Seq(Steps), k.todo # << >>, k.todo[1].none = "else"
    PROVE  Tail(k.todo) # << >>
<1> DEFINE q == k.todo
<1>1. Len(q) \in Nat /\ Len(q) >= 1
    OBVIOUS
<1>2. ~IsSingle(q, k.request.method, k.request.at) /\ ~IsEntity(q, k.request.method, k.request.at)
    BY <1>1 DEF IsSingle, SingleStep, IsEntity, EntityStep
<1>3. ~IsPinning(q, k.request.method, k.request.at) /\ q # << RangeStep >>
    BY RangeOnly DEF IsPinning, PinningStep
<1>4. IsPinned(q, k.request.method, k.request.at)
    BY <1>2, <1>3 DEF Underway, Going
<1> QED BY <1>4, RestPinned

\* Each kind of answer.
LEMMA AnswerRanks ==
    ASSUME NEW k \in CallTypes, k.stage = "running", Underway(k), k.todo \in Seq(Steps), k.todo # << >>,
           NEW outcome, NEW at \in Nat
    PROVE  /\ Ranked(k, Found(k, outcome, at))
           /\ Ranked(k, Answered(k, outcome, at))
<1> DEFINE q == k.todo
<1>1. Head(q) = q[1]
    OBVIOUS
<1>2. /\ Tail(q) # << >> => TodoRank(Tail(q)) < TodoRank(q)
      /\ Tail(q) # << >> /\ Tail(Tail(q)) # << >> => TodoRank(Tail(Tail(q))) < TodoRank(q)
      /\ q[1].none = "NoBlockFound" => TodoRank(<< RangeStep >>) < TodoRank(q)
    BY ShorterRanks
<1>3. ASSUME NEW o PROVE Ranked(k, Found(k, o, at))
    <2>1. PICK rest : rest = After(k, o, at)
        OBVIOUS
    <2>2. rest = << >> \/ rest = Tail(q) \/ (q[1].none = "else" /\ rest = Tail(Tail(q)))
        BY <1>1, <2>1 DEF After
    <2>3. rest # << >> => TodoRank(rest) < TodoRank(q)
        BY <1>2, <2>2, ElseHasNext
    <2>4. PICK what : what = Head(q).ask.what
        OBVIOUS
    <2>5. k.header \in Nat /\ k.parts \subseteq Nat
        BY DEF CallTypes
    <2>6. PICK b \in Nat : b = (IF what \in {"header", "switch_header"} THEN at ELSE k.header)
        BY <2>5
    <2>7. PICK p \in SUBSET Nat : p = (IF IsPart(what) THEN k.parts \cup {at} ELSE k.parts)
        BY <2>5
    <2>8. PICK m : m = [k EXCEPT !.header = b, !.parts = p]
        OBVIOUS
    <2>9. m \in CallTypes /\ m.stage = "running"
        <3>1. CallIs(m, k.stage, k.request, k.todo, b, p, k.floor, k.asked, k.verdicts, k.response)
            BY <2>6, <2>7, <2>8, FoundCall
        <3> QED BY <3>1 DEF CallIs
    <2>10. Found(k, o, at) = Continue(m, rest)
        BY <2>1, <2>4, <2>6, <2>7, <2>8 DEF Found, IsPart
    <2> QED BY <2>3, <2>9, <2>10, ContinueRanks
<1>4. Ranked(k, Missing(k))
    <2>1. CASE q[1].none = "NoBlockFound"
        <3>1. Missing(k) = [k EXCEPT !.todo = << RangeStep >>]
            BY <1>1, <2>1 DEF Missing
        <3>2. Missing(k).stage = "running" /\ Missing(k).todo = << RangeStep >>
            BY <3>1, TodoStage
        <3> QED BY <1>2, <2>1, <3>2 DEF Ranked
    <2>2. CASE q[1].none = "else"
        <3>1. Missing(k) = [k EXCEPT !.todo = Tail(q)]
            BY <1>1, <2>2 DEF Missing
        <3>2. Missing(k).stage = "running" /\ Missing(k).todo = Tail(q)
            BY <3>1, TodoStage
        <3>3. Tail(q) # << >>
            BY <2>2, ElseHasNext
        <3> QED BY <1>2, <3>2, <3>3 DEF Ranked
    <2>3. CASE q[1].none = "null"
        <3>1. Missing(k) = Continue(k, Tail(q))
            BY <1>1, <2>3 DEF Missing
        <3> QED BY <1>2, <3>1, ContinueRanks
    <2>4. CASE q[1].none \notin {"NoBlockFound", "else", "null"}
        <3>1. Missing(k) = Fail(k, q[1].none)
            BY <1>1, <2>4 DEF Missing
        <3> QED BY <3>1, RespondStage DEF Fail, Ranked
    <2> QED BY <2>1, <2>2, <2>3, <2>4
<1>5. \A error : Ranked(k, Fail(k, error))
    BY RespondStage DEF Fail, Ranked
<1>6. PICK parsed : parsed = (IF q[1].ask.what = "try_accept_transaction" THEN AcceptanceOf(outcome)
                              ELSE ParseResponse(outcome))
    OBVIOUS
<1>7. PICK a : a = Answered(k, outcome, at)
    OBVIOUS
<1>8. (\E error : a = Fail(k, error)) \/ a = Missing(k) \/ a = Found(k, parsed, at)
    BY <1>6, <1>7, AnswerForms
<1> QED BY <1>3, <1>4, <1>5, <1>7, <1>8

\* The answer to the question that was counted as asked.
LEMMA AskedRanks ==
    ASSUME NEW h \in Nat, NEW k, CallInv(k, h), k.stage = "running",
           NEW v \in SUBSET {"accepted", "refused"}, NEW outcome, NEW at \in Nat
    PROVE  Ranked(k, Answered([k EXCEPT !.asked = TRUE, !.verdicts = v], outcome, at))
<1>1. PICK n : n = [k EXCEPT !.asked = TRUE, !.verdicts = v]
    OBVIOUS
<1>2. Live(n, h) /\ Underway(n) /\ n \in CallTypes /\ n.todo = k.todo
    <2>1. AskedOf(n, k, h, v)
        BY <1>1, AskedParts
    <2> QED BY <2>1 DEF AskedOf
<1>3. k.todo \in Seq(Steps) /\ k.todo # << >> /\ n.stage = "running"
    BY <1>2, RunningParts DEF Live
<1>4. Ranked(n, Answered(n, outcome, at))
    BY <1>2, <1>3, AnswerRanks
<1>5. Ranked(k, Answered(n, outcome, at))
    BY <1>2, <1>4 DEF Ranked
<1> QED BY <1>1, <1>5

\* The block that a question is read at is a number, whatever the node has.
LEMMA ReadAtNumber ==
    ASSUME RpcInv, NEW c \in Clients, calls[c].stage = "running"
    PROVE  ReadAt(Head(calls[c].todo).ask, calls[c].header) \in Nat
<1>1. PICK k : k = calls[c]
    OBVIOUS
<1>2. CallInv(k, height) /\ height \in Nat /\ k.stage = "running"
    BY <1>1, BusElements DEF RpcInv, CallsInv
<1>3. Live(k, height) /\ Underway(k) /\ k.todo \in Seq(Steps) /\ k.todo # << >> /\ Head(k.todo) = k.todo[1]
    BY <1>2, RunningParts
<1>4. ReadAt(k.todo[1].ask, k.header) \in Nat
    BY <1>2, <1>3, ReadAtRight
<1> QED BY <1>1, <1>3, <1>4

\* A method that gets an answer gets on.
LEMMA AskRanks ==
    ASSUME RpcInv, NEW c \in Clients, calls[c].stage = "running", Ask(c)
    PROVE  Ranked(calls[c], calls'[c])
<1>1. PICK k : k = calls[c]
    OBVIOUS
<1>2. CallInv(k, height) /\ height \in Nat /\ cache \in Nat /\ k.stage = "running"
    BY <1>1, BusElements DEF RpcInv, CallsInv
<1>3. ASSUME NEW a, calls' = [calls EXCEPT ![c] = a] PROVE calls'[c] = a
    BY <1>3 DEF RpcInv, CallsInv
<1>4. ASSUME NEW v, NEW outcome, NEW at \in Nat, v \in Verdicts(Head(k.todo).ask.what, outcome),
             calls' = [calls EXCEPT ![c] = Answered([k EXCEPT !.asked = TRUE, !.verdicts = v], outcome, at)]
      PROVE  Ranked(k, calls'[c])
    <2>1. v \in SUBSET {"accepted", "refused"}
        BY <1>4 DEF Verdicts
    <2>2. Ranked(k, Answered([k EXCEPT !.asked = TRUE, !.verdicts = v], outcome, at))
        BY <1>2, <1>4, <2>1, AskedRanks
    <2> QED BY <1>3, <1>4, <2>2
<1>5. CASE AskNode(c)
    <2>1. PICK at \in Nat : at = ReadAt(Head(calls[c].todo).ask, calls[c].header)
        BY ReadAtNumber
    <2>2. \E outcome \in NodeOutcomes(Head(calls[c].todo).ask.what, ReadAt(Head(calls[c].todo).ask, calls[c].header))
                          \cup (IF Head(calls[c].todo).bad = "" THEN {} ELSE {"odd"}) :
          \E v \in Verdicts(Head(calls[c].todo).ask.what, outcome) :
             calls' = [calls EXCEPT ![c] = Answered([calls[c] EXCEPT !.asked = TRUE, !.verdicts = v], outcome,
                                                    ReadAt(Head(calls[c].todo).ask, calls[c].header))]
        BY <1>5, Zenon DEF AskNode
    <2>3. \E outcome : \E v \in Verdicts(Head(k.todo).ask.what, outcome) :
             calls' = [calls EXCEPT ![c] = Answered([k EXCEPT !.asked = TRUE, !.verdicts = v], outcome, at)]
        BY <1>1, <2>1, <2>2
    <2> QED BY <1>1, <1>4, <2>3
<1>6. CASE AskFails(c)
    <2>1. \E error : \E v \in Verdicts(Head(k.todo).ask.what, error) :
             calls' = [calls EXCEPT ![c] = Answered([k EXCEPT !.asked = TRUE, !.verdicts = v], error, NoBlock)]
        BY <1>1, <1>6 DEF AskFails
    <2>2. NoBlock \in Nat
        BY DEF NoBlock
    <2> QED BY <1>1, <1>4, <2>1, <2>2
<1>7. CASE GetBlockFromCache(c)
    <2>1. calls'[c] = Found(k, "value", cache)
        BY <1>1, <1>3, <1>7 DEF GetBlockFromCache
    <2>2. Underway(k) /\ k.todo \in Seq(Steps) /\ k.todo # << >> /\ k \in CallTypes
        BY <1>2, RunningParts DEF Live, Sound
    <2>3. Ranked(k, Found(k, "value", cache))
        BY <1>2, <2>2, AnswerRanks
    <2> QED BY <1>1, <2>1, <2>3
<1> QED BY <1>5, <1>6, <1>7 DEF Ask

\* What is not an answer to a running method leaves it as it is.
LEMMA OthersLeave ==
    ASSUME RpcInv, NEW c \in Clients, calls[c].stage = "running", Next, ~Ask(c)
    PROVE  calls'[c].stage = "running" /\ calls'[c].todo = calls[c].todo
<1>1. calls \in [Clients -> CallTypes] /\ calls[c] \in CallTypes
    BY DEF RpcInv, CallsInv
<1>2. CASE Grow
    BY <1>2 DEF Grow
<1>3. ASSUME NEW h \in 1 .. MaxHeight, Announce(h)
      PROVE  calls'[c].stage = "running" /\ calls'[c].todo = calls[c].todo
    <2>1. PICK k \in CallTypes : k = calls[c]
        BY <1>1
    <2>2. calls'[c] = LowerFloor(k, h)
        BY <1>3, <2>1 DEF Announce
    <2>3. PICK n : n = [k EXCEPT !.floor = h]
        OBVIOUS
    <2>4. n.stage = k.stage /\ n.todo = k.todo
        BY <2>3, FloorStage
    <2>5. calls'[c] = k \/ calls'[c] = n
        BY <2>2, <2>3 DEF LowerFloor
    <2> QED BY <2>1, <2>4, <2>5
<1>4. CASE Loop
    BY <1>4 DEF Loop, RecvBlockAdded, RecvLagged, FetchBlock
<1>5. ASSUME NEW d \in Clients, NEW a, calls' = [calls EXCEPT ![d] = a], d # c
      PROVE  calls'[c] = calls[c]
    BY <1>1, <1>5
<1>6. ASSUME NEW d \in Clients, NEW r \in Requests, Send(d, r) PROVE calls'[c] = calls[c]
    BY <1>5, <1>6 DEF Send
<1>7. ASSUME NEW d \in Clients, Close(d) PROVE calls'[c] = calls[c]
    BY <1>5, <1>7 DEF Close
<1>8. ASSUME NEW d \in Clients, RefuseTooMany(d) PROVE calls'[c] = calls[c]
    BY <1>5, <1>8 DEF RefuseTooMany
<1>9. ASSUME NEW d \in Clients, Dispatch(d) PROVE calls'[c] = calls[c]
    <2>1. d # c
        BY <1>9 DEF Dispatch, Reject, MethodNotFound, Throttle, HandleRequest
    <2>2. \E a : calls' = [calls EXCEPT ![d] = a]
        BY <1>9, Zenon DEF Dispatch, Reject, MethodNotFound, Throttle, HandleRequest
    <2> QED BY <1>5, <2>1, <2>2
<1>10. ASSUME NEW d \in Clients, Ask(d) PROVE calls'[c] = calls[c]
    <2>1. d # c
        BY <1>10
    <2>2. \E a : calls' = [calls EXCEPT ![d] = a]
        BY <1>10, Zenon DEF Ask, AskNode, AskFails, GetBlockFromCache
    <2> QED BY <1>5, <2>1, <2>2
<1> QED BY <1>2, <1>3, <1>4, <1>6, <1>7, <1>8, <1>9, <1>10 DEF Next

\* A method that asks gets on: each answer is its last, or leaves it fewer questions, so
\* that none asks forever, and neither the chain, the cache nor another client sets it back.
THEOREM MethodsGetOn ==
    Spec => AnswersBringOn
<1>1. ASSUME RpcInv, Next, NEW c \in Clients, calls[c].stage = "running"
      PROVE  \/ calls'[c].stage = "done"
             \/ calls'[c].stage = "running" /\ TodoRank(calls'[c].todo) < TodoRank(calls[c].todo)
             \/ calls'[c].stage = "running" /\ calls'[c].todo = calls[c].todo /\ ~Ask(c)
    <2>1. CASE Ask(c)
        BY <1>1, <2>1, AskRanks DEF Ranked
    <2>2. CASE ~Ask(c)
        BY <1>1, <2>2, OthersLeave
    <2> QED BY <2>1, <2>2
<1>2. RpcInv /\ [Next]_vars =>
        [\A c \in Clients : calls[c].stage = "running" =>
            \/ calls'[c].stage = "done"
            \/ calls'[c].stage = "running" /\ TodoRank(calls'[c].todo) < TodoRank(calls[c].todo)
            \/ calls'[c].stage = "running" /\ calls'[c].todo = calls[c].todo /\ ~Ask(c)]_vars
    BY <1>1
<1> QED BY <1>2, Invariance, PTL DEF Spec, AnswersBringOn
=============================================================================
