----------------------------- MODULE MCRpcServer -----------------------------
(* Requests, and the history of the chain, for model checking RpcServer *)
EXTENDS RpcServer, AuctionBids

(* What AuctionState::new does with the bids depends on no state: it is    *)
(* compared with its reference for every list of at most MaxBids bids.     *)
ASSUME AuctionStateChecked == NoBidLost /\ OnlyPursesLost

MCFirstWith == [registry |-> 2, entity_snapshot |-> 2, era_summary |-> 2]

(* Well-formed calls of all methods, with each identifier they may hold *)
Call(server, method, at, params) ==
    [path |-> "rpc", post |-> TRUE, content_type |-> "json", length |-> "fits",
     object |-> TRUE, jsonrpc |-> "2.0", method |-> method, params |-> params,
     id |-> "integer", extra |-> FALSE, server |-> server, at |-> at, args |-> "good"]

Identifiers(kinds) ==
    {i \in {Latest} \cup [by : {"block", "root"}, height : {1, 3}] \cup [by : {"era"}, height : {2}] :
        i.by \in kinds}

Usual(params) == IF params = "without" THEN "absent" ELSE "object"

Calls(server) ==
    UNION {{Call(server, m, at, IF HandlersOf(server)[m].params = "optional" /\ at = Latest
                                THEN "absent" ELSE Usual(HandlersOf(server)[m].params)) :
              at \in Identifiers(HandlersOf(server)[m].ids)} : m \in DOMAIN HandlersOf(server)}

(* Flawed ones: a submission in which one or two things are wrong *)
Submission == Call("main", "account_put_transaction", Latest, "object")

Flawed ==
    {[Submission EXCEPT !.path = "other"], [Submission EXCEPT !.post = FALSE],
     [Submission EXCEPT !.content_type = "absent"], [Submission EXCEPT !.content_type = "other"],
     [Submission EXCEPT !.length = "large"], [Submission EXCEPT !.object = FALSE],
     [Submission EXCEPT !.jsonrpc = "1.0"], [Submission EXCEPT !.method = "not a string"],
     [Submission EXCEPT !.method = "unknown"], [Submission EXCEPT !.params = "absent"],
     [Submission EXCEPT !.params = "null"], [Submission EXCEPT !.params = "integer"],
     [Submission EXCEPT !.args = "bad"], [Submission EXCEPT !.id = "absent"],
     [Submission EXCEPT !.id = "null"], [Submission EXCEPT !.id = "fraction"],
     [Submission EXCEPT !.id = "absent", !.jsonrpc = "1.0"], [Submission EXCEPT !.extra = TRUE],
     [Call("main", "info_get_peers", Latest, "object") EXCEPT !.args = "bad"],
     [Call("main", "chain_get_block", Latest, "object") EXCEPT !.args = "bad"],
     [Call("main", "state_get_balance", [by |-> "root", height |-> 1], "object") EXCEPT !.args = "malformed"],
     [Call("main", "state_get_dictionary_item", [by |-> "root", height |-> 1], "object")
        EXCEPT !.args = "malformed"]}

MCRequests == Calls("main") \cup Calls("speculative") \cup Flawed
=============================================================================
