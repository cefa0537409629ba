------------------------------- MODULE JsonRpc -------------------------------
(***************************************************************************)
(* What the JSON-RPC framework makes of an HTTP request before a handler   *)
(* runs.  A request is the record                                          *)
(*    [path, post, content_type, length,             the HTTP frame        *)
(*     object, jsonrpc, method, params, id, extra,   the body              *)
(*     args]                                         what params mean      *)
(* in which a field of the body says of which kind its value is.           *)
(***************************************************************************)
EXTENDS Integers, Sequences

JSON_RPC_VERSION == "2.0"
Absent == "absent"

(* Rejections of the HTTP level and the status that answers them; warp     *)
(* takes the one it ranks highest, here the filter that refused.           *)
HandleRejection(rejection) ==
    CASE rejection = "MissingId" -> 400
      [] rejection = "BodyTooLarge" -> 413
      [] rejection = "NotFound" -> 404
      [] rejection = "MethodNotAllowed" -> 405
      [] rejection = "InvalidHeader" -> 400
      [] rejection = "MissingHeader" -> 415

(* The status of a request that the global limit refuses *)
TooManyRequests == 429

Rejected(rejection) == [status |-> HandleRejection(rejection), id |-> Absent, outcome |-> rejection]
NewFailure(id, error) == [status |-> 200, id |-> id, outcome |-> error]
NewSuccess(id) == [status |-> 200, id |-> id, outcome |-> "success"]

(* base_filter: the first filter that refuses the request.  A body without *)
(* a length is refused as too large, since or_else hides LengthRequired.   *)
BaseFilter(r) ==
    CASE r.path # "rpc" -> "NotFound"
      [] r.path = "rpc" /\ ~r.post -> "MethodNotAllowed"
      [] r.path = "rpc" /\ r.post /\ r.content_type = Absent -> "MissingHeader"
      [] r.path = "rpc" /\ r.post /\ r.content_type = "other" -> "InvalidHeader"
      [] r.path = "rpc" /\ r.post /\ r.content_type = "json" /\ r.length # "fits" -> "BodyTooLarge"
      [] OTHER -> "passed"

(* Kinds of JSON values: "null", "text", "integer", "fraction", "boolean", *)
(* "array", "object"                                                       *)
IsValidId(id) == id \in {"text", "null", "integer"}

(* The id of an error that is found before the id has been checked *)
EchoedId(id) == IF id = Absent THEN "null" ELSE id

(* Params::try_from: what params become; null stands for the empty array *)
ParamsTryFrom(params) ==
    CASE params = "null" -> "empty"
      [] params \in {"empty", "array", "object"} -> params
      [] OTHER -> "InvalidRequest"

Accepted(r) == [status |-> 0, id |-> r.id, outcome |-> "accepted"]

(* Fault: a request without an id runs as if its id were null *)
NotificationRuns(r, allow_unknown_fields) ==
    IF \/ r.jsonrpc # JSON_RPC_VERSION
       \/ r.method \in {Absent, "not a string"}
       \/ (r.params # Absent /\ ParamsTryFrom(r.params) = "InvalidRequest")
    THEN NewFailure(EchoedId(r.id), "InvalidRequest")
    ELSE Accepted([r EXCEPT !.id = EchoedId(r.id)])

(* Request::new: the checks in their order, and the id of each error.  A   *)
(* missing id is a rejection, found after the checks of the other fields.  *)
NewRequest(r, allow_unknown_fields) ==
    IF \/ r.jsonrpc # JSON_RPC_VERSION
       \/ r.method \in {Absent, "not a string"}
       \/ (r.params # Absent /\ ParamsTryFrom(r.params) = "InvalidRequest")
    THEN NewFailure(EchoedId(r.id), "InvalidRequest")
    ELSE IF r.id = Absent THEN Rejected("MissingId")
    ELSE IF ~IsValidId(r.id) THEN NewFailure("null", "InvalidRequest")
    ELSE IF ~allow_unknown_fields /\ r.extra THEN NewFailure(r.id, "InvalidRequest")
    ELSE Accepted(r)

(* handle_body: a body that is no JSON object has no id *)
HandleBody(r, allow_unknown_fields) ==
    IF r.object THEN NewRequest(r, allow_unknown_fields) ELSE NewFailure("null", "ParseError")

(* route: the filters, the body, and every rejection turned into a reply *)
Route(r, allow_unknown_fields) ==
    IF BaseFilter(r) = "passed" THEN HandleBody(r, allow_unknown_fields) ELSE Rejected(BaseFilter(r))

(* try_parse_params of RpcWithParams.  args says whether the value parses  *)
(* as the method's parameters: "bad" if not, "malformed" if it does and a  *)
(* formatted string in it does not.                                        *)
ParsesWithParams(r) == r.params # Absent /\ r.params \notin {"null", "empty"} /\ r.args # "bad"

(* check_no_params of RpcWithoutParams *)
ParsesWithoutParams(r) == r.params \in {Absent, "null", "empty"}

(* try_parse_params of RpcWithOptionalParams *)
ParsesWithOptionalParams(r) == r.params \in {Absent, "null", "empty"} \/ r.args # "bad"

ParsesAs(r, kind) ==
    CASE kind = "with" -> ParsesWithParams(r)
      [] kind = "without" -> ParsesWithoutParams(r)
      [] kind = "optional" -> ParsesWithOptionalParams(r)
=============================================================================
