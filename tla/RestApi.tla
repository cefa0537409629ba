------------------------------- MODULE RestApi -------------------------------
(***************************************************************************)
(* The REST API of the event store: which tables a request reads, in which *)
(* order, and which status its answer has.                                 *)
(*                                                                         *)
(* A request is a route and the form of its parameter: a hash, a public    *)
(* key, a number, something else, or none.  The stored item that it names  *)
(* is abstracted: a table holds it or does not.                            *)
(***************************************************************************)
EXTENDS Naturals, Sequences

Accepted == "TransactionAccepted"
Processed == "TransactionProcessed"
Expired == "TransactionExpired"
Tables == {Accepted, Processed, Expired, "BlockAdded", "FinalitySignature", "Fault", "Step"}

Forms == {"hash", "key", "number", "other", "none"}

\* Fault: the outcome of the transaction is read before its acceptance.
OutcomeFirst == <<Processed, Accepted, Expired>>

\* The aggregate of a transaction is read table by table, without a
\* transaction of the database around the statements.
AggregateReads == <<Accepted, Processed, Expired>>

\* route |-> form |-> the tables that the handler reads.  A route with two
\* forms tries them one after the other; no parameter fits both.
Routes ==
    [block        |-> [none |-> <<"BlockAdded">>],
     block_at     |-> [hash |-> <<"BlockAdded">>, number |-> <<"BlockAdded">>],
     transaction  |-> [hash |-> AggregateReads],
     accepted     |-> [hash |-> <<Accepted>>],
     processed    |-> [hash |-> <<Processed>>],
     expired      |-> [hash |-> <<Expired>>],
     step         |-> [number |-> <<"Step">>],
     faults       |-> [key |-> <<"Fault">>, number |-> <<"Fault">>],
     signatures   |-> [hash |-> <<"FinalitySignature">>]]

\* The routes that read nothing.
Pages == {"status", "api_doc"}

RestRequests == [route : DOMAIN Routes \cup Pages \cup {"root", "unknown"}, form : Forms]

\* Some handler takes the request: its route exists and its parameter has the
\* form that the handler expects.
IsTaken(r) ==
    \/ r.route \in Pages /\ r.form = "none"
    \/ r.route \in DOMAIN Routes /\ r.form \in DOMAIN Routes[r.route]

ReadsOf(r) == IF r.route \in DOMAIN Routes /\ IsTaken(r) THEN Routes[r.route][r.form] ELSE << >>

\* What a statement may return: the row, none, an error of the connection, or
\* a row whose text cannot be parsed.  An empty list of rows is none.
ReadErrors == {"failed", "unreadable"}
Results(table, rows) ==
    IF table \in rows THEN {"found"} \cup ReadErrors ELSE {"missing", "failed"}

\* A request needs the first of its tables: the aggregate returns early when
\* the acceptance is not read.
IsNeeded(reads, table) == Len(reads) = 1 \/ table = Accepted

\* Whether the handler returns after the statement on table.  Any failure to
\* read the outcome of a transaction counts as "not there": the pattern _err
\* that guards the early return matches every error.
IsLast(reads, at, got, result) ==
    \/ IsNeeded(reads, reads[at]) /\ result # "found"
    \/ {Accepted, Processed} \subseteq got
    \/ at = Len(reads)

\* The status of an answer, by the rejections of all the filters in the order
\* of handle_rejection.
OfStorageError == [missing |-> 404, unreadable |-> 500, failed |-> 500]
StatusOf(rejections) ==
    IF rejections = {} THEN 200
    ELSE IF rejections \cap DOMAIN OfStorageError # {}
         THEN OfStorageError[CHOOSE e \in rejections : e \in DOMAIN OfStorageError]
         ELSE 400

\* Every path but the ones that are taken is rejected by root_filter or
\* root_and_invalid_path; a parameter of the wrong form adds InvalidParam.
Rejections(r, result) ==
    IF result = "found" THEN {}
    ELSE {"InvalidPath"} \cup (IF IsTaken(r) THEN {result} ELSE {"InvalidParam"})
=============================================================================
