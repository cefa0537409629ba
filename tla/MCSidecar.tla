------------------------------ MODULE MCSidecar ------------------------------
(***************************************************************************)
(* A small instance of Sidecar: two releases, the second with one more     *)
(* migration, and configurations that differ in what they enable.          *)
(***************************************************************************)
EXTENDS Sidecar

Everything ==
    [storage |-> TRUE, sqlite |-> "enabled", postgresql |-> "absent", admin |-> TRUE, rest |-> TRUE,
     sse |-> TRUE, disable_event_persistence |-> FALSE, rpc |-> TRUE, speculative |-> TRUE]

\* All the servers with PostgreSQL; both databases; PostgreSQL next to a
\* disabled section of SQLite; events passed through without a database, and
\* stored in one although their persistence is disabled; REST without stored
\* events; the RPC server alone.
MCConfigs ==
    {[Everything EXCEPT !.sqlite = "absent", !.postgresql = "enabled"],
     [Everything EXCEPT !.postgresql = "enabled"],
     [Everything EXCEPT !.sqlite = "disabled", !.postgresql = "enabled"],
     [Everything EXCEPT !.sqlite = "absent", !.rest = FALSE, !.disable_event_persistence = TRUE, !.rpc = FALSE, !.speculative = FALSE],
     [Everything EXCEPT !.rest = FALSE, !.disable_event_persistence = TRUE],
     [Everything EXCEPT !.disable_event_persistence = TRUE],
     [Everything EXCEPT !.storage = FALSE, !.sqlite = "absent", !.rest = FALSE, !.sse = FALSE]}

MCReleases == {{1}, {1, 2}}
MCStored == {Accepted, Processed, Expired}
MCRequests == {[route |-> "transaction", form |-> "hash"], [route |-> "block_at", form |-> "number"],
               [route |-> "status", form |-> "none"], [route |-> "faults", form |-> "other"]}
MCFirstFiles == {NoIndex, IdCount - 1}
=============================================================================
