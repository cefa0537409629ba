------------------------------- MODULE Sidecar -------------------------------
(***************************************************************************)
(* The life of the sidecar process over several starts: its configuration, *)
(* the preparation of its components one after the other, the migrations   *)
(* of the event store, the REST requests that read the store while events  *)
(* are written, the index of the event ids that is kept in a file, and the *)
(* three ways the process ends: a signal, the end of a component, a crash. *)
(*                                                                         *)
(* The components themselves are EventPipeline and EventStream (sse) and   *)
(* RpcServer (rpc); here they may store an event, take an event id, and    *)
(* end at any time.                                                        *)
(***************************************************************************)
EXTENDS RestApi, FiniteSets, FiniteSetsExt, Integers

CONSTANTS
    Configs,        \* configuration files the process may be started with
    Releases,       \* the migrations of each release, as sets of versions
    Requests,       \* the requests of REST clients
    Stored,         \* the tables that receive rows
    FirstFiles,     \* contents of the index file before the first start
    IdCount,        \* number of event ids, 2^32
    MaxLives,       \* bound: starts of the process
    MaxFaults,      \* bound: errors of the database and of the file system
    MaxPublished    \* bound: event ids taken

Versions == UNION Releases
Ids == 0 .. IdCount - 1
NoIndex == -1       \* no file, or one that does not hold an index

\* A newer release adds migrations above those of the older ones.
ASSUME SidecarAssumption ==
    /\ Versions \subseteq Nat
    /\ \A r, s \in Releases : r \subseteq s \/ s \subseteq r
    /\ \A r, s \in Releases : \A v \in s \ r, w \in r : r \subseteq s => w < v
    /\ Requests \subseteq RestRequests /\ Stored \subseteq Tables
    /\ IdCount \in Nat \ {0} /\ FirstFiles \subseteq Ids \cup {NoIndex}
    /\ MaxPublished \in Nat /\ MaxPublished < IdCount

VARIABLES
    config,      \* the configuration file
    phase,       \* of the process
    lives,       \* how often the process was started
    release,     \* the migrations that the running release knows
    toPrepare,   \* components that are not prepared yet, in order
    prepared,    \* components that will run, or run
    cell,        \* the database of LazyDatabaseWrapper: empty or ready
    step,        \* of Database::build, or "none"
    pending,     \* versions of the migrations to execute
    succeeded,   \* whether the statements of the current migration did
    recorded,    \* rows of table Migration: version |-> is_success
    applied,     \* versions whose statements are committed
    rows,        \* tables of the store that hold the item asked for
    file,        \* the index in the file sse_index
    index,       \* the next event id
    given,       \* history: ids taken since the index was last lost
    request,     \* the REST request that is handled or was answered
    faults

process == <<phase, toPrepare, prepared, cell, step, pending, succeeded, request>>
store == <<recorded, applied, rows>>
ids == <<file, index, given>>
vars == <<config, lives, release, faults, process, store, ids>>
-----------------------------------------------------------------------------
\* The configuration.  A section of a database is absent, disabled or enabled;
\* storage says whether there is a section [storage] at all.

\* The section of sqlite decides when there is one.
IsStorageEnabled(c) ==
    /\ c.storage
    /\ (IF c.sqlite # "absent" THEN c.sqlite ELSE c.postgresql) = "enabled"

IsSseStoringEvents(c) == c.sse /\ ~c.disable_event_persistence

Validate(c) ==
    /\ c.rpc \/ c.sse
    /\ c.sse => c.storage
    /\ IsSseStoringEvents(c) => IsStorageEnabled(c)
    /\ c.rest => IsStorageEnabled(c) /\ IsSseStoringEvents(c)
    /\ ~(IsStorageEnabled(c) /\ c.sqlite = "enabled" /\ c.postgresql = "enabled")

\* Database::build takes sqlite whenever it has a section.
Built(c) == IF c.sqlite # "absent" THEN c.sqlite ELSE c.postgresql

Components == {"admin", "rest", "sse", "rpc"}

\* What prepare_component_task makes of the configuration: whether there is a
\* task at all, and whether it needs the database.
HasTask(c, component) ==
    CASE component = "admin" -> c.admin
      [] component = "rest" -> c.rest /\ IsStorageEnabled(c)
      [] component = "sse" -> c.sse /\ c.storage
      [] component = "rpc" -> c.rpc \/ c.speculative
NeedsDatabase(c, component) ==
    component \in {"rest", "sse"} /\ HasTask(c, component) /\ IsStorageEnabled(c)
-----------------------------------------------------------------------------
Idle == [of |-> [route |-> "root", form |-> "none"], reads |-> << >>, at |-> 0, got |-> {},
         failed |-> FALSE, seen |-> {}, status |-> 200]

Init ==
    /\ config \in Configs
    /\ phase = "off" /\ lives = 0 /\ release = {}
    /\ toPrepare = << >> /\ prepared = {} /\ cell = "empty"
    /\ step = "none" /\ pending = {} /\ succeeded = FALSE
    /\ recorded = [v \in {} |-> TRUE] /\ applied = {} /\ rows = {}
    /\ file \in FirstFiles /\ index = 0 /\ given = {}
    /\ request = Idle
    /\ faults = 0

\* The process is gone, and with it everything but the database and the file.
Gone ==
    /\ phase' = "off" /\ toPrepare' = << >> /\ prepared' = {} /\ cell' = "empty"
    /\ step' = "none" /\ pending' = {} /\ succeeded' = FALSE
    /\ request' = Idle

Fault == faults < MaxFaults /\ faults' = faults + 1

\* main: the configuration is validated before anything runs.
Start ==
    /\ phase = "off" /\ lives < MaxLives
    /\ Validate(config)
    /\ phase' = "preparing"
    /\ lives' = lives + 1
    /\ release' \in Releases
    /\ toPrepare' = <<"admin", "rest", "sse", "rpc">>
    /\ UNCHANGED <<config, faults, prepared, cell, step, pending, succeeded, request, store, ids>>

Preparing(component) == phase = "preparing" /\ toPrepare # << >> /\ component = Head(toPrepare)

\* Preparing the component waits for the database or for the node.
Awaits(component) == HasTask(config, component) /\ (component = "rpc" \/ NeedsDatabase(config, component))

Prepared(component) ==
    /\ toPrepare' = Tail(toPrepare)
    /\ prepared' = IF HasTask(config, component) THEN prepared \cup {component} ELSE prepared
    /\ UNCHANGED <<config, lives, release, faults, phase, cell, step, pending, succeeded, request, store, ids>>

PrepareAtOnce(component) ==
    /\ Preparing(component) /\ ~Awaits(component)
    /\ Prepared(component)

\* The database is ready, or the RPC server has connected to the node.
PrepareAfterWait(component) ==
    /\ Preparing(component) /\ Awaits(component)
    /\ component = "rpc" \/ cell = "ready"
    /\ Prepared(component)

\* The RPC server cannot be built: the node refuses or is of another network.
PrepareFails(component) ==
    /\ Preparing(component) /\ Awaits(component) /\ component = "rpc"
    /\ Gone
    /\ UNCHANGED <<config, lives, release, faults, store, ids>>

\* Fault: only the connection to the node has a time limit.
OnlyRpcTimesOut(component) ==
    /\ Preparing(component) /\ Awaits(component) /\ component = "rpc"
    /\ Gone
    /\ UNCHANGED <<config, lives, release, faults, store, ids>>

\* do_run: a component that is not prepared in time ends the process, whatever
\* the database is doing; an open transaction is rolled back.
StartupTimesOut(component) ==
    /\ Preparing(component) /\ Awaits(component)
    /\ Gone
    /\ UNCHANGED <<config, lives, release, faults, store, ids>>
-----------------------------------------------------------------------------
\* The migrations.

buildVars == <<config, lives, release, phase, toPrepare, prepared, request, ids>>

AcquireDatabase(component) ==
    /\ Preparing(component) /\ NeedsDatabase(config, component)
    /\ cell = "empty" /\ step = "none"
    /\ step' = "initial"
    /\ UNCHANGED <<buildVars, faults, cell, pending, succeeded, store>>

\* The table of the versions is created unless it exists.
RunInitialMigration ==
    /\ step = "initial"
    /\ step' = "newest"
    /\ UNCHANGED <<buildVars, faults, cell, pending, succeeded, store>>

NewestVersion == Max(DOMAIN recorded)

\* Fault: the newest version is used without its outcome.
FailureIgnored == FALSE

LastMigrationFailed == DOMAIN recorded # {} /\ ~recorded[NewestVersion]

ToExecute == {v \in release : DOMAIN recorded # {} => v > NewestVersion}

BuildNext(todo) ==
    /\ pending' = todo
    /\ step' = IF todo = {} THEN "none" ELSE "execute"
    /\ cell' = IF todo = {} THEN "ready" ELSE "empty"

ReadNewestVersion ==
    /\ step = "newest" /\ ~LastMigrationFailed
    /\ BuildNext(ToExecute)
    /\ UNCHANGED <<buildVars, faults, succeeded, store>>

\* "Cannot proceed with migration": this start, and every later one.
RefuseAfterFailure ==
    /\ step = "newest" /\ LastMigrationFailed
    /\ Gone
    /\ UNCHANGED <<config, lives, release, faults, store, ids>>

\* The statements and the script of a migration are one transaction.
ExecuteMigration ==
    /\ step = "execute"
    /\ applied' = applied \cup {Min(pending)}
    /\ succeeded' = TRUE
    /\ step' = "record"
    /\ UNCHANGED <<buildVars, faults, cell, pending, recorded, rows>>

MigrationFails ==
    /\ step = "execute" /\ Fault
    /\ succeeded' = FALSE
    /\ step' = "record"
    /\ UNCHANGED <<buildVars, cell, pending, store>>

Recorded == recorded' = [v \in DOMAIN recorded \cup {Min(pending)} |->
                            IF v = Min(pending) THEN succeeded ELSE recorded[v]]

\* The row with the version is inserted outside that transaction.
StoreVersion ==
    /\ step = "record" /\ succeeded
    /\ Recorded
    /\ BuildNext(pending \ {Min(pending)})
    /\ UNCHANGED <<buildVars, faults, succeeded, applied, rows>>

StoreFailedVersion ==
    /\ step = "record" /\ ~succeeded
    /\ Recorded
    /\ Gone
    /\ UNCHANGED <<config, lives, release, faults, applied, rows, ids>>

\* A statement of the manager fails: connection, begin, commit or insert.
DatabaseFails ==
    /\ step # "none" /\ Fault
    /\ Gone
    /\ UNCHANGED <<config, lives, release, store, ids>>
-----------------------------------------------------------------------------
\* The running process.

\* EventIndexer::new
LoadIndex == IF file = NoIndex THEN 0 ELSE file

\* The tasks of the components run from here on.
Run ==
    /\ phase = "preparing" /\ toPrepare = << >>
    /\ phase' = IF prepared = {} THEN "off" ELSE "running"
    /\ index' = IF "sse" \in prepared THEN LoadIndex ELSE index
    /\ UNCHANGED <<config, lives, release, faults, toPrepare, prepared, cell, step, pending,
                   succeeded, request, store, file, given>>

HasStore == IsStorageEnabled(config)
Serves(component) == phase = "running" /\ component \in prepared

\* An event is saved.  It is saved when there is a database, whatever
\* disable_event_persistence says; a node reports of a transaction that it was
\* processed or that it expired, never both.
SaveEvent(table) ==
    /\ Serves("sse") /\ HasStore /\ table \notin rows
    /\ table = Processed => Expired \notin rows
    /\ table = Expired => Processed \notin rows
    /\ rows' = rows \cup {table}
    /\ request' = IF request.status = 0 THEN [request EXCEPT !.seen = @ \cup {rows'}] ELSE request
    /\ UNCHANGED <<config, lives, release, faults, phase, toPrepare, prepared, cell, step,
                   pending, succeeded, recorded, applied, ids>>

\* Fault: the id is computed without wrapping.
IndexPlusOne(i) == i + 1

NextIndex(i) == (i + 1) % IdCount

\* EventStreamServer::broadcast takes an id for an event.
TakeId ==
    /\ Serves("sse") /\ Cardinality(given) < MaxPublished
    /\ given' = given \cup {index}
    /\ index' = NextIndex(index)
    /\ UNCHANGED <<config, lives, release, faults, process, store, file>>

\* A client asks the REST server; what no handler takes is answered at once.
Ask(r) ==
    /\ Serves("rest") /\ request.status # 0
    /\ LET reads == ReadsOf(r) IN
       request' = [Idle EXCEPT !.of = r, !.reads = reads, !.at = 1, !.seen = {rows},
                               !.status = IF reads # << >> THEN 0
                                          ELSE StatusOf(Rejections(r, IF IsTaken(r) THEN "found" ELSE "missing"))]
    /\ UNCHANGED <<config, lives, release, faults, phase, toPrepare, prepared, cell, step,
                   pending, succeeded, store, ids>>

\* One statement of the handler.
Read(result) ==
    LET table == request.reads[request.at]
        got == IF result = "found" THEN request.got \cup {table} ELSE request.got
        last == IsLast(request.reads, request.at, got, result)
        outcome == IF IsNeeded(request.reads, table) THEN result ELSE "found"
    IN /\ request.status = 0
       /\ result \in Results(table, rows)
       /\ IF result \in ReadErrors THEN Fault ELSE UNCHANGED faults
       /\ request' = [request EXCEPT !.got = got,
                                     !.at = IF last THEN @ ELSE @ + 1,
                                     !.failed = @ \/ result \in ReadErrors,
                                     !.status = IF last THEN StatusOf(Rejections(request.of, outcome)) ELSE 0]
       /\ UNCHANGED <<config, lives, release, phase, toPrepare, prepared, cell, step,
                      pending, succeeded, store, ids>>
-----------------------------------------------------------------------------
\* The ends of the process.

\* run returns, and with the runtime the tasks are dropped.
Return ==
    /\ IF Serves("sse")
       THEN /\ phase' = "stopping"
            /\ request' = Idle
            /\ UNCHANGED <<toPrepare, prepared, cell, step, pending, succeeded>>
       ELSE Gone
    /\ UNCHANGED <<config, lives, release, faults, store, ids>>

\* SIGTERM or SIGINT, also while the components are prepared.
Signal == phase \in {"preparing", "running"} /\ Return

\* select_all: the first component that ends, with or without an error.
ComponentEnds(component) == Serves(component) /\ Return

\* Fault: the index is not written.
DropUnwritten ==
    /\ phase = "stopping"
    /\ Gone
    /\ UNCHANGED <<config, lives, release, faults, store, ids>>

\* Drop of EventIndexer.
DropIndexer ==
    /\ phase = "stopping"
    /\ file' = index
    /\ Gone
    /\ UNCHANGED <<config, lives, release, faults, store, index, given>>

\* The file may be left as it was, or be empty.
WriteFails ==
    /\ phase = "stopping" /\ Fault
    /\ file' \in {file, NoIndex}
    /\ given' = {}
    /\ Gone
    /\ UNCHANGED <<config, lives, release, store, index>>

\* A panic, whose hook aborts the process, or a kill: nothing is dropped.
Crash ==
    /\ phase # "off"
    /\ file' \in IF phase = "stopping" THEN {file, NoIndex} ELSE {file}
    /\ given' = IF phase = "preparing" THEN given ELSE {}
    /\ Gone
    /\ UNCHANGED <<config, lives, release, faults, store, index>>
-----------------------------------------------------------------------------
Next ==
    \/ Start
    \/ \E c \in Components :
          \/ PrepareAtOnce(c) \/ PrepareAfterWait(c) \/ PrepareFails(c)
          \/ StartupTimesOut(c) \/ AcquireDatabase(c) \/ ComponentEnds(c)
    \/ RunInitialMigration \/ ReadNewestVersion \/ RefuseAfterFailure
    \/ ExecuteMigration \/ MigrationFails \/ StoreVersion \/ StoreFailedVersion
    \/ DatabaseFails
    \/ Run
    \/ \E t \in Stored : SaveEvent(t)
    \/ TakeId
    \/ \E r \in Requests : Ask(r)
    \/ \E result \in {"found", "missing"} \cup ReadErrors : Read(result)
    \/ Signal \/ DropIndexer \/ WriteFails \/ Crash

Spec == Init /\ [][Next]_vars

\* Nothing is assumed of the database or of the node: a start ends because of
\* the time limit of each component.
Fairness ==
    /\ WF_vars(Run)
    /\ WF_vars(\E c \in Components : PrepareAtOnce(c))
    /\ WF_vars(\E c \in Components : StartupTimesOut(c))

FairSpec == Spec /\ Fairness
-----------------------------------------------------------------------------
\* Each variable holds what it should; ids stay in their width, a migration is
\* executed only while the store is built, and a process that is not running
\* handles no request.
TypeOK ==
    /\ config \in Configs
    /\ phase \in {"off", "preparing", "running", "stopping"}
    /\ prepared \subseteq Components
    /\ cell \in {"empty", "ready"}
    /\ step \in {"none", "initial", "newest", "execute", "record"}
    /\ step # "none" => phase = "preparing" /\ cell = "empty"
    /\ (pending # {}) <=> step \in {"execute", "record"}
    /\ DOMAIN recorded \subseteq Versions /\ applied \subseteq Versions
    /\ rows \subseteq Tables
    /\ file \in Ids \cup {NoIndex} /\ index \in Ids /\ given \subseteq Ids
    /\ request.status = 0 => Serves("rest")

\* A process that runs does what its configuration asks: exactly the enabled
\* servers run, although validate and each component look at the configuration
\* on their own; the database they use is an enabled one, and every migration
\* of the release is applied to it, however earlier starts ended.
ServersReady ==
    phase = "running" =>
        /\ prepared = {c \in Components : CASE c = "admin" -> config.admin
                                            [] c = "rest" -> config.rest
                                            [] c = "sse" -> config.sse
                                            [] c = "rpc" -> config.rpc \/ config.speculative}
        /\ config.rest \/ (config.sse /\ ~config.disable_event_persistence) => cell = "ready"
        /\ cell = "ready" => Built(config) = "enabled" /\ release \subseteq applied

\* The answer to a question about a transaction, if no statement failed, is what
\* the tables held at one moment while it was handled, although they are read
\* one after the other and events are saved in between.
AggregateIsSnapshot ==
    request.reads = AggregateReads /\ request.status # 0 /\ ~request.failed =>
        \E held \in request.seen :
            IF Accepted \in held
            THEN request.status = 200 /\ request.got = held \cap {Accepted, Processed, Expired}
            ELSE request.status = 404

\* An event id is not taken twice, over all the lives of the process since one
\* of them crashed or could not write its index.
IdsContinue == Serves("sse") => index \notin given

\* A start ends: the process runs or is gone, even when the database or the node
\* never answers.
StartEnds == phase = "preparing" ~> phase \in {"running", "off"}

\* An error of the database is reported: "If the error is anything other than
\* NotFound return the error."
ErrorsReported == request.failed /\ request.status # 0 => request.status = 500
=============================================================================
