---------------------------- MODULE SidecarProofs ----------------------------
(***************************************************************************)
(* What holds of the process over any number of starts, for any releases,  *)
(* configurations and requests: the servers that run are the configured    *)
(* ones on a database with every migration, the aggregate of a transaction *)
(* is a snapshot, and the event ids continue.                              *)
(***************************************************************************)
EXTENDS Sidecar, TLAPS, FiniteSetTheorems, WellFoundedInduction

-----------------------------------------------------------------------------
\* The inductive invariants.

\* The components are prepared in one order.
Remainders ==
    {<<"admin", "rest", "sse", "rpc">>, <<"rest", "sse", "rpc">>, <<"sse", "rpc">>, <<"rpc">>, << >>}

InRemainder(q, c) == \E i \in 1 .. Len(q) : q[i] = c

Asked == [of : RestRequests, reads : {ReadsOf(r) : r \in RestRequests}, at : Nat,
          got : SUBSET Tables, failed : BOOLEAN, seen : SUBSET SUBSET Tables,
          status : {0, 200, 400, 404, 500}]

Types ==
    /\ TypeOK
    /\ toPrepare \in Remainders
    /\ release \in Releases \cup {{}} /\ pending \subseteq release
    /\ succeeded \in BOOLEAN
    /\ recorded \in [DOMAIN recorded -> BOOLEAN]
    /\ request \in Asked

\* A process that is off has kept nothing, and one that is not off has a valid
\* configuration and prepared what its configuration asks, as far as it got.
Progress ==
    /\ phase = "off" => prepared = {} /\ cell = "empty" /\ step = "none"
    /\ phase # "off" =>
          /\ Validate(config) /\ release \in Releases
          /\ prepared = {c \in Components : HasTask(config, c) /\ ~InRemainder(toPrepare, c)}
    /\ phase \in {"running", "stopping"} => toPrepare = << >>
    /\ phase = "stopping" => "sse" \in prepared

\* The database is built for the component that is prepared, and a component
\* that needs it is prepared only with it.
ForDatabase ==
    /\ step # "none" => toPrepare # << >> /\ NeedsDatabase(config, Head(toPrepare))
    /\ cell = "ready" => IsStorageEnabled(config)
    /\ \A c \in prepared : NeedsDatabase(config, c) => cell = "ready"

TypeInv == Types /\ Progress /\ ForDatabase

\* Versions are recorded from below, and applied before they are recorded as a
\* success; the only one that may lack its statements is the newest.
RecordedFromBelow ==
    /\ \A v \in DOMAIN recorded : recorded[v] => v \in applied
    /\ \A w \in DOMAIN recorded, v \in Versions : v < w => v \in applied
    /\ DOMAIN recorded # {} => \E v \in DOMAIN recorded : \A w \in DOMAIN recorded : w <= v

\* What is not to be executed any more is applied, and below what is.
ExecutedFromBelow ==
    /\ step \in {"execute", "record"} =>
          /\ release \ pending \subseteq applied
          /\ \A v \in release \ pending, w \in pending : v < w
    /\ step = "record" /\ succeeded => Min(pending) \in applied
    /\ cell = "ready" => release \subseteq applied

MigrationInv == TypeInv /\ RecordedFromBelow /\ ExecutedFromBelow

\* The tables that a handler of the aggregate has read so far, against those it
\* could have seen: before it asks for the expiration it missed the processing in
\* a state of the store that is still a part of the present one.
ReadSoFar ==
    request.status = 0 =>
        /\ IsTaken(request.of) /\ rows \in request.seen
        /\ request.reads = AggregateReads =>
              /\ request.at \in 1 .. 3
              /\ request.got = IF request.at = 1 THEN {} ELSE {Accepted}
              /\ request.at # 1 => Accepted \in rows
              /\ request.at = 3 /\ ~request.failed =>
                    \E held \in request.seen : Accepted \in held /\ Processed \notin held /\ held \subseteq rows

OneOutcome == ~(Processed \in rows /\ Expired \in rows)

AnswerInv == TypeInv /\ OneOutcome /\ ReadSoFar /\ AggregateIsSnapshot

\* The id from which the ids are counted on, and how far before it an id is.
Mark == IF phase \in {"running", "stopping"} /\ "sse" \in prepared THEN index ELSE LoadIndex
Back(i, mark) == IF i < mark THEN mark - i ELSE mark + IdCount - i

\* The ids taken are the ones just before the mark.
GivenBefore ==
    /\ IsFiniteSet(given) /\ Cardinality(given) <= MaxPublished
    /\ given = {i \in Ids : Back(i, Mark) <= Cardinality(given)}

IdInv == TypeInv /\ GivenBefore
-----------------------------------------------------------------------------
\* Operators.

LEMMA MinIsLeast ==
    ASSUME NEW S, S \subseteq Nat, S # {}
    PROVE  Min(S) \in S /\ \A v \in S : Min(S) <= v
<1> DEFINE R == {ss \in Nat \X Nat : ss[1] < ss[2]}
<1>1. \A v, w \in Nat : v < w => <<v, w>> \in R
    OBVIOUS
<1>2. IsWellFoundedOn(R, Nat)
    BY NatLessThanWellFounded, Zenon DEF OpToRel
<1>3. \E v \in S : \A w \in S : <<w, v>> \notin R
    <2> HIDE DEF R
    <2> QED BY <1>2, WFMin
<1>4. \E v \in S : \A w \in S : v <= w
    <2> HIDE DEF R
    <2>1. PICK v \in S : \A w \in S : <<w, v>> \notin R
        BY <1>3
    <2>2. \A w \in S : ~(w < v)
        BY <1>1, <2>1, Zenon
    <2>3. \A w \in S : v <= w
        BY <2>2
    <2> QED BY <2>3
<1> QED BY <1>4 DEF Min

\* The next component to prepare, and what is left after it.
LEMMA RemainderSteps ==
    ASSUME NEW q \in Remainders, q # << >>
    PROVE  /\ Tail(q) \in Remainders /\ Head(q) \in Components
           /\ InRemainder(q, Head(q)) /\ ~InRemainder(Tail(q), Head(q))
           /\ \A c \in Components : c # Head(q) => (InRemainder(q, c) <=> InRemainder(Tail(q), c))
<1>1. CASE q = <<"admin", "rest", "sse", "rpc">>
    BY <1>1 DEF Remainders, InRemainder, Components
<1>2. CASE q = <<"rest", "sse", "rpc">>
    BY <1>2 DEF Remainders, InRemainder, Components
<1>3. CASE q = <<"sse", "rpc">>
    BY <1>3 DEF Remainders, InRemainder, Components
<1>4. CASE q = <<"rpc">>
    BY <1>4 DEF Remainders, InRemainder, Components
<1> QED BY <1>1, <1>2, <1>3, <1>4 DEF Remainders

LEMMA RemainderEnds ==
    /\ \A c \in Components : InRemainder(<<"admin", "rest", "sse", "rpc">>, c)
    /\ \A c \in Components : ~InRemainder(<< >>, c)
<1>1. \A c \in Components : InRemainder(<<"admin", "rest", "sse", "rpc">>, c)
    BY DEF InRemainder, Components
<1>2. \A c : ~InRemainder(<< >>, c)
    BY DEF InRemainder
<1> QED BY <1>1, <1>2

LEMMA StatusTypes ==
    ASSUME NEW rejections
    PROVE  StatusOf(rejections) \in {200, 400, 404, 500}
<1>1. CASE rejections \cap DOMAIN OfStorageError # {}
    <2> DEFINE e == CHOOSE e \in rejections : e \in DOMAIN OfStorageError
    <2>1. e \in DOMAIN OfStorageError
        BY <1>1
    <2>2. e \in {"missing", "unreadable", "failed"}
        <3> HIDE DEF e
        <3> QED BY <2>1 DEF OfStorageError
    <2>3. OfStorageError[e] \in {404, 500}
        <3> HIDE DEF e
        <3> QED BY <2>2 DEF OfStorageError
    <2>4. StatusOf(rejections) \in {200, OfStorageError[e]}
        BY <1>1 DEF StatusOf
    <2> HIDE DEF e
    <2> QED BY <2>3, <2>4
<1>2. CASE rejections \cap DOMAIN OfStorageError = {}
    BY <1>2 DEF StatusOf
<1> QED BY <1>1, <1>2

LEMMA StatusOfMissing ==
    /\ StatusOf({}) = 200
    /\ StatusOf({"InvalidPath"} \cup {"missing"}) = 404
<1> DEFINE s == {"InvalidPath"} \cup {"missing"}
           e == CHOOSE e \in s : e \in DOMAIN OfStorageError
<1>1. DOMAIN OfStorageError = {"missing", "unreadable", "failed"}
    BY DEF OfStorageError
<1>2. s \cap DOMAIN OfStorageError = {"missing"}
    BY <1>1
<1>3. e = "missing"
    <2>1. e \in s /\ e \in DOMAIN OfStorageError
        <3> HIDE DEF s
        <3> QED BY <1>2
    <2> HIDE DEF e, s
    <2> QED BY <1>2, <2>1
<1>4. OfStorageError["missing"] = 404
    BY DEF OfStorageError
<1>5. StatusOf(s) = OfStorageError[e]
    <2> HIDE DEF s
    <2>1. s # {}
        BY <1>2
    <2> QED BY <1>2, <2>1 DEF StatusOf, e
<1> HIDE DEF e
<1>6. StatusOf(s) = 404
    BY <1>3, <1>4, <1>5
<1>7. StatusOf({}) = 200
    BY DEF StatusOf
<1> QED BY <1>6, <1>7

\* A wrapped index is at the first id again.
LEMMA NextIndexValue ==
    ASSUME NEW i \in Ids
    PROVE  NextIndex(i) = IF i + 1 = IdCount THEN 0 ELSE i + 1
<1>1. IdCount \in Nat \ {0} /\ i \in Nat /\ i + 1 <= IdCount
    BY SidecarAssumption DEF Ids
<1>2. CASE i + 1 = IdCount
    BY <1>1, <1>2, SMT DEF NextIndex
<1>3. CASE i + 1 < IdCount
    BY <1>1, <1>3, SMT DEF NextIndex
<1> QED BY <1>1, <1>2, <1>3
-----------------------------------------------------------------------------
\* Types.

LEMMA Sizes ==
    /\ IdCount \in Nat /\ IdCount >= 1 /\ 0 \in Ids
    /\ MaxPublished \in Nat /\ MaxPublished < IdCount
    /\ Ids \subseteq Nat
BY SidecarAssumption DEF Ids

LEMMA IdleType == Idle \in Asked /\ Idle.status = 200 /\ Idle.reads = << >>
<1> DEFINE none == [route |-> "root", form |-> "none"]
<1>1. none \in RestRequests
    BY DEF RestRequests, Forms
<1>2. "root" \notin DOMAIN Routes
    BY DEF Routes
<1>3. ReadsOf(none) = << >>
    BY <1>2 DEF ReadsOf
<1>4. << >> \in {ReadsOf(r) : r \in RestRequests}
    BY <1>1, <1>3
<1> QED BY <1>1, <1>4 DEF Idle, Asked

LEMMA InitTypes == Init => TypeInv
<1> SUFFICES ASSUME Init PROVE TypeInv
    OBVIOUS
<1>1. request \in Asked /\ request.status # 0
    BY IdleType DEF Init
<1>2. recorded = [v \in {} |-> TRUE]
    BY DEF Init
<1>3. DOMAIN recorded = {} /\ recorded \in [DOMAIN recorded -> BOOLEAN]
    BY <1>2
<1>4. TypeOK
    BY <1>1, <1>3, Sizes, SidecarAssumption DEF Init, TypeOK
<1>5. Types
    BY <1>1, <1>3, <1>4 DEF Init, Types, Remainders
<1>6. Progress /\ ForDatabase
    BY DEF Init, Progress, ForDatabase
<1> QED BY <1>5, <1>6 DEF TypeInv

\* However the process ends, only the database and the file are left.
LEMMA GoneTypes ==
    ASSUME TypeInv, Gone, UNCHANGED <<config, release, applied, rows>>,
           DOMAIN recorded' \subseteq Versions, recorded' \in [DOMAIN recorded' -> BOOLEAN],
           file' \in Ids \cup {NoIndex}, index' \in Ids, given' \subseteq Ids
    PROVE  TypeInv'
<1>1. request' \in Asked /\ request'.status # 0
    BY IdleType DEF Gone
<1>2. TypeOK'
    BY <1>1 DEF TypeInv, Types, TypeOK, Gone
<1>3. /\ toPrepare' \in Remainders /\ succeeded' \in BOOLEAN
      /\ release' \in Releases \cup {{}} /\ pending' \subseteq release'
    BY DEF TypeInv, Types, Gone, Remainders
<1>4. Types'
    BY <1>1, <1>2, <1>3 DEF Types
<1>5. Progress' /\ ForDatabase'
    BY DEF Gone, Progress, ForDatabase
<1> QED BY <1>4, <1>5 DEF TypeInv

LEMMA GoneKeepsTypes ==
    ASSUME TypeInv, Gone, UNCHANGED <<config, release, store, ids>>
    PROVE  TypeInv'
BY GoneTypes DEF TypeInv, Types, TypeOK, store, ids

LEMMA StartTypes ==
    ASSUME TypeInv, Start
    PROVE  TypeInv'
<1>1. TypeOK'
    BY DEF TypeInv, Types, Progress, TypeOK, Start, store, ids, Serves
<1>2. /\ release' \in Releases \cup {{}} /\ pending' \subseteq release'
      /\ toPrepare' \in Remainders
    BY DEF TypeInv, Types, Progress, TypeOK, Start, Remainders
<1>3. Types'
    BY <1>1, <1>2 DEF TypeInv, Types, Start, store
<1>4. prepared' = {c \in Components : HasTask(config', c) /\ ~InRemainder(toPrepare', c)}
    BY RemainderEnds DEF TypeInv, Progress, Start
<1>5. Progress'
    BY <1>4 DEF TypeInv, Progress, Start
<1>6. ForDatabase'
    BY DEF TypeInv, Progress, ForDatabase, Start
<1> QED BY <1>3, <1>5, <1>6 DEF TypeInv

LEMMA PreparedTypes ==
    ASSUME TypeInv, NEW c \in Components, Preparing(c), Prepared(c), step = "none",
           NeedsDatabase(config, c) => cell = "ready"
    PROVE  TypeInv'
<1>1. toPrepare \in Remainders /\ toPrepare # << >> /\ c = Head(toPrepare) /\ toPrepare' = Tail(toPrepare)
    BY DEF TypeInv, Types, Preparing, Prepared
<1>2. /\ toPrepare' \in Remainders /\ InRemainder(toPrepare, c) /\ ~InRemainder(toPrepare', c)
      /\ \A d \in Components : d # c => (InRemainder(toPrepare, d) <=> InRemainder(toPrepare', d))
    BY <1>1, RemainderSteps
<1>3. prepared' \subseteq Components
    BY DEF TypeInv, Types, TypeOK, Prepared
<1>4. TypeOK'
    BY <1>3 DEF TypeInv, Types, TypeOK, Prepared, Preparing, Serves, store, ids
<1>5. Types'
    BY <1>2, <1>4 DEF TypeInv, Types, Prepared, store
<1>6. prepared' = {d \in Components : HasTask(config', d) /\ ~InRemainder(toPrepare', d)}
    BY <1>2 DEF TypeInv, Progress, Prepared, Preparing
<1>7. Progress'
    BY <1>6 DEF TypeInv, Progress, Prepared, Preparing
<1>8. ForDatabase'
    BY DEF TypeInv, ForDatabase, Prepared
<1> QED BY <1>5, <1>7, <1>8 DEF TypeInv

LEMMA PrepareKeepsTypes ==
    ASSUME TypeInv, NEW c \in Components, PrepareAtOnce(c) \/ PrepareAfterWait(c)
    PROVE  TypeInv'
<1>1. Preparing(c) /\ Prepared(c)
    BY DEF PrepareAtOnce, PrepareAfterWait
<1>2. NeedsDatabase(config, c) => cell = "ready"
    BY DEF PrepareAtOnce, PrepareAfterWait, Awaits, NeedsDatabase
<1>3. step = "none"
    BY <1>1, <1>2 DEF TypeInv, Types, TypeOK, ForDatabase, Preparing
<1> QED BY <1>1, <1>2, <1>3, PreparedTypes

\* A step of Database::build goes on, and changes only what belongs to it.
LEMMA BuildTypes ==
    ASSUME TypeInv, phase = "preparing", toPrepare # << >>, NeedsDatabase(config, Head(toPrepare)),
           UNCHANGED <<buildVars, rows>>,
           step' \in {"none", "initial", "newest", "execute", "record"}, cell' \in {"empty", "ready"},
           step' # "none" => cell' = "empty", cell = "ready" => cell' = "ready",
           pending' \subseteq release, pending' # {} <=> step' \in {"execute", "record"},
           succeeded' \in BOOLEAN, applied' \subseteq Versions,
           DOMAIN recorded' \subseteq Versions, recorded' \in [DOMAIN recorded' -> BOOLEAN]
    PROVE  TypeInv'
<1>1. TypeOK'
    BY DEF TypeInv, Types, TypeOK, buildVars, ids, Serves
<1>2. Types'
    BY <1>1 DEF TypeInv, Types, buildVars
<1>3. Progress'
    BY DEF TypeInv, Progress, buildVars
<1>4. IsStorageEnabled(config)
    BY DEF NeedsDatabase
<1>5. ForDatabase'
    BY <1>4 DEF TypeInv, ForDatabase, buildVars
<1> QED BY <1>2, <1>3, <1>5 DEF TypeInv

\* Where Database::build is while it has a step to take.
LEMMA WhileBuilding ==
    ASSUME TypeInv, step # "none"
    PROVE  /\ phase = "preparing" /\ cell = "empty" /\ release \in Releases
           /\ toPrepare # << >> /\ NeedsDatabase(config, Head(toPrepare))
           /\ release \subseteq Versions /\ release \subseteq Nat
<1>1. /\ phase = "preparing" /\ cell = "empty" /\ release \in Releases
      /\ toPrepare # << >> /\ NeedsDatabase(config, Head(toPrepare))
    BY DEF TypeInv, Types, TypeOK, Progress, ForDatabase
<1>2. release \subseteq Versions
    BY <1>1 DEF Versions
<1> QED BY <1>1, <1>2, SidecarAssumption

\* The migration that is executed next is the lowest one.
LEMMA NextMigration ==
    ASSUME TypeInv, step \in {"execute", "record"}
    PROVE  /\ Min(pending) \in pending /\ \A v \in pending : Min(pending) <= v
           /\ Min(pending) \in release /\ Min(pending) \in Versions /\ Min(pending) \in Nat
<1>1. pending \subseteq release /\ pending # {}
    BY DEF TypeInv, Types, TypeOK
<1>2. step # "none" /\ release \subseteq Nat /\ release \subseteq Versions
    BY WhileBuilding
<1>3. Min(pending) \in pending /\ \A v \in pending : Min(pending) <= v
    BY <1>1, <1>2, MinIsLeast
<1> QED BY <1>1, <1>2, <1>3

LEMMA RecordedTypes ==
    ASSUME TypeInv, step = "record", Recorded
    PROVE  /\ DOMAIN recorded' = DOMAIN recorded \cup {Min(pending)}
           /\ DOMAIN recorded' \subseteq Versions
           /\ recorded' \in [DOMAIN recorded' -> BOOLEAN]
           /\ recorded'[Min(pending)] = succeeded
           /\ \A v \in DOMAIN recorded : v # Min(pending) => recorded'[v] = recorded[v]
<1>1. PICK m : m = Min(pending)
    OBVIOUS
<1>2. recorded' = [v \in DOMAIN recorded \cup {m} |-> IF v = m THEN succeeded ELSE recorded[v]]
    BY <1>1 DEF Recorded
<1>3. m \in Versions
    BY <1>1, NextMigration
<1>4. succeeded \in BOOLEAN /\ recorded \in [DOMAIN recorded -> BOOLEAN] /\ DOMAIN recorded \subseteq Versions
    BY DEF TypeInv, Types, TypeOK
<1>5. DOMAIN recorded' = DOMAIN recorded \cup {m}
    BY <1>2
<1>6. \A v \in DOMAIN recorded' : recorded'[v] \in BOOLEAN
    BY <1>2, <1>4
<1>7. recorded' \in [DOMAIN recorded' -> BOOLEAN]
    BY <1>2, <1>5, <1>6
<1>8. recorded'[m] = succeeded /\ \A v \in DOMAIN recorded : v # m => recorded'[v] = recorded[v]
    BY <1>2, Zenon
<1> QED BY <1>1, <1>3, <1>4, <1>5, <1>7, <1>8

LEMMA BuildKeepsTypes ==
    ASSUME TypeInv,
           \/ \E c \in Components : AcquireDatabase(c)
           \/ RunInitialMigration \/ ReadNewestVersion \/ ExecuteMigration
           \/ MigrationFails \/ StoreVersion
    PROVE  TypeInv'
<1>1. CASE \E c \in Components : AcquireDatabase(c)
    BY <1>1, BuildTypes DEF AcquireDatabase, Preparing, store, TypeInv, Types, TypeOK
<1>2. CASE RunInitialMigration
    BY <1>2, BuildTypes, WhileBuilding DEF RunInitialMigration, store, TypeInv, Types, TypeOK
<1>3. CASE ReadNewestVersion
    <2>1. ToExecute \subseteq release
        BY DEF ToExecute
    <2> QED BY <1>3, <2>1, BuildTypes, WhileBuilding DEF ReadNewestVersion, BuildNext, store, TypeInv, Types, TypeOK
<1>4. CASE ExecuteMigration
    <2>1. step = "execute" /\ Min(pending) \in Versions
        BY <1>4, NextMigration DEF ExecuteMigration
    <2> QED BY <1>4, <2>1, BuildTypes, WhileBuilding DEF ExecuteMigration, TypeInv, Types, TypeOK
<1>5. CASE MigrationFails
    BY <1>5, BuildTypes, WhileBuilding DEF MigrationFails, store, TypeInv, Types, TypeOK
<1>6. CASE StoreVersion
    <2>1. /\ step = "record" /\ Recorded /\ BuildNext(pending \ {Min(pending)})
          /\ UNCHANGED <<buildVars, faults, succeeded, applied, rows>>
        BY <1>6 DEF StoreVersion
    <2>2. DOMAIN recorded' \subseteq Versions /\ recorded' \in [DOMAIN recorded' -> BOOLEAN]
        BY <2>1, RecordedTypes
    <2> QED BY <2>1, <2>2, BuildTypes, WhileBuilding DEF BuildNext, TypeInv, Types, TypeOK
<1> QED BY <1>1, <1>2, <1>3, <1>4, <1>5, <1>6

\* A running process always has something to run: rpc or sse is configured.
LEMMA RunTypes ==
    ASSUME TypeInv, Run
    PROVE  TypeInv' /\ phase' = "running"
<1>1. \A c \in Components : ~InRemainder(toPrepare, c)
    BY RemainderEnds DEF Run
<1>2. prepared = {c \in Components : HasTask(config, c)}
    BY <1>1 DEF TypeInv, Progress, Run
<1>3. prepared # {}
    <2>1. HasTask(config, "rpc") \/ HasTask(config, "sse")
        BY DEF TypeInv, Progress, Run, Validate, HasTask
    <2> QED BY <1>2, <2>1 DEF Components
<1>4. phase' = "running" /\ step = "none"
    BY <1>3 DEF Run, TypeInv, ForDatabase
<1>5. index' \in Ids
    BY Sizes DEF Run, LoadIndex, TypeInv, Types, TypeOK
<1>6. TypeOK'
    BY <1>4, <1>5 DEF TypeInv, Types, TypeOK, Run, store, Serves
<1>7. Types'
    BY <1>6 DEF TypeInv, Types, Run, store
<1>8. Progress' /\ ForDatabase'
    BY <1>4 DEF TypeInv, Progress, ForDatabase, Run
<1> QED BY <1>4, <1>7, <1>8 DEF TypeInv

\* Steps of the servers leave the preparation alone.
LEMMA ServeTypes ==
    ASSUME TypeInv, UNCHANGED <<config, release, phase, toPrepare, prepared, cell, step, pending, succeeded,
                                recorded, applied, file>>,
           rows' \subseteq Tables, index' \in Ids, given' \subseteq Ids,
           request' \in Asked, request'.status = 0 => Serves("rest")
    PROVE  TypeInv'
<1>1. TypeOK'
    BY DEF TypeInv, Types, TypeOK, Serves
<1>2. Types'
    BY <1>1 DEF TypeInv, Types
<1>3. Progress' /\ ForDatabase'
    BY DEF TypeInv, Progress, ForDatabase
<1> QED BY <1>2, <1>3 DEF TypeInv

LEMMA AskRequest ==
    ASSUME TypeInv, NEW r \in Requests, Ask(r)
    PROVE  /\ request' \in Asked /\ request'.of = r /\ request'.reads = ReadsOf(r) /\ request'.at = 1
           /\ request'.got = {} /\ request'.failed = FALSE /\ request'.seen = {rows}
           /\ request'.status = 0 <=> ReadsOf(r) # << >>
<1> DEFINE other == StatusOf(Rejections(r, IF IsTaken(r) THEN "found" ELSE "missing"))
           status == IF ReadsOf(r) # << >> THEN 0 ELSE other
<1>1. other \in {200, 400, 404, 500}
    BY StatusTypes
<1>2. request' = [Idle EXCEPT !.of = r, !.reads = ReadsOf(r), !.at = 1, !.seen = {rows}, !.status = status]
    BY DEF Ask
<1>3. status \in {0, 200, 400, 404, 500} /\ (status = 0 <=> ReadsOf(r) # << >>)
    <2> HIDE DEF other
    <2> QED BY <1>1
<1>4. r \in RestRequests /\ ReadsOf(r) \in {ReadsOf(s) : s \in RestRequests}
    BY SidecarAssumption
<1>5. rows \subseteq Tables
    BY DEF TypeInv, Types, TypeOK
<1> HIDE DEF status
<1>6. request' = [of |-> r, reads |-> ReadsOf(r), at |-> 1, got |-> {}, failed |-> FALSE,
                  seen |-> {rows}, status |-> status]
    BY <1>2 DEF Idle
<1> QED BY <1>3, <1>4, <1>5, <1>6 DEF Asked

\* What one statement adds to the request.
LEMMA ReadRequest ==
    ASSUME TypeInv, NEW result, Read(result),
           NEW table, table = request.reads[request.at],
           NEW got, got = (IF result = "found" THEN request.got \cup {table} ELSE request.got),
           NEW last, last = IsLast(request.reads, request.at, got, result),
           NEW outcome, outcome = (IF IsNeeded(request.reads, table) THEN result ELSE "found")
    PROVE  /\ request.status = 0 /\ result \in Results(table, rows) /\ rows' = rows
           /\ request' \in Asked
           /\ request'.of = request.of /\ request'.reads = request.reads /\ request'.seen = request.seen
           /\ request'.got = got
           /\ request'.at = IF last THEN request.at ELSE request.at + 1
           /\ request'.failed <=> request.failed \/ result \in ReadErrors
           /\ request'.status = IF last THEN StatusOf(Rejections(request.of, outcome)) ELSE 0
<1> DEFINE failed == request.failed \/ result \in ReadErrors
           at == IF last THEN request.at ELSE request.at + 1
           status == IF last THEN StatusOf(Rejections(request.of, outcome)) ELSE 0
<1>1. /\ request.status = 0 /\ result \in Results(table, rows) /\ rows' = rows
      /\ request' = [request EXCEPT !.got = got, !.at = at, !.failed = failed, !.status = status]
    BY DEF Read, store
<1>2. request \in Asked /\ rows \subseteq Tables
    BY DEF TypeInv, Types, TypeOK
<1>3. got \in SUBSET Tables
    <2>1. result = "found" => table \in rows
        BY <1>1 DEF Results, ReadErrors
    <2> QED BY <1>2, <2>1 DEF Asked
<1>4. at \in Nat
    BY <1>2 DEF Asked
<1>5. status \in {0, 200, 400, 404, 500}
    BY StatusTypes
<1>6. failed \in BOOLEAN
    OBVIOUS
<1> HIDE DEF failed, at, status
<1>7. PICK f, n, st : f = failed /\ n = at /\ st = status
    BY Zenon
<1>8. request' = [request EXCEPT !.got = got, !.at = n, !.failed = f, !.status = st]
    BY <1>1, <1>7, Zenon
<1>9. f \in BOOLEAN /\ n \in Nat /\ st \in {0, 200, 400, 404, 500}
    BY <1>4, <1>5, <1>6, <1>7, Zenon
<1>10. /\ request' \in Asked
       /\ request'.of = request.of /\ request'.reads = request.reads /\ request'.seen = request.seen
       /\ request'.got = got /\ request'.at = n /\ request'.failed = f /\ request'.status = st
    <2>1. request' = [of |-> request.of, reads |-> request.reads, at |-> n, got |-> got, failed |-> f,
                      seen |-> request.seen, status |-> st]
        BY <1>2, <1>3, <1>8, <1>9 DEF Asked
    <2> QED BY <1>2, <1>3, <1>9, <2>1 DEF Asked
<1>11. request'.at = at /\ request'.failed = failed /\ request'.status = status
    BY <1>7, <1>10, Zenon
<1> QED BY <1>1, <1>10, <1>11 DEF failed, at, status

LEMMA SaveRequest ==
    ASSUME TypeInv, NEW t \in Stored, SaveEvent(t)
    PROVE  /\ rows' = rows \cup {t} /\ rows' \subseteq Tables /\ request' \in Asked
           /\ request'.of = request.of /\ request'.reads = request.reads /\ request'.at = request.at
           /\ request'.got = request.got /\ request'.failed = request.failed
           /\ request'.status = request.status
           /\ request.status # 0 => request' = request
           /\ request.status = 0 => request'.seen = request.seen \cup {rows'}
<1>1. rows' = rows \cup {t} /\ rows' \subseteq Tables /\ request \in Asked
    BY SidecarAssumption DEF SaveEvent, TypeInv, Types, TypeOK
<1>2. request' = IF request.status = 0 THEN [request EXCEPT !.seen = @ \cup {rows'}] ELSE request
    BY DEF SaveEvent
<1>3. CASE request.status = 0
    BY <1>1, <1>2, <1>3 DEF Asked
<1>4. CASE request.status # 0
    BY <1>1, <1>2, <1>4
<1> QED BY <1>1, <1>3, <1>4

LEMMA NextIndexType ==
    ASSUME NEW i \in Ids
    PROVE  NextIndex(i) \in Ids
BY NextIndexValue, Sizes DEF Ids

LEMMA ServeKeepsTypes ==
    ASSUME TypeInv,
           \/ \E t \in Stored : SaveEvent(t)
           \/ TakeId
           \/ \E r \in Requests : Ask(r)
           \/ \E result \in {"found", "missing"} \cup ReadErrors : Read(result)
    PROVE  TypeInv'
<1>1. request.status = 0 => Serves("rest")
    BY DEF TypeInv, Types, TypeOK
<1>2. index \in Ids /\ given \subseteq Ids /\ rows \subseteq Tables /\ request \in Asked
    BY DEF TypeInv, Types, TypeOK
<1>3. ASSUME NEW t \in Stored, SaveEvent(t) PROVE TypeInv'
    <2>1. rows' \subseteq Tables /\ request' \in Asked /\ request'.status = request.status
        BY <1>3, SaveRequest
    <2> QED BY <1>1, <1>2, <1>3, <2>1, ServeTypes DEF SaveEvent, ids
<1>4. CASE TakeId
    <2>1. index' \in Ids /\ given' \subseteq Ids
        BY <1>2, <1>4, NextIndexType DEF TakeId
    <2> QED BY <1>1, <1>2, <1>4, <2>1, ServeTypes DEF TakeId, process, store
<1>5. ASSUME NEW r \in Requests, Ask(r) PROVE TypeInv'
    <2>1. request' \in Asked /\ Serves("rest")
        BY <1>5, AskRequest DEF Ask
    <2> QED BY <1>2, <1>5, <2>1, ServeTypes DEF Ask, store, ids
<1>6. ASSUME NEW result, Read(result) PROVE TypeInv'
    <2>1. request.status = 0 /\ request' \in Asked
        BY <1>6, ReadRequest
    <2> QED BY <1>1, <1>2, <1>6, <2>1, ServeTypes DEF Read, store, ids
<1> QED BY <1>3, <1>4, <1>5, <1>6

LEMMA ReturnTypes ==
    ASSUME TypeInv, Return
    PROVE  TypeInv'
<1>1. CASE Serves("sse")
    <2>1. request' \in Asked /\ request'.status # 0
        BY <1>1, IdleType DEF Return
    <2>2. phase = "running" /\ step = "none"
        BY <1>1 DEF Serves, TypeInv, Types, TypeOK
    <2>3. TypeOK'
        BY <1>1, <2>1, <2>2 DEF Return, TypeInv, Types, TypeOK, store, ids
    <2>4. Types'
        BY <1>1, <2>1, <2>3 DEF Return, TypeInv, Types, store
    <2>5. Progress' /\ ForDatabase'
        BY <1>1 DEF Return, TypeInv, Progress, ForDatabase, Serves
    <2> QED BY <2>4, <2>5 DEF TypeInv
<1>2. CASE ~Serves("sse")
    BY <1>2, GoneKeepsTypes DEF Return
<1> QED BY <1>1, <1>2

LEMMA EndKeepsTypes ==
    ASSUME TypeInv,
           \/ \E c \in Components : PrepareFails(c) \/ StartupTimesOut(c) \/ ComponentEnds(c)
           \/ RefuseAfterFailure \/ StoreFailedVersion \/ DatabaseFails
           \/ Signal \/ DropIndexer \/ WriteFails \/ Crash
    PROVE  TypeInv'
<1>1. CASE \E c \in Components : PrepareFails(c) \/ StartupTimesOut(c)
    BY <1>1, GoneKeepsTypes DEF PrepareFails, StartupTimesOut
<1>2. CASE (\E c \in Components : ComponentEnds(c)) \/ Signal
    BY <1>2, ReturnTypes DEF ComponentEnds, Signal
<1>3. CASE RefuseAfterFailure \/ DatabaseFails
    BY <1>3, GoneKeepsTypes DEF RefuseAfterFailure, DatabaseFails
<1>4. CASE StoreFailedVersion
    <2>1. /\ step = "record" /\ Recorded /\ Gone
          /\ UNCHANGED <<config, lives, release, faults, applied, rows, ids>>
        BY <1>4 DEF StoreFailedVersion
    <2>2. DOMAIN recorded' \subseteq Versions /\ recorded' \in [DOMAIN recorded' -> BOOLEAN]
        BY <2>1, RecordedTypes
    <2> QED BY <2>1, <2>2, GoneTypes DEF TypeInv, Types, TypeOK, ids
<1>5. CASE DropIndexer
    BY <1>5, GoneTypes DEF DropIndexer, store, TypeInv, Types, TypeOK
<1>6. CASE WriteFails
    <2>1. file' \in Ids \cup {NoIndex} /\ given' \subseteq Ids
        BY <1>6 DEF WriteFails, TypeInv, Types, TypeOK
    <2> QED BY <1>6, <2>1, GoneTypes DEF WriteFails, store, TypeInv, Types, TypeOK
<1>7. CASE Crash
    <2>1. file' \in Ids \cup {NoIndex} /\ given' \subseteq Ids
        BY <1>7 DEF Crash, TypeInv, Types, TypeOK
    <2> QED BY <1>7, <2>1, GoneTypes DEF Crash, store, TypeInv, Types, TypeOK
<1> QED BY <1>1, <1>2, <1>3, <1>4, <1>5, <1>6, <1>7

LEMMA StutterKeepsTypes ==
    ASSUME TypeInv, UNCHANGED vars
    PROVE  TypeInv'
<1>1. TypeOK'
    BY DEF TypeInv, Types, TypeOK, Serves, vars, process, store, ids
<1>2. Types'
    BY <1>1 DEF TypeInv, Types, vars, process, store
<1>3. Progress' /\ ForDatabase'
    BY DEF TypeInv, Progress, ForDatabase, vars, process
<1> QED BY <1>2, <1>3 DEF TypeInv

LEMMA NextTypes == TypeInv /\ [Next]_vars => TypeInv'
<1> SUFFICES ASSUME TypeInv, [Next]_vars PROVE TypeInv'
    OBVIOUS
<1> QED BY StartTypes, PrepareKeepsTypes, BuildKeepsTypes, RunTypes, ServeKeepsTypes, EndKeepsTypes,
           StutterKeepsTypes DEF Next

LEMMA TypesHold == Spec => []TypeInv
BY InitTypes, NextTypes, PTL DEF Spec

\* Each variable holds what it should, in every reachable state; above all, no
\* migration is executed once the servers run, and a request is handled only
\* while the REST server runs.
THEOREM TypeCorrect == Spec => []TypeOK
<1>1. TypeInv => TypeOK
    BY DEF TypeInv, Types
<1> QED BY <1>1, TypesHold, PTL
-----------------------------------------------------------------------------
\* Migrations.

LEMMA NewestIsGreatest ==
    ASSUME RecordedFromBelow, DOMAIN recorded # {}
    PROVE  /\ NewestVersion \in DOMAIN recorded
           /\ \A v \in DOMAIN recorded : NewestVersion >= v
<1> DEFINE S == DOMAIN recorded
<1>1. PICK v \in S : \A w \in S : w <= v
    BY DEF RecordedFromBelow
<1> HIDE DEF S
<1>2. \A w \in S : v >= w
    BY <1>1
<1>3. Max(S) \in S /\ \A w \in S : Max(S) >= w
    BY <1>2, Zenon DEF Max
<1> QED BY <1>3 DEF NewestVersion, S

\* What lies below a version of a release is known to that release.
LEMMA KnownBelow ==
    ASSUME NEW r \in Releases, NEW w \in r, NEW v \in Versions, v < w
    PROVE  v \in r
<1>1. PICK s \in Releases : v \in s
    BY DEF Versions
<1>2. v \in Nat /\ w \in Nat
    BY SidecarAssumption DEF Versions
<1>3. CASE s \subseteq r
    BY <1>1, <1>3
<1>4. CASE r \subseteq s /\ v \notin r
    BY <1>1, <1>2, <1>4, SidecarAssumption
<1> QED BY <1>1, <1>3, <1>4, SidecarAssumption

LEMMA StoreKept ==
    ASSUME RecordedFromBelow, UNCHANGED <<recorded, applied>>
    PROVE  RecordedFromBelow'
BY DEF RecordedFromBelow

LEMMA GoneMigrations ==
    ASSUME Gone
    PROVE  ExecutedFromBelow'
BY DEF Gone, ExecutedFromBelow

LEMMA BuildKept ==
    ASSUME ExecutedFromBelow, UNCHANGED <<cell, step, pending, succeeded, release, applied>>
    PROVE  ExecutedFromBelow'
BY DEF ExecutedFromBelow

\* Recording the lowest version to execute keeps the order from below.
LEMMA RecordKeepsOrder ==
    ASSUME MigrationInv, step = "record", Recorded, applied' = applied
    PROVE  RecordedFromBelow'
<1>1. PICK m : m = Min(pending)
    OBVIOUS
<1>2. /\ m \in pending /\ \A v \in pending : m <= v
      /\ m \in release /\ m \in Versions
    BY <1>1, NextMigration DEF MigrationInv
<1>3. /\ DOMAIN recorded' = DOMAIN recorded \cup {m} /\ DOMAIN recorded' \subseteq Versions
      /\ recorded'[m] = succeeded
      /\ \A v \in DOMAIN recorded : v # m => recorded'[v] = recorded[v]
    BY <1>1, RecordedTypes DEF MigrationInv
<1>4. \A v \in DOMAIN recorded' : recorded'[v] => v \in applied
    <2>1. succeeded => m \in applied
        BY <1>1 DEF MigrationInv, ExecutedFromBelow
    <2>2. \A v \in DOMAIN recorded : recorded[v] => v \in applied
        BY DEF MigrationInv, RecordedFromBelow
    <2> QED BY <1>3, <2>1, <2>2, Zenon
<1>5. \A v \in Versions : v < m => v \in applied
    <2> SUFFICES ASSUME NEW v \in Versions, v < m PROVE v \in applied
        OBVIOUS
    <2>1. v \in release
        BY <1>2, KnownBelow, WhileBuilding DEF MigrationInv
    <2>2. v \notin pending
        BY <1>2, SidecarAssumption
    <2> QED BY <2>1, <2>2 DEF MigrationInv, ExecutedFromBelow
<1>6. \A w \in DOMAIN recorded', v \in Versions : v < w => v \in applied
    BY <1>3, <1>5 DEF MigrationInv, RecordedFromBelow
<1>7. \E v \in DOMAIN recorded' : \A w \in DOMAIN recorded' : w <= v
    <2>1. DOMAIN recorded' \subseteq Nat
        BY <1>3, SidecarAssumption
    <2>2. CASE DOMAIN recorded = {}
        BY <1>3, <2>1, <2>2
    <2>3. CASE DOMAIN recorded # {}
        <3>1. PICK v \in DOMAIN recorded : \A w \in DOMAIN recorded : w <= v
            BY <2>3 DEF MigrationInv, RecordedFromBelow
        <3>2. CASE m <= v
            BY <1>3, <3>1, <3>2
        <3>3. CASE ~(m <= v)
            <4>1. m \in DOMAIN recorded' /\ \A w \in DOMAIN recorded' : w <= m
                BY <1>3, <2>1, <3>1, <3>3
            <4> QED BY <4>1
        <3> QED BY <3>2, <3>3
    <2> QED BY <2>2, <2>3
<1> QED BY <1>4, <1>6, <1>7 DEF RecordedFromBelow

LEMMA ReadNewestKeeps ==
    ASSUME MigrationInv, ReadNewestVersion
    PROVE  ExecutedFromBelow'
<1>1. /\ step = "newest" /\ ~LastMigrationFailed /\ BuildNext(ToExecute)
      /\ release' = release /\ applied' = applied
    BY DEF ReadNewestVersion, buildVars, store
<1>2. release \in Releases /\ release \subseteq Versions /\ release \subseteq Nat
    BY <1>1, WhileBuilding DEF MigrationInv
<1>3. \A v \in release \ ToExecute : v \in applied /\ \A w \in ToExecute : v < w
    <2> SUFFICES ASSUME NEW v \in release \ ToExecute
                 PROVE  v \in applied /\ \A w \in ToExecute : v < w
        OBVIOUS
    <2>1. DOMAIN recorded # {} /\ ~(v > NewestVersion)
        BY DEF ToExecute
    <2>2. NewestVersion \in DOMAIN recorded /\ NewestVersion \in Nat
        BY <2>1, NewestIsGreatest, SidecarAssumption DEF MigrationInv, TypeInv, Types, TypeOK
    <2>3. recorded[NewestVersion]
        BY <1>1, <2>1 DEF LastMigrationFailed
    <2>4. v \in applied
        BY <1>2, <2>1, <2>2, <2>3 DEF MigrationInv, RecordedFromBelow
    <2>5. \A w \in ToExecute : v < w
        BY <1>2, <2>1, <2>2 DEF ToExecute
    <2> QED BY <2>4, <2>5
<1> QED BY <1>1, <1>3 DEF BuildNext, ExecutedFromBelow

LEMMA StoreVersionKeeps ==
    ASSUME MigrationInv, StoreVersion
    PROVE  ExecutedFromBelow'
<1>1. PICK m : m = Min(pending)
    OBVIOUS
<1>2. /\ step = "record" /\ succeeded /\ BuildNext(pending \ {m})
      /\ release' = release /\ applied' = applied
    BY <1>1 DEF StoreVersion, buildVars
<1>3. m \in pending /\ (\A v \in pending : m <= v) /\ m \in applied
    BY <1>1, <1>2, NextMigration DEF MigrationInv, ExecutedFromBelow
<1>4. release \subseteq Nat /\ pending \subseteq release
    BY <1>2, WhileBuilding DEF MigrationInv, TypeInv, Types
<1>5. /\ release \ pending \subseteq applied
      /\ \A v \in release \ pending, w \in pending : v < w
    BY <1>2 DEF MigrationInv, ExecutedFromBelow
<1>6. release \ (pending \ {m}) \subseteq applied
    BY <1>3, <1>5
<1>7. \A v \in release \ (pending \ {m}), w \in pending \ {m} : v < w
    BY <1>3, <1>4, <1>5
<1> QED BY <1>2, <1>6, <1>7 DEF BuildNext, ExecutedFromBelow

LEMMA ExecuteKeeps ==
    ASSUME MigrationInv, ExecuteMigration
    PROVE  RecordedFromBelow' /\ ExecutedFromBelow'
<1>1. PICK m : m = Min(pending)
    OBVIOUS
<1>2. /\ step = "execute" /\ step' = "record" /\ applied' = applied \cup {m}
      /\ UNCHANGED <<release, pending, recorded, cell>>
    BY <1>1 DEF ExecuteMigration, buildVars
<1>3. Min(pending)' = m
    BY <1>1, <1>2
<1>4. cell = "empty"
    BY <1>2, WhileBuilding DEF MigrationInv
<1>5. RecordedFromBelow'
    BY <1>2 DEF MigrationInv, RecordedFromBelow
<1>6. ExecutedFromBelow'
    BY <1>2, <1>3, <1>4 DEF MigrationInv, ExecutedFromBelow
<1> QED BY <1>5, <1>6

LEMMA BuildKeepsMigrations ==
    ASSUME MigrationInv,
           \/ \E c \in Components : AcquireDatabase(c)
           \/ RunInitialMigration \/ ReadNewestVersion \/ ExecuteMigration
           \/ MigrationFails \/ StoreVersion
    PROVE  RecordedFromBelow' /\ ExecutedFromBelow'
<1>1. CASE \E c \in Components : AcquireDatabase(c)
    BY <1>1, StoreKept DEF AcquireDatabase, buildVars, store, MigrationInv, ExecutedFromBelow
<1>2. CASE RunInitialMigration
    BY <1>2, StoreKept DEF RunInitialMigration, buildVars, store, MigrationInv, ExecutedFromBelow
<1>3. CASE ReadNewestVersion
    BY <1>3, StoreKept, ReadNewestKeeps DEF ReadNewestVersion, store, MigrationInv
<1>4. CASE ExecuteMigration
    BY <1>4, ExecuteKeeps
<1>5. CASE MigrationFails
    BY <1>5, StoreKept DEF MigrationFails, buildVars, store, MigrationInv, ExecutedFromBelow
<1>6. CASE StoreVersion
    BY <1>6, RecordKeepsOrder, StoreVersionKeeps DEF StoreVersion
<1> QED BY <1>1, <1>2, <1>3, <1>4, <1>5, <1>6

LEMMA EndKeepsMigrations ==
    ASSUME MigrationInv,
           \/ \E c \in Components : PrepareFails(c) \/ StartupTimesOut(c) \/ ComponentEnds(c)
           \/ RefuseAfterFailure \/ StoreFailedVersion \/ DatabaseFails
           \/ Signal \/ DropIndexer \/ WriteFails \/ Crash
    PROVE  RecordedFromBelow' /\ ExecutedFromBelow'
<1>1. CASE (\E c \in Components : ComponentEnds(c)) \/ Signal
    <2>1. Return
        BY <1>1 DEF ComponentEnds, Signal
    <2>2. CASE Serves("sse")
        BY <2>1, <2>2, StoreKept, BuildKept DEF Return, store, MigrationInv
    <2>3. CASE ~Serves("sse")
        BY <2>1, <2>3, StoreKept, GoneMigrations DEF Return, store, MigrationInv
    <2> QED BY <2>2, <2>3
<1>2. CASE StoreFailedVersion
    BY <1>2, RecordKeepsOrder, GoneMigrations DEF StoreFailedVersion
<1>3. CASE \/ \E c \in Components : PrepareFails(c) \/ StartupTimesOut(c)
           \/ RefuseAfterFailure \/ DatabaseFails \/ DropIndexer \/ WriteFails \/ Crash
    <2>1. Gone /\ UNCHANGED store
        BY <1>3 DEF PrepareFails, StartupTimesOut, RefuseAfterFailure, DatabaseFails, DropIndexer, WriteFails, Crash
    <2> QED BY <2>1, StoreKept, GoneMigrations DEF store, MigrationInv
<1> QED BY <1>1, <1>2, <1>3

LEMMA ServeKeepsMigrations ==
    ASSUME MigrationInv,
           \/ \E c \in Components : PrepareAtOnce(c) \/ PrepareAfterWait(c)
           \/ Run
           \/ \E t \in Stored : SaveEvent(t)
           \/ TakeId
           \/ \E r \in Requests : Ask(r)
           \/ \E result \in {"found", "missing"} \cup ReadErrors : Read(result)
           \/ UNCHANGED vars
    PROVE  RecordedFromBelow' /\ ExecutedFromBelow'
<1>1. UNCHANGED <<cell, step, pending, succeeded, release, recorded, applied>>
    BY DEF PrepareAtOnce, PrepareAfterWait, Prepared, Run, SaveEvent, TakeId, Ask, Read, vars, process, store
<1> QED BY <1>1, StoreKept, BuildKept DEF MigrationInv

LEMMA NextMigrations == MigrationInv /\ [Next]_vars => MigrationInv'
<1> SUFFICES ASSUME MigrationInv, [Next]_vars PROVE MigrationInv'
    OBVIOUS
<1>1. TypeInv'
    BY NextTypes DEF MigrationInv
<1>2. RecordedFromBelow' /\ ExecutedFromBelow'
    <2>1. CASE Start
        <3>1. step' = "none" /\ cell' = "empty" /\ UNCHANGED <<recorded, applied>>
            BY <2>1 DEF Start, store, MigrationInv, TypeInv, Progress
        <3>2. ExecutedFromBelow'
            BY <3>1 DEF ExecutedFromBelow
        <3> QED BY <3>1, <3>2, StoreKept DEF MigrationInv
    <2> QED BY <2>1, BuildKeepsMigrations, EndKeepsMigrations, ServeKeepsMigrations DEF Next
<1> QED BY <1>1, <1>2 DEF MigrationInv

LEMMA MigrationsHold == Spec => []MigrationInv
<1>1. Init => MigrationInv
    <2> SUFFICES ASSUME Init PROVE MigrationInv
        OBVIOUS
    <2>1. TypeInv
        BY InitTypes
    <2>2. recorded = [v \in {} |-> TRUE]
        BY DEF Init
    <2>3. DOMAIN recorded = {}
        BY <2>2
    <2>4. RecordedFromBelow
        BY <2>3 DEF RecordedFromBelow
    <2>5. ExecutedFromBelow
        BY DEF Init, ExecutedFromBelow
    <2> QED BY <2>1, <2>4, <2>5 DEF MigrationInv
<1> QED BY <1>1, NextMigrations, PTL DEF Spec

\* What main, validate and prepare_component_task make of one configuration
\* agree, and Database::build leaves no migration out: whatever starts failed,
\* timed out or crashed before, a process that runs has the configured servers,
\* its database if it needs one, and every migration of its release in it.
THEOREM RunsWhatIsConfigured == Spec => []ServersReady
<1>1. MigrationInv => ServersReady
    <2> SUFFICES ASSUME MigrationInv, phase = "running"
                 PROVE  /\ prepared = {c \in Components : CASE c = "admin" -> config.admin
                                            [] c = "rest" -> config.rest
                                            [] c = "sse" -> config.sse
                                            [] c = "rpc" -> config.rpc \/ config.speculative}
                        /\ config.rest \/ (config.sse /\ ~config.disable_event_persistence) => cell = "ready"
                        /\ cell = "ready" => Built(config) = "enabled" /\ release \subseteq applied
        BY DEF ServersReady
    <2>1. Validate(config) /\ prepared = {c \in Components : HasTask(config, c)}
        BY RemainderEnds DEF MigrationInv, TypeInv, Progress
    <2>2. /\ config.rest => IsStorageEnabled(config)
          /\ config.sse => config.storage
          /\ config.sse /\ ~config.disable_event_persistence => IsStorageEnabled(config)
        BY <2>1 DEF Validate, IsSseStoringEvents
    <2>3. \A c \in Components : HasTask(config, c) <=>
              CASE c = "admin" -> config.admin
                [] c = "rest" -> config.rest
                [] c = "sse" -> config.sse
                [] c = "rpc" -> config.rpc \/ config.speculative
        BY <2>2 DEF HasTask, Components
    <2>4. config.rest \/ (config.sse /\ ~config.disable_event_persistence) => cell = "ready"
        <3>1. config.rest => NeedsDatabase(config, "rest") /\ "rest" \in prepared
            BY <2>1, <2>2 DEF NeedsDatabase, HasTask, Components
        <3>2. config.sse /\ ~config.disable_event_persistence => NeedsDatabase(config, "sse") /\ "sse" \in prepared
            BY <2>1, <2>2 DEF NeedsDatabase, HasTask, Components
        <3> QED BY <3>1, <3>2 DEF MigrationInv, TypeInv, ForDatabase
    <2>5. cell = "ready" => Built(config) = "enabled" /\ release \subseteq applied
        BY DEF MigrationInv, TypeInv, ForDatabase, ExecutedFromBelow, IsStorageEnabled, Built
    <2> QED BY <2>1, <2>3, <2>4, <2>5
<1> QED BY <1>1, MigrationsHold, PTL
-----------------------------------------------------------------------------
\* The aggregate of a transaction.

AnswerParts == OneOutcome /\ ReadSoFar /\ AggregateIsSnapshot

LEMMA NoReads == AggregateReads # << >>
<1>1. Len(AggregateReads) = 3
    BY DEF AggregateReads
<1>2. Len(<< >>) = 0
    OBVIOUS
<1> QED BY <1>1, <1>2

\* A process that is gone or stops handles no request.
LEMMA IdleAnswers ==
    ASSUME AnswerInv, request' = Idle, rows' = rows
    PROVE  AnswerParts'
<1>1. request'.status # 0 /\ request'.reads # AggregateReads
    BY IdleType, NoReads
<1>2. ReadSoFar' /\ AggregateIsSnapshot'
    BY <1>1 DEF ReadSoFar, AggregateIsSnapshot
<1> QED BY <1>2 DEF AnswerParts, AnswerInv, OneOutcome

LEMMA SameAnswers ==
    ASSUME AnswerInv, request' = request, rows' = rows
    PROVE  AnswerParts'
<1>1. OneOutcome' /\ AggregateIsSnapshot'
    BY DEF AnswerInv, OneOutcome, AggregateIsSnapshot
<1>2. ReadSoFar'
    BY DEF AnswerInv, ReadSoFar
<1> QED BY <1>1, <1>2 DEF AnswerParts

LEMMA SaveAnswers ==
    ASSUME AnswerInv, NEW t \in Stored, SaveEvent(t)
    PROVE  AnswerParts'
<1>1. /\ rows' = rows \cup {t}
      /\ request'.of = request.of /\ request'.reads = request.reads /\ request'.at = request.at
      /\ request'.got = request.got /\ request'.failed = request.failed /\ request'.status = request.status
      /\ request.status # 0 => request' = request
      /\ request.status = 0 => request'.seen = request.seen \cup {rows'}
    BY SaveRequest DEF AnswerInv
<1>2. OneOutcome'
    BY <1>1 DEF SaveEvent, AnswerInv, OneOutcome, Processed, Expired
<1>3. CASE request.status # 0
    BY <1>1, <1>2, <1>3 DEF AnswerParts, AnswerInv, ReadSoFar, AggregateIsSnapshot
<1>4. CASE request.status = 0
    <2>1. AggregateIsSnapshot'
        BY <1>1, <1>4 DEF AggregateIsSnapshot
    <2>2. IsTaken(request'.of) /\ rows' \in request'.seen
        BY <1>1, <1>4 DEF AnswerInv, ReadSoFar
    <2>3. ASSUME request'.reads = AggregateReads
          PROVE  /\ request'.at \in 1 .. 3
                 /\ request'.got = IF request'.at = 1 THEN {} ELSE {Accepted}
                 /\ request'.at # 1 => Accepted \in rows'
        BY <1>1, <1>4, <2>3 DEF AnswerInv, ReadSoFar
    <2>4. ASSUME request'.reads = AggregateReads, request'.at = 3, ~request'.failed
          PROVE  \E held \in request'.seen : Accepted \in held /\ Processed \notin held /\ held \subseteq rows'
        <3>1. PICK held \in request.seen : Accepted \in held /\ Processed \notin held /\ held \subseteq rows
            BY <1>1, <1>4, <2>4 DEF AnswerInv, ReadSoFar
        <3> QED BY <1>1, <1>4, <3>1
    <2>5. ReadSoFar'
        BY <2>2, <2>3, <2>4 DEF ReadSoFar
    <2> QED BY <1>2, <2>1, <2>5 DEF AnswerParts
<1> QED BY <1>3, <1>4

LEMMA AskAnswers ==
    ASSUME AnswerInv, NEW r \in Requests, Ask(r)
    PROVE  AnswerParts'
<1>1. /\ request'.of = r /\ request'.reads = ReadsOf(r) /\ request'.at = 1
      /\ request'.got = {} /\ request'.seen = {rows}
      /\ request'.status = 0 <=> ReadsOf(r) # << >>
    BY AskRequest DEF AnswerInv
<1>2. rows' = rows
    BY DEF Ask, store
<1>3. request'.status = 0 => IsTaken(r)
    BY <1>1 DEF ReadsOf
<1>4. AggregateIsSnapshot'
    BY <1>1, NoReads DEF AggregateIsSnapshot
<1>5. ReadSoFar'
    BY <1>1, <1>2, <1>3 DEF ReadSoFar
<1> QED BY <1>2, <1>4, <1>5 DEF AnswerParts, AnswerInv, OneOutcome

LEMMA Positions ==
    /\ Len(AggregateReads) = 3
    /\ AggregateReads[1] = Accepted /\ AggregateReads[2] = Processed /\ AggregateReads[3] = Expired
    /\ Accepted # Processed /\ Accepted # Expired /\ Processed # Expired
BY DEF AggregateReads, Accepted, Processed, Expired

\* The statement on each of the three tables.
LEMMA ReadAccepted ==
    ASSUME AnswerInv, NEW result, Read(result), request.reads = AggregateReads, request.at = 1
    PROVE  ReadSoFar' /\ AggregateIsSnapshot'
<1>1. PICK got : got = IF result = "found" THEN request.got \cup {Accepted} ELSE request.got
    OBVIOUS
<1>2. PICK last : last = IsLast(request.reads, request.at, got, result)
    OBVIOUS
<1>3. request.reads[request.at] = Accepted /\ IsNeeded(request.reads, Accepted)
    BY Positions DEF IsNeeded
<1>4. /\ request.status = 0 /\ result \in Results(Accepted, rows) /\ rows' = rows
      /\ request'.of = request.of /\ request'.reads = request.reads /\ request'.seen = request.seen
      /\ request'.got = got
      /\ request'.at = IF last THEN request.at ELSE request.at + 1
      /\ request'.failed <=> request.failed \/ result \in ReadErrors
      /\ request'.status = IF last THEN StatusOf(Rejections(request.of, result)) ELSE 0
    BY <1>1, <1>2, <1>3, ReadRequest DEF AnswerInv
<1>5. request.got = {} /\ rows \in request.seen /\ IsTaken(request.of)
    BY <1>4 DEF AnswerInv, ReadSoFar
<1>6. CASE result = "found"
    <2>1. got = {Accepted} /\ Accepted \in rows
        BY <1>1, <1>4, <1>5, <1>6 DEF Results, ReadErrors
    <2>2. ~last
        BY <1>2, <1>3, <1>6, <2>1, Positions DEF IsLast
    <2>3. request'.at = 2 /\ request'.status = 0
        BY <1>4, <2>2
    <2> QED BY <1>4, <1>5, <2>1, <2>3 DEF ReadSoFar, AggregateIsSnapshot
<1>7. CASE result # "found"
    <2>1. last
        BY <1>2, <1>3, <1>7 DEF IsLast
    <2>2. request'.status # 0
        BY <1>4, <2>1, StatusTypes
    <2>3. ASSUME ~request'.failed
          PROVE  request'.status = 404 /\ Accepted \notin rows
        <3>1. result = "missing" /\ Accepted \notin rows
            BY <1>4, <1>7, <2>3 DEF Results, ReadErrors
        <3>2. Rejections(request.of, result) = {"InvalidPath"} \cup {"missing"}
            BY <1>5, <3>1 DEF Rejections
        <3> QED BY <1>4, <2>1, <3>1, <3>2, StatusOfMissing
    <2> QED BY <1>4, <1>5, <2>2, <2>3 DEF ReadSoFar, AggregateIsSnapshot
<1> QED BY <1>6, <1>7

LEMMA ReadOutcome ==
    ASSUME AnswerInv, NEW result, Read(result), request.reads = AggregateReads, request.at \in {2, 3},
           NEW table, table = IF request.at = 2 THEN Processed ELSE Expired,
           NEW got, got = IF result = "found" THEN {Accepted, table} ELSE {Accepted}
    PROVE  /\ request.status = 0 /\ result \in Results(table, rows) /\ rows' = rows
           /\ Accepted \in rows /\ rows \in request.seen /\ IsTaken(request.of)
           /\ request'.of = request.of /\ request'.reads = request.reads /\ request'.seen = request.seen
           /\ request'.got = got
           /\ request'.failed <=> request.failed \/ result \in ReadErrors
           /\ IF request.at = 2 /\ result # "found"
              THEN request'.at = 3 /\ request'.status = 0
              ELSE request'.status = 200
<1>1. request.status = 0
    BY DEF Read
<1>2. request.got = {Accepted} /\ Accepted \in rows /\ rows \in request.seen /\ IsTaken(request.of)
    <2>1. request.at # 1
        OBVIOUS
    <2>2. request.got = IF request.at = 1 THEN {} ELSE {Accepted}
        BY <1>1, Zenon DEF AnswerInv, ReadSoFar
    <2>3. Accepted \in rows /\ rows \in request.seen /\ IsTaken(request.of)
        BY <1>1, <2>1, Zenon DEF AnswerInv, ReadSoFar
    <2> QED BY <2>1, <2>2, <2>3
<1>3. got = (IF result = "found" THEN request.got \cup {table} ELSE request.got)
    BY <1>2
<1>4. /\ request.reads[request.at] = table /\ ~IsNeeded(request.reads, table)
      /\ "found" = (IF IsNeeded(request.reads, table) THEN result ELSE "found")
    <2>1. ~IsNeeded(request.reads, table)
        BY Positions DEF IsNeeded
    <2> QED BY <2>1, Positions
<1>5. PICK last : last = IsLast(request.reads, request.at, got, result)
    OBVIOUS
<1>6. /\ result \in Results(table, rows) /\ rows' = rows
      /\ request'.of = request.of /\ request'.reads = request.reads /\ request'.seen = request.seen
      /\ request'.got = got
      /\ request'.at = IF last THEN request.at ELSE request.at + 1
      /\ request'.failed <=> request.failed \/ result \in ReadErrors
      /\ request'.status = IF last THEN StatusOf(Rejections(request.of, "found")) ELSE 0
    <2>1. TypeInv
        BY DEF AnswerInv
    <2>2. PICK at, outcome : /\ at = request.reads[request.at]
                             /\ outcome = (IF IsNeeded(request.reads, at) THEN result ELSE "found")
        BY Zenon
    <2>3. at = table /\ outcome = "found"
        BY <1>4, <2>2, Zenon
    <2>4. got = (IF result = "found" THEN request.got \cup {at} ELSE request.got)
        BY <1>3, <2>3, Zenon
    <2>5. /\ result \in Results(at, rows) /\ rows' = rows
          /\ request'.of = request.of /\ request'.reads = request.reads /\ request'.seen = request.seen
          /\ request'.got = got
          /\ request'.at = IF last THEN request.at ELSE request.at + 1
          /\ request'.failed <=> request.failed \/ result \in ReadErrors
          /\ request'.status = IF last THEN StatusOf(Rejections(request.of, outcome)) ELSE 0
        BY <1>5, <2>1, <2>2, <2>4, ReadRequest, SMT
    <2> QED BY <2>3, <2>5
<1>7. StatusOf(Rejections(request.of, "found")) = 200
    BY StatusOfMissing DEF Rejections
<1>8. last <=> ~(request.at = 2 /\ result # "found")
    <2>1. {Accepted, Processed} \subseteq got <=> request.at = 2 /\ result = "found"
        BY Positions
    <2>2. last <=> ({Accepted, Processed} \subseteq got \/ request.at = 3)
        BY <1>4, <1>5, Positions DEF IsLast
    <2> QED BY <2>1, <2>2
<1> QED BY <1>1, <1>2, <1>6, <1>7, <1>8

LEMMA ReadProcessed ==
    ASSUME AnswerInv, NEW result, Read(result), request.reads = AggregateReads, request.at = 2
    PROVE  ReadSoFar' /\ AggregateIsSnapshot'
<1>1. PICK got : got = IF result = "found" THEN {Accepted, Processed} ELSE {Accepted}
    OBVIOUS
<1>2. /\ request.status = 0 /\ result \in Results(Processed, rows) /\ rows' = rows
      /\ Accepted \in rows /\ rows \in request.seen /\ IsTaken(request.of)
      /\ request'.of = request.of /\ request'.reads = request.reads /\ request'.seen = request.seen
      /\ request'.got = got
      /\ request'.failed <=> request.failed \/ result \in ReadErrors
      /\ result # "found" => request'.at = 3 /\ request'.status = 0
      /\ result = "found" => request'.status = 200
    BY <1>1, ReadOutcome
<1>3. CASE result = "found"
    <2>1. Processed \in rows /\ Expired \notin rows
        BY <1>2, <1>3 DEF Results, ReadErrors, AnswerInv, OneOutcome
    <2>2. request'.got = rows \cap {Accepted, Processed, Expired}
        BY <1>1, <1>2, <1>3, <2>1
    <2> QED BY <1>2, <1>3, <2>2 DEF ReadSoFar, AggregateIsSnapshot
<1>4. CASE result # "found"
    <2>1. ~request'.failed => Processed \notin rows
        BY <1>2, <1>4 DEF Results, ReadErrors
    <2> QED BY <1>1, <1>2, <1>4, <2>1 DEF ReadSoFar, AggregateIsSnapshot
<1> QED BY <1>3, <1>4

LEMMA ReadExpired ==
    ASSUME AnswerInv, NEW result, Read(result), request.reads = AggregateReads, request.at = 3
    PROVE  ReadSoFar' /\ AggregateIsSnapshot'
<1>1. PICK got : got = IF result = "found" THEN {Accepted, Expired} ELSE {Accepted}
    OBVIOUS
<1>2. /\ request.status = 0 /\ result \in Results(Expired, rows) /\ rows' = rows
      /\ Accepted \in rows /\ rows \in request.seen
      /\ request'.seen = request.seen /\ request'.got = got /\ request'.status = 200
      /\ request'.failed <=> request.failed \/ result \in ReadErrors
    BY <1>1, ReadOutcome
<1>3. CASE result = "found"
    <2>1. Expired \in rows /\ Processed \notin rows
        BY <1>2, <1>3 DEF Results, ReadErrors, AnswerInv, OneOutcome
    <2>2. request'.got = rows \cap {Accepted, Processed, Expired}
        BY <1>1, <1>2, <1>3, <2>1
    <2> QED BY <1>2, <2>2 DEF ReadSoFar, AggregateIsSnapshot
<1>4. CASE result # "found" /\ ~request'.failed
    <2>1. Expired \notin rows
        BY <1>2, <1>4 DEF Results, ReadErrors
    <2>2. PICK held \in request.seen : Accepted \in held /\ Processed \notin held /\ held \subseteq rows
        BY <1>2, <1>4 DEF AnswerInv, ReadSoFar
    <2>3. request'.got = held \cap {Accepted, Processed, Expired}
        BY <1>1, <1>2, <1>4, <2>1, <2>2
    <2> QED BY <1>2, <2>2, <2>3 DEF ReadSoFar, AggregateIsSnapshot
<1>5. CASE request'.failed
    BY <1>2, <1>5 DEF ReadSoFar, AggregateIsSnapshot
<1> QED BY <1>3, <1>4, <1>5

LEMMA ReadAnswers ==
    ASSUME AnswerInv, NEW result, Read(result)
    PROVE  AnswerParts'
<1>1. /\ request.status = 0 /\ rows' = rows
      /\ request'.of = request.of /\ request'.reads = request.reads /\ request'.seen = request.seen
    BY ReadRequest DEF AnswerInv
<1>2. OneOutcome'
    BY <1>1 DEF AnswerInv, OneOutcome
<1>3. CASE request.reads = AggregateReads
    <2>1. request.at \in 1 .. 3
        BY <1>1, <1>3 DEF AnswerInv, ReadSoFar
    <2>2. request.at = 1 \/ request.at = 2 \/ request.at = 3
        BY <2>1
    <2> QED BY <1>2, <1>3, <2>2, ReadAccepted, ReadProcessed, ReadExpired DEF AnswerParts
<1>4. CASE request.reads # AggregateReads
    BY <1>1, <1>2, <1>4 DEF AnswerParts, AnswerInv, ReadSoFar, AggregateIsSnapshot
<1> QED BY <1>3, <1>4

LEMMA NextAnswers == AnswerInv /\ [Next]_vars => AnswerInv'
<1> SUFFICES ASSUME AnswerInv, [Next]_vars PROVE AnswerInv'
    OBVIOUS
<1>1. TypeInv'
    BY NextTypes DEF AnswerInv
<1>2. AnswerParts'
    <2>1. CASE \/ Start \/ Run \/ TakeId \/ UNCHANGED vars
               \/ \E c \in Components : PrepareAtOnce(c) \/ PrepareAfterWait(c) \/ AcquireDatabase(c)
               \/ RunInitialMigration \/ ReadNewestVersion \/ ExecuteMigration \/ MigrationFails \/ StoreVersion
        <3>1. request' = request /\ rows' = rows
            BY <2>1 DEF Start, Run, TakeId, vars, process, store, PrepareAtOnce, PrepareAfterWait, Prepared,
                        AcquireDatabase, RunInitialMigration, ReadNewestVersion, ExecuteMigration, MigrationFails,
                        StoreVersion, buildVars
        <3> QED BY <3>1, SameAnswers
    <2>2. CASE \/ \E c \in Components : PrepareFails(c) \/ StartupTimesOut(c) \/ ComponentEnds(c)
               \/ RefuseAfterFailure \/ StoreFailedVersion \/ DatabaseFails
               \/ Signal \/ DropIndexer \/ WriteFails \/ Crash
        <3>1. request' = Idle /\ rows' = rows
            BY <2>2 DEF PrepareFails, StartupTimesOut, ComponentEnds, RefuseAfterFailure, StoreFailedVersion,
                        DatabaseFails, Signal, DropIndexer, WriteFails, Crash, Return, Gone, store
        <3> QED BY <3>1, IdleAnswers
    <2> QED BY <2>1, <2>2, SaveAnswers, AskAnswers, ReadAnswers DEF Next
<1> QED BY <1>1, <1>2 DEF AnswerInv, AnswerParts

\* GET /transaction/<hash> reads three tables without a transaction around them
\* while events are saved; still its answer is one state of the store, because
\* the acceptance is read first and a transaction has one outcome.
THEOREM AggregatesAreSnapshots == Spec => []AggregateIsSnapshot
<1>1. Init => AnswerInv
    <2> SUFFICES ASSUME Init PROVE AnswerInv
        OBVIOUS
    <2>1. request.status # 0 /\ request.reads # AggregateReads
        BY IdleType, NoReads DEF Init
    <2>2. OneOutcome
        BY DEF Init, OneOutcome
    <2> QED BY <2>1, <2>2, InitTypes DEF AnswerInv, ReadSoFar, AggregateIsSnapshot
<1>2. AnswerInv => AggregateIsSnapshot
    BY DEF AnswerInv
<1> QED BY <1>1, <1>2, NextAnswers, PTL DEF Spec
-----------------------------------------------------------------------------
\* The event ids.

\* How far an id is before a mark, within one round of the ids.
LEMMA BackRange ==
    ASSUME NEW i \in Ids, NEW mark \in Ids
    PROVE  Back(i, mark) \in 1 .. IdCount /\ Back(mark, mark) = IdCount
BY Sizes DEF Ids, Back

LEMMA BackNext ==
    ASSUME NEW i \in Ids, NEW mark \in Ids, IdCount > 1
    PROVE  Back(i, NextIndex(mark)) = IF i = mark THEN 1 ELSE Back(i, mark) + 1
<1>1. NextIndex(mark) = IF mark + 1 = IdCount THEN 0 ELSE mark + 1
    BY NextIndexValue
<1>2. IdCount \in Nat /\ i \in 0 .. IdCount - 1 /\ mark \in 0 .. IdCount - 1
    BY Sizes DEF Ids
<1>3. CASE mark + 1 = IdCount
    BY <1>1, <1>2, <1>3 DEF Back
<1>4. CASE mark + 1 # IdCount
    BY <1>1, <1>2, <1>4 DEF Back
<1> QED BY <1>3, <1>4

LEMMA MarkType ==
    ASSUME TypeInv
    PROVE  Mark \in Ids
BY Sizes DEF Mark, LoadIndex, TypeInv, Types, TypeOK

LEMMA SameMark ==
    ASSUME GivenBefore, Mark' = Mark, given' = given
    PROVE  GivenBefore'
<1>1. PICK m, n : m = Mark /\ n = Cardinality(given)
    OBVIOUS
<1>2. Mark' = m /\ Cardinality(given)' = n
    BY <1>1
<1> QED BY <1>1, <1>2 DEF GivenBefore

LEMMA NoneGiven ==
    ASSUME TypeInv', given' = {}
    PROVE  GivenBefore'
<1>1. PICK m : m = Mark'
    OBVIOUS
<1>2. m \in Ids
    BY <1>1, Sizes DEF Mark, LoadIndex, TypeInv, Types, TypeOK
<1>3. IsFiniteSet({}) /\ Cardinality({}) = 0
    BY FS_EmptySet
<1>4. \A i \in Ids : ~(Back(i, m) <= 0)
    BY <1>2, BackRange, Sizes
<1>5. IsFiniteSet(given') /\ Cardinality(given') = 0 /\ MaxPublished \in Nat
    BY <1>3, Sizes
<1>6. given' = {i \in Ids : Back(i, m) <= Cardinality(given')}
    BY <1>4, <1>5
<1> QED BY <1>1, <1>5, <1>6 DEF GivenBefore

LEMMA TakeIdKeepsIds ==
    ASSUME IdInv, TakeId
    PROVE  GivenBefore'
<1>1. PICK m, n : m = index /\ n = Cardinality(given)
    OBVIOUS
<1>2. /\ phase = "running" /\ "sse" \in prepared /\ n < MaxPublished
      /\ given' = given \cup {m} /\ index' = NextIndex(m) /\ phase' = phase /\ prepared' = prepared
    BY <1>1 DEF TakeId, Serves, process
<1>3. Mark = m /\ Mark' = NextIndex(m) /\ m \in Ids
    BY <1>1, <1>2 DEF Mark, IdInv, TypeInv, Types, TypeOK
<1>4. /\ IsFiniteSet(given) /\ given = {i \in Ids : Back(i, m) <= n}
    BY <1>1, <1>3 DEF IdInv, GivenBefore
<1>5. n \in Nat
    BY <1>1, <1>4, FS_CardinalityType
<1>6. m \notin given
    <2>1. Back(m, m) = IdCount /\ n < IdCount
        BY <1>2, <1>3, <1>5, BackRange, Sizes
    <2> QED BY <1>4, <1>5, <2>1, Sizes
<1>7. IsFiniteSet(given') /\ Cardinality(given') = n + 1
    BY <1>1, <1>2, <1>4, <1>6, FS_AddElement
<1>8. IdCount > 1
    BY <1>2, <1>5, Sizes
<1>9. \A i \in Ids : i \in given' <=> Back(i, NextIndex(m)) <= n + 1
    <2> SUFFICES ASSUME NEW i \in Ids
                 PROVE  i \in given' <=> Back(i, NextIndex(m)) <= n + 1
        OBVIOUS
    <2>1. Back(i, NextIndex(m)) = IF i = m THEN 1 ELSE Back(i, m) + 1
        BY <1>3, <1>8, BackNext
    <2>2. Back(i, m) \in 1 .. IdCount
        BY <1>3, BackRange
    <2>3. CASE i = m
        BY <1>2, <1>5, <2>1, <2>3
    <2>4. CASE i # m
        BY <1>2, <1>4, <1>5, <2>1, <2>2, <2>4, Sizes
    <2> QED BY <2>3, <2>4
<1>10. given' \subseteq Ids
    BY <1>2, <1>3, <1>4
<1>11. given' = {i \in Ids : Back(i, NextIndex(m)) <= n + 1}
    BY <1>9, <1>10
<1> QED BY <1>2, <1>3, <1>5, <1>7, <1>11, Sizes DEF GivenBefore

\* Nothing but the index and the file moves the mark: a process that ends
\* without running the event stream server leaves the file as it was.
LEMMA MarkAtEnds ==
    ASSUME TypeInv
    PROVE  /\ Gone /\ UNCHANGED <<file, index>> /\ ~(phase \in {"running", "stopping"} /\ "sse" \in prepared)
                 => Mark' = Mark
           /\ DropIndexer => Mark' = Mark
           /\ UNCHANGED <<file, index, phase, prepared>> => Mark' = Mark
           /\ Run => Mark' = Mark
<1>1. Gone => Mark' = LoadIndex'
    BY DEF Gone, Mark
<1>2. UNCHANGED file => LoadIndex' = LoadIndex
    BY DEF LoadIndex
<1>3. ~(phase \in {"running", "stopping"} /\ "sse" \in prepared) => Mark = LoadIndex
    BY DEF Mark
<1>4. DropIndexer => Mark' = Mark
    <2> SUFFICES ASSUME DropIndexer PROVE Mark' = Mark
        OBVIOUS
    <2>1. Mark = index
        BY DEF DropIndexer, Mark, TypeInv, Progress
    <2>2. file' = index /\ index # NoIndex
        BY Sizes DEF DropIndexer, NoIndex, TypeInv, Types, TypeOK
    <2>3. Mark' = index
        BY <1>1, <2>2 DEF DropIndexer, LoadIndex
    <2> QED BY <2>1, <2>3
<1>5. UNCHANGED <<file, index, phase, prepared>> => Mark' = Mark
    BY DEF Mark, LoadIndex
<1>6. Run => Mark' = Mark
    <2> SUFFICES ASSUME Run PROVE Mark' = Mark
        OBVIOUS
    <2>1. /\ phase = "preparing" /\ phase' = "running" /\ prepared' = prepared /\ file' = file
          /\ index' = IF "sse" \in prepared THEN LoadIndex ELSE index
        BY RunTypes DEF Run
    <2>2. Mark = LoadIndex
        BY <2>1 DEF Mark
    <2>3. CASE "sse" \in prepared
        BY <2>1, <2>2, <2>3 DEF Mark
    <2>4. CASE "sse" \notin prepared
        BY <1>2, <2>1, <2>2, <2>4 DEF Mark
    <2> QED BY <2>3, <2>4
<1> QED BY <1>1, <1>2, <1>3, <1>4, <1>5, <1>6

LEMMA NextIds == IdInv /\ [Next]_vars => IdInv'
<1> SUFFICES ASSUME IdInv, [Next]_vars PROVE IdInv'
    OBVIOUS
<1>1. TypeInv /\ GivenBefore /\ TypeInv'
    BY NextTypes DEF IdInv
<1>2. CASE TakeId
    BY <1>1, <1>2, TakeIdKeepsIds DEF IdInv
<1>3. CASE WriteFails \/ (Crash /\ phase # "preparing")
    <2>1. given' = {}
        BY <1>3 DEF WriteFails, Crash
    <2> QED BY <1>1, <2>1, NoneGiven DEF IdInv
<1>4. CASE Mark' = Mark /\ given' = given
    BY <1>1, <1>4, SameMark DEF IdInv
<1>5. CASE Start
    <2>1. Mark = LoadIndex /\ Mark' = LoadIndex' /\ LoadIndex' = LoadIndex /\ given' = given
        BY <1>5 DEF Start, Mark, LoadIndex, ids
    <2> QED BY <1>4, <2>1
<1>6. CASE \E c \in Components : PrepareAtOnce(c) \/ PrepareAfterWait(c)
    <2>1. phase = "preparing" /\ phase' = "preparing" /\ UNCHANGED ids
        BY <1>6 DEF PrepareAtOnce, PrepareAfterWait, Preparing, Prepared
    <2>2. Mark' = Mark /\ given' = given
        BY <2>1 DEF Mark, LoadIndex, ids
    <2> QED BY <1>4, <2>2
<1>7. CASE \/ \E c \in Components : AcquireDatabase(c)
           \/ RunInitialMigration \/ ReadNewestVersion \/ ExecuteMigration \/ MigrationFails \/ StoreVersion
           \/ \E t \in Stored : SaveEvent(t)
           \/ \E r \in Requests : Ask(r)
           \/ \E result \in {"found", "missing"} \cup ReadErrors : Read(result)
           \/ UNCHANGED vars
    <2>1. UNCHANGED <<file, index, phase, prepared, given>>
        BY <1>7 DEF AcquireDatabase, RunInitialMigration, ReadNewestVersion, ExecuteMigration, MigrationFails,
                    StoreVersion, buildVars, SaveEvent, Ask, Read, ids, vars, process
    <2> QED BY <1>1, <1>4, <2>1, MarkAtEnds
<1>8. CASE \/ \E c \in Components : PrepareFails(c) \/ StartupTimesOut(c)
           \/ RefuseAfterFailure \/ StoreFailedVersion \/ DatabaseFails
           \/ Crash /\ phase = "preparing"
    <2>1. phase = "preparing"
        BY <1>1, <1>8 DEF PrepareFails, StartupTimesOut, Preparing, RefuseAfterFailure, StoreFailedVersion,
                          DatabaseFails, TypeInv, Types, TypeOK
    <2>2. Gone /\ UNCHANGED <<file, index, given>>
        BY <1>8 DEF PrepareFails, StartupTimesOut, RefuseAfterFailure, StoreFailedVersion, DatabaseFails, Crash, ids
    <2> QED BY <1>1, <1>4, <2>1, <2>2, MarkAtEnds
<1>9. CASE (\E c \in Components : ComponentEnds(c)) \/ Signal
    <2>1. Return /\ phase # "stopping"
        BY <1>9 DEF ComponentEnds, Signal, Serves
    <2>2. UNCHANGED <<file, index, given>>
        BY <2>1 DEF Return, ids
    <2>3. CASE Serves("sse")
        <3>1. phase' = "stopping" /\ prepared' = prepared /\ phase = "running"
            BY <2>1, <2>3 DEF Return, Serves
        <3>2. Mark' = Mark
            BY <2>2, <2>3, <3>1 DEF Mark, Serves
        <3> QED BY <1>4, <2>2, <3>2
    <2>4. CASE ~Serves("sse")
        <3>1. Gone /\ ~(phase \in {"running", "stopping"} /\ "sse" \in prepared)
            BY <2>1, <2>4 DEF Return, Serves
        <3> QED BY <1>1, <1>4, <2>2, <3>1, MarkAtEnds
    <2> QED BY <2>3, <2>4
<1>10. CASE Run \/ DropIndexer
    <2>1. given' = given
        BY <1>10 DEF Run, DropIndexer
    <2> QED BY <1>1, <1>4, <1>10, <2>1, MarkAtEnds
<1> QED BY <1>2, <1>3, <1>5, <1>6, <1>7, <1>8, <1>9, <1>10 DEF Next

\* EventIndexer reads its file at the start and writes it when it is dropped: no
\* event id is used twice over all the starts since the index was last lost, also
\* where the ids wrap.
THEOREM IdsNeverRepeat == Spec => []IdsContinue
<1>1. Init => IdInv
    <2> SUFFICES ASSUME Init PROVE IdInv
        OBVIOUS
    <2>1. TypeInv /\ given = {}
        BY InitTypes DEF Init
    <2>2. IsFiniteSet({}) /\ Cardinality({}) = 0 /\ MaxPublished \in Nat
        BY FS_EmptySet, Sizes
    <2>3. PICK m \in Ids : m = Mark
        BY <2>1, MarkType
    <2>4. \A i \in Ids : ~(Back(i, m) <= 0)
        BY BackRange, Sizes
    <2>5. GivenBefore
        BY <2>1, <2>2, <2>3, <2>4 DEF GivenBefore
    <2> QED BY <2>1, <2>5 DEF IdInv
<1>2. IdInv => IdsContinue
    <2> SUFFICES ASSUME IdInv, Serves("sse") PROVE index \notin given
        BY DEF IdsContinue
    <2>1. PICK m, n : m = index /\ n = Cardinality(given)
        OBVIOUS
    <2>2. Mark = m /\ m \in Ids
        BY <2>1 DEF Serves, Mark, IdInv, TypeInv, Types, TypeOK
    <2>3. IsFiniteSet(given) /\ n <= MaxPublished /\ given = {i \in Ids : Back(i, m) <= n}
        BY <2>1, <2>2 DEF IdInv, GivenBefore
    <2>4. n \in Nat
        BY <2>1, <2>3, FS_CardinalityType
    <2>5. Back(m, m) = IdCount /\ ~(IdCount <= n)
        BY <2>2, <2>3, <2>4, BackRange, Sizes
    <2> QED BY <2>1, <2>3, <2>5
<1> QED BY <1>1, <1>2, NextIds, PTL DEF Spec
=============================================================================
