------------------------------ MODULE Registry ------------------------------
(* The sqlite projection of the journal: tables of rows, a key-value table,  *)
(* and the reducer that applies one marker's mutation to them.  A table is a *)
(* function from primary key to row; a row keeps the tx that wrote it and    *)
(* the rowid its INSERT took.  Every column is a value the rest of the       *)
(* project gives it; JSON columns are the values they hold.                  *)
EXTENDS Integers, Sequences, FiniteSets, Functions, SequencesExt

CONSTANT NoValue   \* SQL NULL

(* Primary keys of the tables created for the journal's own evidence.        *)
EvidenceKeys ==
    [events |-> <<"workspace", "source", "stream", "seq", "hash">>,
     native_objects |-> <<"profile", "namespace", "type", "object_id", "commitment">>,
     transport_cursors |-> <<"instance", "cursor">>,
     runs |-> <<"legacy_namespace", "ulid">>,
     products |-> <<"slug", "instance", "generation">>,
     operations |-> <<"principal", "id">>,
     approvals |-> <<"home", "request", "revision">>,
     grants |-> <<"peer", "key", "revision">>,
     outbox |-> <<"id">>,
     pairs |-> <<"peer", "key">>,
     subscriptions |-> <<"id">>]

(* Primary keys of the tables the v2 services are served from.               *)
ServiceKeys ==
    [runs_v2 |-> <<"run_id">>, operations_v2 |-> <<"id">>, sources |-> <<"source">>,
     actions |-> <<"key">>, peers |-> <<"id">>, docs |-> <<"kind", "id">>,
     bootstraps |-> <<"hash">>, lifecycle_generations |-> <<"slug", "generation">>]

PrimaryKeys == EvidenceKeys @@ ServiceKeys

(* The tables a rebuild wipes; the key-value table and the catalog row are   *)
(* not among them.                                                           *)
\* Mutant: a rebuild that keeps the generations it finds.
DataTablesButGenerations == DOMAIN PrimaryKeys \ {"lifecycle_generations"}
DataTables == DOMAIN PrimaryKeys

EmptyTable == [key \in {} |-> NoValue]
EmptyDb == [t |-> [table \in DOMAIN PrimaryKeys |-> EmptyTable],
            kv |-> EmptyTable, catalog |-> EmptyTable, last |-> 0]

Wiped(db) == [db EXCEPT !.t = [table \in DOMAIN PrimaryKeys |->
                                 IF table \in DataTables THEN EmptyTable ELSE @[table]]]

(* --------------------------------- rows ---------------------------------- *)

KeyOf(table, row) ==
    IF Len(PrimaryKeys[table]) = 1 THEN row[PrimaryKeys[table][1]]
    ELSE [i \in DOMAIN PrimaryKeys[table] |-> row[PrimaryKeys[table][i]]]

Rows(db, table) == Range(db.t[table])
Get(db, table, key) == IF key \in DOMAIN db.t[table] THEN db.t[table][key] ELSE NoValue
RowsWhere(db, table, Test(_)) == {row \in Rows(db, table) : Test(row)}

NextRowid(db, table) ==
    IF Rows(db, table) = {} THEN 1 ELSE 1 + Max({row.rowid : row \in Rows(db, table)})

(* INSERT OR REPLACE: the row moves to the end of the rowid order.           *)
Replaced(db, table, row, tx) ==
    LET key == KeyOf(table, row)
        rest == [db EXCEPT !.t[table] = Restrict(@, DOMAIN @ \ {key})] IN
    [rest EXCEPT !.t[table] = (key :> (row @@ [tx |-> tx, rowid |-> NextRowid(rest, table)])) @@ @]

(* INSERT OR IGNORE: an existing primary key keeps its row.                  *)
Inserted(db, table, row, tx) ==
    IF KeyOf(table, row) \in DOMAIN db.t[table] THEN db ELSE Replaced(db, table, row, tx)

ReplacedAll(db, table, rows, tx) == FoldLeft(LAMBDA d, row : Replaced(d, table, row, tx), db, rows)

(* UPDATE ... SET with the columns of change, for the rows Test selects.     *)
Updated(db, table, Test(_), change) ==
    [db EXCEPT !.t[table] = [key \in DOMAIN @ |-> IF Test(@[key]) THEN change @@ @[key] ELSE @[key]]]

InRowidOrder(rows) == SetToSortSeq(rows, LAMBDA a, b : a.rowid < b.rowid)

KvGet(db, key) == IF key \in DOMAIN db.kv THEN db.kv[key] ELSE NoValue
KvSet(db, key, value) ==
    [db EXCEPT !.kv = IF value = NoValue THEN Restrict(@, DOMAIN @ \ {key}) ELSE (key :> value) @@ @]

(* -------------------------------- events --------------------------------- *)

SameSlot(a, b) == \A c \in {"workspace", "source", "stream", "seq"} : a[c] = b[c]

Flagged(db, e, Candidate(_)) ==
    LET slot == RowsWhere(db, "events", LAMBDA row : SameSlot(row, e)) IN
    Updated(db, "events", LAMBDA row : SameSlot(row, e),
            [conflict |-> Cardinality({Candidate(row) : row \in slot}) > 1])

(* A legacy entry: candidates of a slot are told apart by their hash.        *)
UpsertEvent(db, e, tx) ==
    Flagged(Inserted(db, "events", [conflict |-> FALSE] @@ e, tx), e, LAMBDA row : row.hash)

(* A core entry takes cursor, order and lane from the committed record it    *)
(* names, when it names one; at is the resolver's answer for the marker's    *)
(* records.  Candidates are told apart by their raw bytes, but the primary   *)
(* key has no raw digest: a second candidate of one hash is not inserted.    *)
Located(e, at) ==
    IF "record" \in DOMAIN e /\ e.record \in DOMAIN at
    THEN [cursor |-> at[e.record].cursor, order |-> at[e.record].order, lane |-> at[e.record].lane] @@ e
    ELSE e

UpsertEventV2(db, e, tx, at) ==
    LET same == RowsWhere(db, "events",
                          LAMBDA row : SameSlot(row, e) /\ row.hash = e.hash /\ row.raw_sha256 = e.raw_sha256)
        with == IF same # {} THEN db ELSE Inserted(db, "events", [conflict |-> FALSE] @@ Located(e, at), tx)
        flagged == Flagged(with, e, LAMBDA row : row.raw_sha256) IN
    IF "conflict" \in DOMAIN e /\ e.conflict
    THEN Updated(flagged, "events", LAMBDA row : SameSlot(row, e), [conflict |-> TRUE])
    ELSE flagged

IsEventEntryV2(e) == "raw_sha256" \in DOMAIN e

ApplyEvents(db, events, tx, at) ==
    FoldLeft(LAMBDA d, e : IF IsEventEntryV2(e) THEN UpsertEventV2(d, e, tx, at) ELSE UpsertEvent(d, e, tx),
             db, events)

(* ------------------------------- mutations ------------------------------- *)

(* A run or an operation entry of the services goes to its own table.        *)
RunTable(r) == IF "run_id" \in DOMAIN r THEN "runs_v2" ELSE "runs"
OperationTable(o) == IF "slug" \in DOMAIN o THEN "operations_v2" ELSE "operations"

(* An active product deactivates the other generations of its instance.      *)
ApplyProducts(db, products, tx) ==
    FoldLeft(LAMBDA d, p :
                 Replaced(IF p.active
                          THEN Updated(d, "products",
                                       LAMBDA row : row.slug = p.slug /\ row.instance = p.instance,
                                       [active |-> FALSE])
                          ELSE d, "products", p, tx), db, products)

(* An action is keyed by its receipt pointer and found by its object id.     *)
ActionRow(a) == [key |-> a.pointer, object_id |-> a.nativeRef.object_id] @@ a

ApplyDocs(db, docs, tx) ==
    FoldLeft(LAMBDA d, e :
                 IF e.doc = NoValue
                 THEN [d EXCEPT !.t["docs"] = Restrict(@, DOMAIN @ \ {<<e.kind, e.id>>})]
                 ELSE Replaced(d, "docs", e, tx), db, docs)

ApplyKv(db, entries) == FoldLeft(LAMBDA d, e : KvSet(d, e.key, e.value), db, entries)

(* The one-use consume: the outcome is recorded under the tx that asked.     *)
Takeable(row, m) == row.hash = m.hash /\ ~row.consumed /\ row.epoch = m.epoch
TookKey(tx) == <<"bootstrap:took", tx>>
ApplyTake(db, m, tx) ==
    LET took == \E row \in Rows(db, "bootstraps") : Takeable(row, m) IN
    KvSet(Updated(db, "bootstraps", LAMBDA row : Takeable(row, m), [consumed |-> TRUE, tx |-> tx]),
          TookKey(tx), took)

(* Generation rows are written whole, with the active flag their row has;    *)
(* the compare-and-swap looks at the active row of the slug and resolves the *)
(* next one before it deactivates anything.                                  *)
GenerationOf(row) == IF row = NoValue THEN NoValue ELSE row.generation
ActiveGeneration(db, slug) ==
    LET rows == RowsWhere(db, "lifecycle_generations", LAMBDA row : row.slug = slug /\ row.active) IN
    IF rows = {} THEN NoValue ELSE CHOOSE row \in rows : \A other \in rows : row.rowid <= other.rowid

CasSwaps(db, cas) ==
    /\ GenerationOf(ActiveGeneration(db, cas.slug)) = cas.expected
    /\ cas.next # NoValue => Get(db, "lifecycle_generations", <<cas.slug, cas.next>>) # NoValue

Swapped(db, cas, tx) ==
    LET off == Updated(db, "lifecycle_generations",
                       LAMBDA row : row.slug = cas.slug /\ row.generation = cas.expected,
                       [active |-> FALSE, tx |-> tx]) IN
    Updated(off, "lifecycle_generations", LAMBDA row : row.slug = cas.slug /\ row.generation = cas.next,
            [active |-> TRUE, tx |-> tx])

CasKey(tx) == <<"lifecycle:cas", tx>>
LifecycleRevision(db) == IF KvGet(db, <<"lifecycle:revision">>) = NoValue THEN 0 ELSE KvGet(db, <<"lifecycle:revision">>)

ApplyLifecycle(db, m, tx) ==
    LET rows == ReplacedAll(db, "lifecycle_generations", m.upserts, tx)
        swapped == IF m.cas = NoValue THEN rows
                   ELSE KvSet(IF CasSwaps(rows, m.cas) THEN Swapped(rows, m.cas, tx) ELSE rows,
                              CasKey(tx), CasSwaps(rows, m.cas)) IN
    IF m.upserts # <<>> \/ m.cas # NoValue
    THEN KvSet(swapped, <<"lifecycle:revision">>, LifecycleRevision(db) + 1) ELSE swapped

(* Tables whose entries are their rows.                                      *)
RowKinds == {"native_objects", "approvals", "grants", "outbox", "pairs", "subscriptions", "sources",
             "peers", "bootstraps"}
ApplyRows(db, m, tx) == ReplacedAll(db, m.kind, m.rows, tx)

(* The v1 mutation union.                                                    *)
RECURSIVE ApplyMutation(_, _, _, _)
ApplyMutation(db, m, tx, at) ==
    CASE m.kind = "noop" -> db
      [] m.kind = "batch" -> FoldLeft(LAMBDA d, sub : ApplyMutation(d, sub, tx, at), db, m.mutations)
      [] m.kind = "events" -> ApplyEvents(db, m.events, tx, at)
      [] m.kind = "runs" -> FoldLeft(LAMBDA d, r : Replaced(d, RunTable(r), r, tx), db, m.runs)
      [] m.kind = "products" -> ApplyProducts(db, m.products, tx)
      [] m.kind = "operations" ->
             FoldLeft(LAMBDA d, o : Replaced(d, OperationTable(o), o, tx), db, m.operations)
      [] m.kind = "cursors" -> ReplacedAll(db, "transport_cursors", m.rows, tx)
      [] m.kind \in RowKinds -> ApplyRows(db, m, tx)
      [] m.kind = "actions" ->
             FoldLeft(LAMBDA d, a : Replaced(d, "actions", ActionRow(a), tx), db, m.actions)
      [] m.kind = "kv" -> ApplyKv(db, m.entries)
      [] m.kind = "docs" -> ApplyDocs(db, m.docs, tx)
      [] m.kind = "bootstrap_take" -> ApplyTake(db, m, tx)
      [] m.kind = "lifecycle" -> ApplyLifecycle(db, m, tx)
      [] m.kind = "catalog" -> [db EXCEPT !.catalog = m.meta @@ @]

(* --------------------------------- replay -------------------------------- *)

(* The cursors of a marker's records are indexed before its mutation.        *)
IndexMarkerCursors(db, marker, tx) ==
    ReplacedAll(db, "transport_cursors",
                [i \in 1..Len(marker.records) |->
                    [instance |-> "local", cursor |-> marker.records[i].cursor,
                     order |-> marker.records[i].order]], tx)

ApplyCommit(db, marker, tx) ==
    [ApplyMutation(IndexMarkerCursors(db, marker, tx), marker.mutation, tx, marker.records)
        EXCEPT !.last = tx]

Replay(db, journal, from) ==
    FoldLeft(LAMBDA d, tx : ApplyCommit(d, journal[tx], tx), db,
             [i \in 1..(Len(journal) - from) |-> from + i])

Rebuild(db, journal) == Replay([Wiped(db) EXCEPT !.last = 0], journal, 0)

(* -------------------------------- readers -------------------------------- *)

EventSlotV2(db, workspace, ref) ==
    RowsWhere(db, "events", LAMBDA row : /\ row.workspace = workspace /\ row.source = ref.source
                                         /\ row.stream = ref.stream /\ row.seq = ref.seq)

(* All rows of one lane, by seq; candidates of one slot in any order.        *)
EventLane(db, workspace, source, stream) ==
    LET rows == RowsWhere(db, "events", LAMBDA row : /\ row.workspace = workspace /\ row.source = source
                                                     /\ row.stream = stream) IN
    FlattenSeq([seq \in 1..Max({0} \union {row.seq : row \in rows}) |->
                   InRowidOrder({row \in rows : row.seq = seq})])

(* ORDER BY tx DESC compares decimal text: "9" comes before "10".            *)
Decimal(n) == IF n < 10 THEN <<n>> ELSE <<n \div 10, n % 10>>
TextBefore(a, b) ==
    LET x == Decimal(a) y == Decimal(b) IN
    x[1] < y[1] \/ (x[1] = y[1] /\ (Len(x) < Len(y) \/ (Len(x) = 2 /\ Len(y) = 2 /\ x[2] < y[2])))

ActionByObjectId(db, object) ==
    LET rows == RowsWhere(db, "actions", LAMBDA row : row.object_id = object) IN
    IF rows = {} THEN NoValue
    ELSE CHOOSE row \in rows : \A other \in rows : ~TextBefore(row.tx, other.tx)

DocGet(db, kind, id) ==
    LET row == Get(db, "docs", <<kind, id>>) IN IF row = NoValue THEN NoValue ELSE row.doc
DocsList(db, kind) == InRowidOrder(RowsWhere(db, "docs", LAMBDA row : row.kind = kind))

CountProductsInstalled(db) ==
    Cardinality({row.slug : row \in RowsWhere(db, "lifecycle_generations",
                                              LAMBDA row : row.active /\ row.state \notin {"REMOVED", "FAILED"})})
CountPeers(db) == Cardinality(RowsWhere(db, "docs", LAMBDA row : row.kind = "peer"))

(* --------------------------- entries of a commit ------------------------- *)

Docs(docs) == [kind |-> "docs", docs |-> docs]
Doc(kind, id, doc) == [kind |-> kind, id |-> id, doc |-> doc]
Kv(entries) == [kind |-> "kv", entries |-> entries]
Pair(key, value) == [key |-> key, value |-> value]
Batch(mutations) == [kind |-> "batch", mutations |-> mutations]
Upserts(rows) == [kind |-> "lifecycle", upserts |-> rows, cas |-> NoValue]
Cas(slug, expected, next) ==
    [kind |-> "lifecycle", upserts |-> <<>>, cas |-> [slug |-> slug, expected |-> expected, next |-> next]]
=============================================================================
