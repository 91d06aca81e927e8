------------------------------ MODULE Platform ------------------------------
(* The services one authenticated call is bound to: configuration, runs and  *)
(* operations, approvals, the cloud pairing, browser sessions, product       *)
(* generations and the audit trail, each with the guards its handler checks  *)
(* before it commits.  A refused call changes nothing and is not a step.     *)
EXTENDS Evidence

CONSTANTS
    FileConfig,    \* the document the daemon booted with
    Documents,     \* valid documents a caller may propose
    Obj,           \* the value of a node that is an object
    ProtectedLeaves,  \* adapter leaves that bind endpoints, paths or credentials
    Owners,        \* owners of runs
    MaxSpool,      \* spool positions
    Ttl,           \* lifetime of an enrollment, of a bootstrap
    RemoteGrant    \* gateway.ui.remote of the booted configuration

VARIABLES
    journalSeq,  \* numbers of the engine's journal entries, of this boot
    spent        \* ghost: how many pairings or sessions each one-use secret bought

vars == <<store, evidence, journalSeq, spent>>


Timed == {"config", "approval", "cloud", "ui"}    \* those that read the clock

Rest == UNCHANGED <<evidence, journalSeq, spent>>
Calling(f) == family = f

(* ----------------------------- configuration ----------------------------- *)

(* A document maps the path of every node to its value, Obj when the node is *)
(* an object; arrays are values.                                             *)
Stored == KvGet(db, <<"config:document">>)
Revision == KvGet(db, <<"config:revision">>)

InObject(doc, path) == Len(path) = 1 \/ (Front(path) \in DOMAIN doc /\ doc[Front(path)] = Obj)

DiffDocs(old, new) ==
    {[path |-> p, kind |-> "remove"] : p \in {q \in DOMAIN old \ DOMAIN new : InObject(new, q)}}
    \union {[path |-> p, kind |-> "add"] : p \in {q \in DOMAIN new \ DOMAIN old : InObject(old, q)}}
    \union {[path |-> p, kind |-> "change"] : p \in {q \in DOMAIN old \intersect DOMAIN new : old[q] # new[q]}}

(* Segment i of a path, nothing past its end.                                *)
Segment(path, i) == IF i <= Len(path) THEN path[i] ELSE NoValue

\* Mutant: an instance may be added or removed like any other key.
IsProtectedChangeInstances(c) ==
    LET a == Segment(c.path, 2) b == Segment(c.path, 3) leaf == Segment(c.path, 4) IN
    CASE c.path[1] = "gateway" -> a \in {"workspace_id", "instance_id", "ui", "mesh"}
      [] c.path[1] \in {"ingest", "sync"} -> TRUE
      [] c.path[1] = "storage" -> a = "root"
      [] c.path[1] = "catalog" -> a \in {"source", "pins", "allowlist", "strict"}
      [] c.path[1] = "agents" -> a = "allow_operator"
      [] c.path[1] = "products" -> a = "instances" /\ leaf = "manifest"
      [] c.path[1] = "adapters" -> c.kind # "change" \/ b \in ProtectedLeaves
      [] OTHER -> FALSE
IsProtectedChange(c) ==
    LET a == Segment(c.path, 2) b == Segment(c.path, 3) leaf == Segment(c.path, 4) IN
    CASE c.path[1] = "gateway" -> a \in {"workspace_id", "instance_id", "ui", "mesh"}
      [] c.path[1] \in {"ingest", "sync"} -> TRUE
      [] c.path[1] = "storage" -> a = "root"
      [] c.path[1] = "catalog" -> a \in {"source", "pins", "allowlist", "strict"}
      [] c.path[1] = "agents" -> a = "allow_operator"
      [] c.path[1] = "products" -> a = "instances" /\ (c.kind # "change" \/ leaf = "manifest")
      [] c.path[1] = "adapters" -> c.kind # "change" \/ b \in ProtectedLeaves
      [] OTHER -> FALSE

ConfigEntries(doc, revision) == Kv(<<Pair(<<"config:document">>, doc), Pair(<<"config:revision">>, revision)>>)

(* config.apply: the revision is compared, the review must bind these        *)
(* parameters at this moment, and no change may be a protected one; the      *)
(* commit is awaited with the document it was decided for.                   *)
ConfigApply(expected, doc, review) ==
    /\ expected = Revision
    /\ review = [expected |-> expected, document |-> doc, at |-> now]
    /\ \A c \in DiffDocs(Stored, doc) : ~IsProtectedChange(c)
    /\ Await(<<"config">>, ConfigEntries(doc, Revision + 1), <<>>)
    /\ Rest

ConfigLands(c) == c.call[1] = "config" /\ Lands(c) /\ Rest

(* sync.configure: the compare, the document and the consents derived from   *)
(* it are one synchronous commit.                                            *)
SyncRevision == IF KvGet(db, <<"sync:revision">>) = NoValue THEN 0 ELSE KvGet(db, <<"sync:revision">>)
SyncConfigure(expected, doc) ==
    /\ expected = SyncRevision
    /\ CommitSync(Batch(<<Kv(<<Pair(<<"sync:document">>, doc), Pair(<<"sync:revision">>, SyncRevision + 1)>>),
                          Kv(<<Pair(<<"sync:consent">>, [document |-> doc, revision |-> SyncRevision + 1])>>)>>))
    /\ Rest

(* ---------------------------- runs, operations --------------------------- *)

Run == Get(db, "runs_v2", "r")
RunMutation(row) == [kind |-> "runs", runs |-> <<row>>]

RunRow(owner, state, seq, pending) ==
    [run_id |-> "r", owner |-> owner, state |-> state, spool_seq |-> seq, pending_sync |-> pending]
Copy(run) == RunRow(run.owner, run.state, run.spool_seq, run.pending_sync)

(* A writer registers a run nobody else is running.                          *)
RunRegister(owner) ==
    /\ Run # NoValue => (Run.owner = owner \/ Run.state # "RUNNING")
    /\ Await(<<"run">>, RunMutation(RunRow(owner, "RUNNING", 0, 0)), <<>>)
    /\ Rest

Owned(owner, seq) == Run # NoValue /\ Run.owner = owner /\ seq >= Run.spool_seq

RunHeartbeat(owner, seq) ==
    /\ Owned(owner, seq) /\ Run.state = "RUNNING"
    /\ Await(<<"run">>, RunMutation([Copy(Run) EXCEPT !.spool_seq = seq]), <<>>)
    /\ Rest

RunFinish(owner, seq) ==
    /\ Owned(owner, seq)
    /\ Await(<<"run">>, RunMutation([Copy(Run) EXCEPT !.spool_seq = seq, !.state = "FINISHED"]), <<>>)
    /\ Rest

Cancellable == {"QUEUED", "PLANNED", "FETCHING", "VERIFIED", "READY", "STAGED"}
OperationMutation(state) ==
    [kind |-> "operations", operations |-> <<[id |-> "o", slug |-> "s", state |-> state]>>]
Operation == Get(db, "operations_v2", "o")

(* The engine's journal entry and the operation as it is now are one marker; *)
(* a transition receipt takes a number of the same sequence.                 *)
JournalMutation(state) ==
    /\ journalSeq' = journalSeq + 1
    /\ CommitSync(Batch(<<Docs(<<Doc("lifecycle:journal", <<journalSeq', "o">>, state)>>),
                          OperationMutation(state)>>))
    /\ UNCHANGED <<evidence, spent>>

ReceiptSink(state) ==
    /\ journalSeq' = journalSeq + 1
    /\ CommitSync(Docs(<<Doc("lifecycle:receipt", <<journalSeq', "o">>, state)>>))
    /\ UNCHANGED <<evidence, spent>>

(* operation.cancel of an operation the engine no longer has.                *)
OperationCancel ==
    /\ Operation # NoValue /\ Operation.state \in Cancellable
    /\ Await(<<"run">>, OperationMutation("CANCELLED"), <<>>)
    /\ Rest

RunLands(c) == c.call[1] = "run" /\ Lands(c) /\ Rest

(* ------------------------------- approvals ------------------------------- *)

Approval(id) == DocGet(db, "approval", id)
ApprovalIds == {row.id : row \in RowsWhere(db, "docs", LAMBDA row : row.kind = "approval")}
PutApproval(rec, id) == CommitSync(Docs(<<Doc("approval", id, rec)>>)) /\ Rest

ApprovalRequest(action, requester, expires) ==
    /\ PutApproval([revision |-> 1, state |-> "PENDING", action |-> action, expires |-> expires,
                    requester |-> requester, decided |-> NoValue], Cardinality(ApprovalIds) + 1)

(* Expiry at equality, applied by whichever call reads the row next; it does *)
(* not bump the revision.                                                    *)
\* Mutant: a row read at its expiry is still pending.
DueLate(rec) == rec.state = "PENDING" /\ now > rec.expires
Due(rec) == rec.state = "PENDING" /\ now >= rec.expires
ExpireIfDue(id) ==
    /\ Due(Approval(id))
    /\ PutApproval([Approval(id) EXCEPT !.state = "EXPIRED"], id)

(* A caller that may decide, the revision it saw, a pending row, the action  *)
(* the row was bound to.                                                     *)
ApprovalDecide(id, reviewer, expected, action, decision) ==
    LET rec == Approval(id) IN
    /\ reviewer
    /\ ~Due(rec)
    /\ expected = rec.revision
    /\ rec.state = "PENDING"
    /\ action = rec.action
    /\ PutApproval([rec EXCEPT !.revision = @ + 1, !.state = decision, !.decided = now], id)

ApprovalCancel(id, caller, expected) ==
    LET rec == Approval(id) IN
    /\ ~Due(rec)
    /\ caller = rec.requester
    /\ expected = rec.revision
    /\ rec.state = "PENDING"
    /\ PutApproval([rec EXCEPT !.revision = @ + 1, !.state = "CANCELLED"], id)

(* ------------------------------ cloud pairing ---------------------------- *)

Enrollment(id) == DocGet(db, "cloud:enrollment", id)
Cloud(id) == DocGet(db, "cloud:pairing", id)
IdsOf(kind) == {row.id : row \in RowsWhere(db, "docs", LAMBDA row : row.kind = kind)}
NewId(kind) == Cardinality(IdsOf(kind)) + 1

PutEnrollment(id, rec) == Docs(<<Doc("cloud:enrollment", id, rec)>>)

(* The pairing and the pointer to the current one are one marker.            *)
PutCloud(id, rec) ==
    Batch(<<Docs(<<Doc("cloud:pairing", id, rec)>>),
            Kv(<<Pair(<<"cloud:current">>, IF rec.state = "PAIRED" THEN id ELSE NoValue)>>)>>)

CloudPairBegin(remote) ==
    /\ remote => RemoteGrant
    /\ CommitSync(PutEnrollment(NewId("cloud:enrollment"),
                                [state |-> "AWAITING_PROVIDER", remote |-> remote, expires |-> now + Ttl]))
    /\ Rest

CloudExpires(e) ==
    /\ Enrollment(e).state = "AWAITING_PROVIDER" /\ now >= Enrollment(e).expires
    /\ CommitSync(PutEnrollment(e, [Enrollment(e) EXCEPT !.state = "EXPIRED"]))
    /\ Rest

Completable(e) ==
    /\ Enrollment(e).state = "AWAITING_PROVIDER" /\ now < Enrollment(e).expires
    /\ Enrollment(e).remote => RemoteGrant

Consumed(e) == PutEnrollment(e, [Enrollment(e) EXCEPT !.state = "CONSUMED"])
Paired(e) == PutCloud(NewId("cloud:pairing"), [state |-> "PAIRED", remote |-> Enrollment(e).remote])

(* The enrollment is consumed, then the pairing is put: two markers.         *)
PairingMarkers(e) == <<Consumed(e), Paired(e)>>

CloudPairComplete(e) ==
    /\ Completable(e)
    /\ Both(PairingMarkers(e)[1], PairingMarkers(e)[2])
    /\ spent' = [spent EXCEPT ![<<"enrollment", e>>] = @ + 1]
    /\ UNCHANGED <<evidence, journalSeq>>

(* The daemon stops between the two markers of a completion.                 *)
CloudCompleteStops(e, lost) ==
    /\ Completable(e) /\ Room(1)
    /\ Restart(Append(journal, Marker(PairingMarkers(e)[1], <<>>)), lost)
    /\ spent' = [spent EXCEPT ![<<"enrollment", e>>] = @ + Cardinality(DOMAIN db'.t["docs"])
                                                        - Cardinality(DOMAIN db.t["docs"])]
    /\ lastAction' = NoValue /\ journalSeq' = 0 /\ UNCHANGED objects

(* The copy the handler read says REVOKED while it awaits the provider; the  *)
(* row says so when the notice came back.                                    *)
CloudRevoke(c) ==
    /\ Cloud(c).state = "PAIRED"
    /\ Await(<<"revoke", c>>, PutCloud(c, [Cloud(c) EXCEPT !.state = "REVOKED"]), <<>>)
    /\ Rest

CloudRevoked(c) == c.call[1] = "revoke" /\ Lands(c) /\ Rest

(* ---------------------------- browser sessions --------------------------- *)

Bootstrap(h) == Get(db, "bootstraps", h)
UiBootstraps == DOMAIN db.t["bootstraps"]

BootstrapPut ==
    /\ CommitSync([kind |-> "bootstraps",
                   rows |-> <<[hash |-> Cardinality(UiBootstraps) + 1, expires |-> now + Ttl,
                               consumed |-> FALSE, epoch |-> epoch]>>])
    /\ Rest

(* bootstrapTake reads the outcome back from the flag its own tx set; the    *)
(* session document follows when it took it before the token expired.        *)
Take(h) == [kind |-> "bootstrap_take", hash |-> h, epoch |-> epoch]
TakeWorks(h) == KvGet(ApplyCommit(db, Marker(Take(h), <<>>), Len(journal) + 1), TookKey(Len(journal) + 1))
SessionId(h) == <<epoch, h, Len(journal)>>

SessionExchange(h) ==
    /\ TakeWorks(h) /\ now < Bootstrap(h).expires
    /\ Both(Take(h), Docs(<<Doc("ui:session", SessionId(h), [state |-> "ACTIVE"])>>))
    /\ spent' = [spent EXCEPT ![<<"bootstrap", h>>] = @ + 1]
    /\ UNCHANGED <<evidence, journalSeq>>

SessionExchangeFails(h) ==
    /\ ~TakeWorks(h) \/ now >= Bootstrap(h).expires
    /\ CommitSync(Take(h))
    /\ Rest

SessionRevoke(s) ==
    /\ s[1] = epoch /\ DocGet(db, "ui:session", s).state = "ACTIVE"
    /\ CommitSync(Docs(<<Doc("ui:session", s, [state |-> "REVOKED"])>>))
    /\ Rest

(* --------------------------- product generations ------------------------- *)

Generation(g) == Get(db, "lifecycle_generations", <<"s", g>>)
GenerationRow(g, state, active) == [slug |-> "s", generation |-> g, state |-> state, active |-> active]
Generations == {row.generation : row \in Rows(db, "lifecycle_generations")}

CreateGeneration ==
    /\ CommitSync(Upserts(<<GenerationRow(Cardinality(Generations) + 1, "PLANNED", FALSE)>>))
    /\ Rest

(* update spreads the row it read, the active flag included.                 *)
UpdateGeneration(g, state) ==
    /\ CommitSync(Upserts(<<GenerationRow(g, state, Generation(g).active)>>))
    /\ Rest

CasGeneration(expected, next) ==
    /\ CommitSync(Cas("s", expected, next))
    /\ Rest

(* -------------------------------- behaviour ------------------------------ *)

(* A store that booted once: the configuration file is seeded into it.       *)
Init ==
    /\ journal = <<[mutation |-> ConfigEntries(FileConfig, 1), records |-> <<>>]>>
    /\ db = ApplyCommit(EmptyDb, journal[1], 1)
    /\ calls = {} /\ now = 0 /\ epoch = 1
    /\ objects = {} /\ lastAction = NoValue
    /\ family \in Families
    /\ journalSeq = 0
    /\ spent = [s \in {"enrollment", "bootstrap"} \X (1..MaxCommits[family]) |-> 0]

Stops(lost) ==
    \/ /\ Restart(journal, lost)
       /\ lastAction' = NoValue /\ journalSeq' = 0 /\ UNCHANGED <<objects, spent>>
    \/ \E c \in calls :
           /\ Room(1)
           /\ Restart(Append(journal, Marker(c.mutation, c.records)), lost)
           /\ lastAction' = NoValue /\ journalSeq' = 0 /\ UNCHANGED spent
           /\ objects' = IF c.call[1] = "audit"
                         THEN objects \union {Intent(c.call[2]), Payload(c.call[2])} ELSE objects

(* External: the last frame of the journal comes back damaged and recovery   *)
(* cuts it, under an index that holds it.  Only where no one-use secret is   *)
(* at stake: what a lost marker consumed is unconsumed.                      *)
StopsCut ==
    /\ Calling("products") /\ Len(journal) > 1
    /\ Restart(Front(journal), FALSE)
    /\ lastAction' = NoValue /\ journalSeq' = 0 /\ UNCHANGED <<objects, spent>>

Config ==
    /\ Calling("config")
    /\ \/ \E doc, bound \in Documents, expected \in 1..MaxCommits[family], at \in 0..MaxNow :
              ConfigApply(expected, doc, [expected |-> expected, document |-> bound, at |-> at])
       \/ \E doc \in {"a", "b"}, expected \in 0..MaxCommits[family] : SyncConfigure(expected, doc)
       \/ \E c \in calls : ConfigLands(c)

Jobs ==
    /\ Calling("jobs")
    /\ \/ \E owner \in Owners : RunRegister(owner)
       \/ \E owner \in Owners, seq \in 0..MaxSpool : RunHeartbeat(owner, seq) \/ RunFinish(owner, seq)
       \/ \E state \in {"READY", "RUNNING"} : JournalMutation(state) \/ ReceiptSink(state)
       \/ OperationCancel
       \/ \E c \in calls : RunLands(c)

Approvals ==
    /\ Calling("approval")
    /\ \/ \E action \in {"x", "y"}, requester \in Principals, expires \in 0..MaxNow :
              ApprovalRequest(action, requester, expires)
       \/ \E id \in ApprovalIds :
              \/ ExpireIfDue(id)
              \/ \E reviewer \in BOOLEAN, expected \in 1..2, action \in {"x", "y"}, d \in {"APPROVED", "DENIED"} :
                     ApprovalDecide(id, reviewer, expected, action, d)
              \/ \E caller \in Principals, expected \in 1..2 : ApprovalCancel(id, caller, expected)

CloudCalls ==
    /\ Calling("cloud")
    /\ \/ \E remote \in BOOLEAN : CloudPairBegin(remote)
       \/ \E e \in IdsOf("cloud:enrollment") :
              CloudExpires(e) \/ CloudPairComplete(e) \/ \E lost \in BOOLEAN : CloudCompleteStops(e, lost)
       \/ \E c \in IdsOf("cloud:pairing") : CloudRevoke(c)
       \/ \E c \in calls : CloudRevoked(c)

Ui ==
    /\ Calling("ui")
    /\ \/ BootstrapPut
       \/ \E h \in UiBootstraps : SessionExchange(h) \/ SessionExchangeFails(h)
       \/ \E s \in IdsOf("ui:session") : SessionRevoke(s)

Products ==
    /\ Calling("products")
    /\ \/ CreateGeneration
       \/ \E g \in Generations, state \in {"READY", "ACTIVE"} : UpdateGeneration(g, state)
       \/ \E expected, next \in Generations \union {NoValue} : CasGeneration(expected, next)

Audit ==
    /\ Calling("audit") /\ UNCHANGED <<journalSeq, spent>>
    /\ \/ \E r \in Requests : r[1] <= Fresh /\ EmitAuditReceipt(r[1], r[2])
       \/ \E c \in calls : AuditLands(c)
       \/ \E object \in objects : LoseObject(object)
       \/ \E principal \in Principals, action \in Actions :
              \E object \in Inventory(action.pointer) \ objects : ObjectPut(principal, action.pointer, object)

Next ==
    \/ Config \/ Jobs \/ Approvals \/ CloudCalls \/ Ui \/ Products \/ Audit
    \/ family \in Timed /\ Tick /\ Rest
    \/ \E lost \in BOOLEAN : Stops(lost)
    \/ StopsCut

Spec == Init /\ [][Next]_vars

(* ------------------------------- properties ------------------------------ *)

(* Where a document says who this gateway is, what it listens on, where it   *)
(* keeps its state, which catalog it trusts, who may be raised to operator,  *)
(* and which products and adapters it runs.                                  *)
BoundKeys ==
    {<<"catalog", key>> : key \in {"source", "pins", "allowlist", "strict"}}
    \union {<<"storage", "root">>, <<"agents", "allow_operator">>}
Bound(path) ==
    \/ path[1] \in {"ingest", "sync"}
    \/ Len(path) >= 2 /\ path[1] = "gateway" /\ path[2] # "autostart"
    \/ Len(path) >= 2 /\ SubSeq(path, 1, 2) \in BoundKeys
    \/ Len(path) = 3 /\ path[1] = "products"
    \/ Len(path) = 4 /\ path[1] = "products" /\ path[4] = "manifest"
    \/ Len(path) = 3 /\ path[1] = "adapters" /\ path[3] \in ProtectedLeaves
    \/ Len(path) = 2 /\ path[1] = "adapters"
BoundPart(doc) == {<<path, doc[path]>> : path \in {p \in DOMAIN doc : Bound(p)}}

(* Whatever documents are applied one after another, concurrently or across  *)
(* restarts, the stored document keeps the identity, endpoints, state root,  *)
(* trust roots, operator policy and product digests of the file the operator *)
(* wrote (the list isProtectedChange is documented with; bus.log_path, which *)
(* that list does not name, may change).                                     *)
ProtectedKept == BoundPart(Stored) = BoundPart(FileConfig)

(* A decided, cancelled or expired approval stays what it became, whatever   *)
(* is called on it later; it is decided only before it expires, and for the  *)
(* action it was asked for (approvals.decide, expireIfDue).                  *)
ApprovalSticks ==
    [][\A id \in ApprovalIds :
          Approval(id)' # Approval(id)
          => /\ Approval(id).state = "PENDING"
             /\ Approval(id)'.action = Approval(id).action
             /\ Approval(id)'.state \in {"APPROVED", "DENIED"} => now < Approval(id).expires]_vars

(* An enrollment pairs at most once and a bootstrap token opens at most one  *)
(* session, with the daemon stopping anywhere, a rebuilt index included.     *)
SpentOnce == \A secret \in DOMAIN spent : spent[secret] <= 1

(* The tables hold exactly what replaying the whole journal into an empty    *)
(* registry gives: after every commit, after catching up, after a rebuild    *)
(* over tables that hold more than the journal does (rebuildFromJournal).    *)
RebuildExact == db.t = Rebuild(EmptyDb, journal).t
=============================================================================
