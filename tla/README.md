# Verification of the Lattice gateway

TLA+ models of the gateway daemon, of the machinery around it and of the
in-process pipeline, the TLC configurations that check them on small instances,
and TLAPS proofs about most of them. Paths are relative to
`packages/` of the repository.

Contents: 1 the system, 2 its hard behaviours and what makes each part correct,
3 the plan and where it stands, 4 the modules and how they correspond to the
code, 5 runs and bounds, 6 fairness, 7 proofs, 8 where the code and its
documentation disagree, 9 what is not modelled.

## 1. The system

The repository is a TypeScript monorepo. A local daemon (`gateway-daemon`) owns
a store on disk, serves an RPC interface on a control socket and a web bridge,
and runs the services of `core/src/v2` on top of the store. Everything in the
daemon shares one event loop: code runs to the next `await`, and that is where
another request, a timer or a child's exit can come in. The store can be
entered in two ways, `commit` (five or more awaits) and `commitSync` (none).
Beside the daemon stands the older half of the repository: an SDK whose stages
write events to the bus of one run (`core/src/lattice.ts`, `core/src/stages`,
`bus`), and the command `latticeag run`, which starts an agent with its
adapters around such a bus (`cli`, `adapters`).

| Part | State | Operations | Interacts with |
|---|---|---|---|
| Commit journal `store/journal.ts` | `journal/commits.jsonl`; head tx and hash in memory | `nextMarker`, `append`, `appendSync`, `verify` | called by the store; read by recovery |
| Lanes `store/lanes.ts` | segment files, seal manifests, `lane.json`; offset, ordinal, hash in memory | `append`, `rotate`, `fsync`, `recoverLane` | called by the store; locators end up in markers |
| Objects `store/objects.ts` | one file per digest | `put`, `get`, `verify` | put before the commit that names them |
| Registry `store/registry.ts` | sqlite tables, `last_indexed_tx` | `applyCommit` with one reducer per mutation kind, `rebuildFromJournal`, look-ups | derived from the journal; read by every service |
| Store `store/store.ts`, `store/recovery.ts` | all of the above, the in-memory index | `commit`, `commitSync`, `open` | every service writes through it |
| Dispatch `rpc/dispatch.ts`, `adapters/receipt-writer.ts`, `daemon.ts` | RPCs in flight, daemon state, operations rows, receipts | admission, binding look-up, service call, receipt commit, drain, stop | services, registry, store |
| Instance lock `lock.ts` | `daemon.lock`, `endpoints.json`, a flock helper process | acquire, probe, publish, release | taken by `daemon.start`, read by the command line |
| Peers `core/src/v2/peers` | pair, challenge, peer, grant, token rows | invite, propose, approve, register, renew, revoke, the check of a signed request | document rows |
| Events and bridge `platform/events-svc.ts`, `platform/sessions.ts`, `net/sse.ts`, `gateway-web` | lanes of events, leases, bootstraps, sessions, streams | publish, subscribe, ack, revoke, stream, reconnect | store, registry, browser |
| Platform services `core/src/v2/platform`, `approvals`, `cloud` | run, operation, approval, pairing and configuration rows; audit histories | register, heartbeat, finish, cancel, request, decide, pair, apply, lineage, objects | store |
| Sync `core/src/v2/sync` | outbox rows, consents, pause marks; batches in memory | `enqueue`, disclosure, `pump`, `runSend`, `repair`, `configure`, `flush` | registry rows, import destinations |
| Catalog and product service `core/src/v2/catalog`, `lifecycle/service.ts`, `resolve.ts`, `semver.ts`, `extract.ts`, `verify.ts` | cached index, highest revision, pins; plans | refresh, pin, plan, install/update/rollback/uninstall | registry rows, mirror |
| Lifecycle engine `lifecycle/engine.ts`, `adapter-client.ts`, `health.ts`, `supervisor.ts` | generation rows with one active pointer; operations, clients, probes, children in memory | `install`, `update`, `rollback`, `uninstall`, `cancel`, `onChildExit`, `degrade`, `close`, `recoverAfterCrash` | registry rows, adapter processes |
| Configuration `config`, `cli/.../config-cmd.ts` | `latticeag.json`, its backups | read, plan, review, migrate | read at boot; `config.apply` edits the stored document |
| Stages and bus `core/src/lattice.ts`, `core/src/stages`, `bus` | event counter, ring, log file with its rotations | `inspect`, `verify`, `approve`, `receipt`, `record`, `close`; `emit`, `waitFor`, `watch` | backends, the child bus |
| Agent run `cli/src/commands/run.ts`, `ingest.ts`, `adapters/*` | one run's bus, child process, adapters' contexts | start, ingest posts, handlers, stop | products over HTTP, the bus |

`PROJECT.json` lists every part under `components`, with what is modelled.

## 2. What is hard, and what makes it correct

* **Store.** A process crash keeps the page cache, a power loss does not.
  Correct: what was acknowledged is durable and readable at the place the
  caller was told, nothing else is served, the registry is the replay of the
  journal, and no crash makes recovery declare corruption, with segments,
  seals and object files in between.
* **Lock.** Release, stale-record removal and creation are separate calls of
  several processes. Correct: one writer on a state root, and every start ends.
* **Dispatch.** A client resends after a lost answer; receipts fail; the
  drain's deadline closes the store under a commit. Correct: an answer that was
  given never changes, a key is bound once, a stop ends.
* **Peers.** Handlers write several rows, one commit each, and any of them may
  fail. Correct: what is enrolled is what the operator approved last, a refresh
  token family has one live member that only its holder extends, and what was
  revoked stays out.
* **Event stream.** Frames are lost with their connection, leases expire, the
  daemon restarts. Correct: a view shows every event of its topics once, in
  order, and catches up.
* **Platform services.** Many handlers decide, await their commit, and land
  beside another handler's. Correct: protected settings stay, an approval once
  decided stays decided, the index is what a rebuild would make of it, a walk
  over evidence reports what it could not read.
* **Outbox.** A destination's call may fail before or after its effect, and the
  batch of a send lives in memory. Correct: ACKED is delivered, nothing is
  imported twice, a send settles, and nothing is disclosed beyond its consent.
* **Products.** The catalog moves while a plan is made, and the plan's rows
  move before it is carried out. Correct: a plan is complete and ordered, the
  accepted revision never falls, a pin keeps its meaning; in the engine, one
  generation is active, a cancelled operation starts nothing, operations end.
* **Adapters.** One request is outstanding; an answer may come late, twice, or
  never. Correct: what is claimed of an adapter is what it said; starts and
  stops end.
* **Run, stages, bus.** Emits are queued behind one another while handlers
  await the network and `stop` clears their context. Correct: the causes of an
  event are in the log before it, a call ends, and the bus closes last.
* **Configuration file.** A migration is six file operations with an editor and
  a second migration beside it. Correct: the file is always a whole document
  and a migrated one has its original beside it.

`PROJECT.json` lists the individual places under `hazards`.

## 3. Plan

Done: the store (`CommitLog`, `GatewayStore`, `Lanes`, `LaneLog`, `Objects`,
`Registry`) and its proofs with the refinement of `CommitLog`; the lock,
`Dispatch`, `SyncOutbox` and `Peers`, each with its proofs; `EventStream`; the
platform services over `PlatformStore`; `Disclosure`; `ProductPlans` over the catalog, resolver and releases;
`Lifecycle` and `AdapterPipe`; `AgentRun`, `StagePipeline`, `EventBus`,
`LogTail`; `ConfigFile`.

Next, in this order:

1. A `Fail` of `GatewayStore` whose write landed, and a reducer that throws.
2. The VekInbox sink beside the import sink in `SyncOutbox`.
3. A composition of `Disclosure` with `SyncOutbox`, so that a row's whole life
   is in one model.

## 4. Modules

### The store: `CommitLog`, `GatewayStore`, `Lanes`, `LaneLog`, `Objects`, `Registry`

`CommitLog` is the promise of the whole store: an append-only log in which a
commit takes the next position, and is told its position only after it is
durable. `GatewayStore` is the code, one action per await of
`GatewayStore.commit`:

| Action | Code |
|---|---|
| `Begin`, `AppendStart`, `AppendDone` | `store.ts` `commit`, `lanes.ts` `LaneWriter.append`: the offset is read before the awaited write and moved after it |
| `FsyncLanes`, `Compose`, `Check` | fsync of every touched lane, `Journal.nextMarker`, the head check of `Journal.append` |
| `Write`, `FsyncJournal`, `Finish` | the rest of `append`, then head, in-memory index, `Registry.applyCommit`, answer |
| `CommitSync` | `commitSync` with `appendSync`: no other caller runs, but the process can die |
| `Fail` | an I/O call rejects before it wrote; lane records already written stay as orphans |
| `ProcessCrash`, `PowerLoss` | the first keeps all written bytes, the second any prefix beyond the synced part; both may leave a torn line |
| `RecoverJournal`, `RecoverLanes`, `RebuildRegistry`, `ReplayMarker`, `Open` | `Journal.verify`, `recoverLane`, the three branches of `recoverStoreContext`, `GatewayStore.open` |

The sha256 of a line is the name of its commit; a lane is one segment and a
record one line; a mutation is the name of its commit. sqlite runs with
`synchronous=FULL`, so a registry transaction is durable at once. `Serial` says
whether callers may overlap; the code has no lock that would make it true, which
is what `store_concurrent` is about.

`Lanes` looks below that: one lane with its segments, seal manifests,
`lane.json` and quarantine, records of two bytes so that a tear can fall inside
one, and commits that run one at a time. `WriterFor`, `Append1`, `Rotate`,
`FinishCommit` are the writer; `Crash`, `Preserve`, `CutTail`, `OpenWriter` are
`recoverLane` and the reopening. Rotation by age is any rotation. `Derived` is
what recovery would make of the files now; `LaneLog` is the promise, refined
with `Derived` for the log. `Objects` is the put of one object file: the
exclusive create, the write and the sync are steps of their own (`CreateObject`,
`WriteObject`, `SyncObject`), and between the last two the file is `"cached"`, all
there and not yet durable. A put that finds the file (EEXIST) verifies what the
page cache shows and syncs nothing. `LaneProofs` has the proofs about both.

`Registry` is the projection as code writes it: a table is a function from
primary key to row, each row with its tx and rowid, and `ApplyMutation` has
every kind of mutation (`INSERT`, `OR IGNORE`, `OR REPLACE`, conflict flags,
the transition checks). `PlatformStore`, `Evidence` and `Platform` stand on it.

### `InstanceLock` (proofs in `HostProofs`)

Processes that start, hold, release and die on one path whose file may be
replaced: `Own(p)` is the code of a process between two system calls, `Helper`
steps are flock(1), which locks the inode it opened whether or not the path
still names it. `mode` says whether flock answers in time, answers after the
timeout (then the `O_EXCL` fallback runs), or is missing. The endpoints file is
written after the lock and removed before the release. `Signal(p)` is a SIGINT or
SIGTERM to the group of a daemon (Ctrl-C, the systemd unit of
`cli/src/commands/gateway/service.ts` with its default `KillMode`): flock(1) and its
child end and the lock is gone; the daemon drains where its handlers are
installed (`Outlives`) and dies elsewhere. The history variable `torn` says that
such a signal took a lock somebody relied on: a daemon that goes on, or a
contender that has the unlinked file of one that is gone open (`Relied`).

### `Dispatch` (proofs in `PromiseProofs`)

`dispatchRequest` has no await from the parsed body to the service call, so
admission (`Refuse`, drain gate, `Replay`, conflict, `Admit`) is one step. Then
come the service's effect, the receipt and binding commit, its acknowledgement
by the registry, and the answer, which may be lost. `daemon.stop`, signals, the
drain with its deadline, teardown, process end and boot are actions of the
daemon. A request is `[key, body, kind]`; bodies stand for the binding hash.

### `Scopes`, `Peers`, `PeersProofs`

`Scopes` is the scope algebra (well-formedness, `ScopeWithin`, effective
scopes). In `Peers` a handler runs without an await, reads rows, decides, and
leaves its writes in `todo`; `CommitDoc` makes them one by one, and
`CommitFails` or `Reboot` may fall between any two. A secret is named by the row
that stores its hash, a signature by its key and body. The rate limiter is left
out: it only refuses. A revocation of several grants writes them in any order:
the code walks the rows of a table, and a replaced row moves in it.

### `EventStream` (proofs in `AgentRunProofs`)

From publisher to browser. `calls[k]` is a publish or ack that has decided and
whose commit has not landed; `StreamRead`, `Receive`, `Connect`, `Drop` are the
SSE stream, the parser in the page and the reconnect with `Last-Event-ID`;
a read looks at `ScanMax` index rows and returns at most `Batch` of the lease's
topics, and only a frame moves the stream's cursor;
`SessionExchange`, `SessionRevoke`, `ClockTick`, `Restart` move leases and sessions.

### `PlatformStore`, `Evidence`, `Platform`

`PlatformStore` holds journal, tables, commits in flight and clock.
`Evidence` has the audit history of a call (five linked events), lineage walks
and the objects an action may read or add. `Platform` adds configuration, runs,
operations, approvals, cloud pairing, browser bootstraps and product
generations, and the stops: between commits, inside a handler that writes twice
(`CloudCompleteStops`, `StopsCut`), with a journal tail or the index lost.
Families of services share no table, so a behaviour calls one family. A refused
call changes nothing and is not a step.

### `SyncOutbox`, `SyncOutboxProofs`, `Disclosure`

One row per item, one send per stream, two global senders. `StartSend` is
`startSend` and `runSend` up to the awaited `prepare`, `Prepare` journals the
batch, `FindCommitted`/`CommitStage` are the destination's `importGet` and
`importCommit` (external), `Settle` is every outcome of a send. The loops that
write the rows of a batch can end early: `JournalCut` and `SettleCut` write some of
the rows, `Restart` uses them for a process that dies, `WriteFails` for a row write
that throws in a living one (`BlockFails` for the rows being blocked), whose
rejection `startSend` swallows. `stuck` are the rows this leaves `IN_FLIGHT` with no
send, `MaxFaults` bounds it, `BackoffStarts` is the wait of the rows that did reach
`RETRY`. Time is the set `due`.
`Disclosure` is what a row may say: the three profiles and their redaction over
the set of a value's leaves, each with its key and the number of matches of one
secret pattern (`secrets`), of which a scrub takes the first; and the part of
`enqueue` that builds the payload under the consent in force.

### `SemVer`, `Resolve`, `CatalogStore` (proofs in `PromiseProofs`), `Releases`, `ProductPlans`

The first four are operators with little or no state: ranges and order of
versions; `resolveGraph` as the walk it is (marks, installed hits, cycles);
refresh, cache, highest revision and pins; signatures, provenance, manifest and
archive checks. `ProductPlans` runs them: plans that fetch manifests one await
after another, refreshes that answer out of order, pins, commits of reviewed
plans, operations seen at their three waits, a mirror that republishes, a
crash between the commits of a refresh, offline or not (`CutRefresh`, `CutOffline`).

### `Lifecycle`, `LifecycleProofs`, `AdapterPipe` (proofs in `HostProofs`)

`Lifecycle`: one product, its rows, the operations of the running daemon, the
adapter processes. What runs between two real awaits is one step, and
`Writes(path, rest)` either finishes it or lets the daemon die after any prefix
of its row writes. `op[o]` is the operation's own object, apart from the row,
because `StoreBackedProductRegistry` parses a new object on every read; the
watcher, the restart and the probes point to the object of the operation that
spawned the adapter.

| Actions | Code |
|---|---|
| `CommitInstall`, `CommitUpdate`, `CommitRollback`, `CommitUninstall`, `Cancel` | the service's commits and the engine's first steps |
| `FetchReturns`/`FetchFails`, `StartReturns`/`StartFails`, `HealthOk`/`HealthFails`, `StopReturns`/`StopFails` | one per awaited answer |
| `ExitIgnored`, `ExitCrash`, `RestartWakes`, `RestartStarted`, `RestartStartFails`, `RestartHealthy`, `RestartUnhealthy`, `Degrade` | exit watcher, restart chain, live probes |
| `Close`, `Crash`, `Boot` | `engine.close`, the end of the process, `recoverAfterCrash` |

`AdapterPipe` is the conversation below: lines in a pipe, the one pending
request, its timeout, the gate that counts readiness answers, live probes that
share the pipe with a stop.

### `EventBus`, `StagePipeline`, `AgentRun`, `AgentRunProofs`, `LogTail` (proofs in `HostProofs`)

`EventBus` is `emit` behind `#tail`: number, ring, append, rotation, waiters;
the modules that extend it say what the promise's owner does next.
`StagePipeline` is class `LatticeAG`: a caller is a stack of stages, each
resumed by the bus, a backend or a caller further in. `AgentRun` is `latticeag
run` with its adapters; an emit carries who holds its promise and whose `ctx`
is read then. The events of a belief batch name the first of them as their
cause, an id that is minted before the event is persisted (`Own`, `Caused`); a
post to the ingest server may carry a `causation_id` of its caller's, which is
forwarded unchecked (`Given`).
`LogTail` counts a log in half lines and has the readers of
`watch.ts`, `events --follow` and the child bus, as chains of awaits over one
offset and buffer. What a read finds is its halves of lines: `LineEnds` are the
newlines `split` cuts at, `WholeLines` those whose line parses, `Rest` is what
`pop` leaves for the next read. Each read is decoded on its own, so a line of
`Wide`, whose halves meet inside a character of several bytes, comes garbled when
two reads bring it (`Pieces`, `garbled`). `Fails` is an open or a read that rejects.

### `ConfigFile`, `PromiseProofs`

A directory maps names to files; data reaches the disk with the fsync of the
file, names with the fsync of the directory, in the order of the operations.
Two migrations, an editor, crashes, failed writes and a power loss.
`PromiseProofs` has the proofs about this module, `Disclosure`, `CatalogStore`
and `Dispatch`: what the clients and the operator of a daemon rely on.

## 5. Runs

Parts that share no state are checked in one run: an MC module with a variable
that says which part a behaviour runs (`layer` in `MCStorage`, `client` in
`MCSessions`, `subject` in `MCReviewedPlans`, `machine` in `MCHost`, and
`family` inside `Platform`), while the others stay as they began. That checks
each part's behaviours exactly as a run of its own would.

| Run | Shows |
|---|---|
| `storage` | One commit in flight, failed calls, two crashes or power losses, recoveries. The layer `store`: `JournalChained`, `AckedDurable`, `RegistryIsReplay`, `AckedServed`, the refinement `ImplementsLog`, and `StoreReopens`. The layer `files`, with segments, seals and objects: `ServesAsRecovered`, `ObjectsWhole` and the refinement `KeepsItsLog` |
| `store_concurrent` | Two commits in flight fork the journal (violation of `JournalChained`) |
| `outbox_steady` | One stream of three items and one destination, failures before and after effects, a row write that throws, one process: `AckedDelivered`, and `InFlightSettles` for the rows no failed write left behind |
| `outbox_restart` | Restarts and a failed write in the middle of batches, changed consent, an unbound destination, a flush, a contested item: `ImportedOnce` |
| `dispatch_serial` | Resends after the last try ended, lost answers, failing receipts, a crash, stops, a restart: `AnswersStick`, `BoundOnce`, `StopEnds` |
| `lifecycle` | Two overlapping operations and one more after a restart, all adapter behaviours, death at each write: `OneActive`, `CancelStopsStart`, `OpsEnd` |
| `sessions` | Peers: `EnrolledAsApproved`, `FamilyContained`, `RevokedOut` under failed commits and restarts. Views: `ShownInOrder`, `CaughtUp` under dropped connections, expiring leases and restarts |
| `agent_run` | Four runs (webhooks, a batch, polling with auto-approval, fixtures) and one failed append: `CausesWritten`, `RunEnds` |
| `pipeline` | Two callers of one `LatticeAG` under five overlays, one of them closing: `EndsAndCloses` |
| `review` | 209 product worlds: `PlanSound`, `NoRollback`, `PinSurvives`. The configuration file: `MigrationSafe`. Sync rows: `DisclosedAsConsented` |
| `platform` | Seven families of services: `ProtectedKept`, `RebuildExact`, `LineageHonest`, `ApprovalSticks` |
| `host` | Lock, with a signal that ends a helper: `OneWriter`, `StartsSettle`. Adapter: `ClaimsAreSaid`, `PipeSettles`. Log reader, with a line that can be cut inside a character: `TailExact` |

Bounds, and why they suffice:

* Store: four commits of which one is durable at the start, two lanes, batches
  of no, one or two records on one or two lanes, two crashes. Two crashes are
  what it takes to crash during or after recovery; two records on one lane are
  what it takes for an orphan to lie between committed records. `InitSizes =
  {1}`: on an empty journal `RegistryIsReplay` is false, see section 8.
* Files: segments of two records, three records in commits of one or two, one
  object, one failed call, two crashes: a rotation with committed records on
  both sides and a crash on each side of it; a put that fails between write and
  sync, a put of the same bytes after it, and a power loss.
* Outbox: three items of one stream (two where the process restarts) so that
  there is a batch of two, one of them contested; two attempts so that a retry
  happens; one failed row write, which cuts a batch in two; two restarts so that
  one can hit the resend.
* Dispatch: two RPCs in flight, three requests sent, two processes: a request,
  its resend and an interfering stop or conflicting body.
* Lifecycle: two generations (an update or rollback has a predecessor and a
  candidate), `MaxOps` two in the first boot and one in the second, four
  adapter processes, a restart budget of two.
* Peers: two keys, two kinds of invitation, one pair, two challenges, grants and
  request ids, the first wrong attempt locks a pairing (the proofs of section 7
  hold for every `MaxAttempts`), one failure or restart: a retry of a renewal with its own and
  with another id, and a registration whose writes stop half-way. `Cloud`,
  `ui`: six commits, because a pairing or exchange and its revocation already
  take four; the other families four. One restart, two commits in flight.
* Views: three log entries and reads that look at two rows and return one, so
  that a window can lie before an event of the view's topics; one subscription,
  one session, time up to the idle limit and one lease, seven publish calls of
  which five are refused.
* Products: two callers, one step of time, one crash; the worlds are three that
  install and move products, one that refreshes and pins, four choices of a
  version, three edges, 18 releases each refused for its own reason, and
  180 graphs of three products with up to two dependencies each of every kind.
* Configuration: two migrations, two documents, one edit, one fault.
* Lock: three starting processes where flock answers; one where it may be slow
  (then the fallback of one and the flock of another give two writers,
  section 8); two where only `O_EXCL` exists (three can remove a stale record
  twice). One crash and one signal, before, during or after one another. `Prompt`
  says that a holder writes its record within the two waits of
  a contender; without it any start could be taken for stale.
* Adapter: two readiness answers needed, eight requests, one line that is no
  reply. Reader: two lines of which the second has its middle inside a character
  (`Wide`), one rotation, two overlapping reads, the guarded watcher.
* Platform time is clocked only in the families that read it (`Timed`); a
  damaged journal tail only in the family without one-use secrets; one lost
  object at a time.

Every run says `CHECK_DEADLOCK FALSE` because the bounds on commits, sends,
operations and boots end every behaviour; within the bounds progress is stated
as liveness. `review` uses the symmetry of the two callers; its two action
properties are unaffected by it and it checks no liveness.

Each property of a passing run has a mutant in `PROJECT.json`: a definition
changed the way a plausible bug would change the code, under which TLC finds
the property violated. The mutated forms stand before the definitions they
replace and are not used otherwise.

The modules state more than the runs list. These hold on the same instances and
are kept as documentation: `NeverReadOnly`, `ServedIsCommitted` (both proved),
`OwnDestination`, `SendsDisjoint`, `GateHonest`, `LegalMoves`, `StageKept`,
`FlushCovers`, `AuditedBeforeDisclosure`, `ReplayIffDurable` (proved), `StopInForce`,
`IndexedOnce`, `RemovedInactive`, `PointerKept`, `RequestOnce`, `AckedWritten`,
`BootstrapOnce`, `CycleReal`, `CommitSeesPlan`, `SpentOnce`, `EndpointsOurs`,
`OrphansKept`, `AnswerMine` (proved), `TailKeepsUp`, `LogInOrder`, `ApprovedOnce`,
`OneDiff`, `BeliefOnce`, `ChainCaused`, `SessionKept`. These are what a reader
may expect and the code does not do (section 8): `StoppedStays`,
`RevokeEndsStreams`, `ExitPolicy`, `OpensAfterCrash`, `InstalledAsReviewed`,
`ReviewedIsWritten`.

## 6. Fairness

* `GatewayStore`: weak fairness of the steps of a commit under way (the event
  loop and the disk serve it) and of recovery (a store that is down is opened
  again by whatever supervises the daemon). Nobody must commit, fail or crash.
* `SyncOutbox`: weak fairness of a send's steps; `runSend` awaits nothing but
  the sink, and each call of a sink settles. Pump is not fair.
* `Dispatch`: weak fairness of the 25 ms timer and of the drain and teardown:
  the drain has a deadline and every await of `teardown` is bounded. Services
  need not return; that is the point of `StopEnds`.
* `Lifecycle`: weak fairness of `TimesOut(o)` only: adapter requests have a
  timeout, the readiness gate a deadline, and a fetch ends. Adapters need not
  answer.
* `EventStream`: commits land, a stream's read, the page's parser and its
  reconnect go on. Publishers, acknowledgements and drops are free; drops are
  bounded by `MaxDisruptions`. `CaughtUp` is about views whose stream stays open, and
  `sessions` checks it under the fairness of the read and the parser alone.
* `AgentRun`: the bus, its settling promises, the projection task (it runs with
  a timeout of 60 s) and the steps of the end of a run. The child, the products
  and the network owe nothing.
* `StagePipeline`: a caller that can run does, its backends answer (their
  requests time out), the bus goes on.
* `InstanceLock`: a process makes its next system call, a booting daemon
  publishes or fails; a flock helper that answers does so or times out. Nobody
  must stop.
* `AdapterPipe`: the client's own turns and its two timers. The adapter owes
  nothing.
* `Peers`, `ProductPlans`, `Platform`, `ConfigFile`, `Disclosure`, `Lanes`,
  `LogTail`: none; only safety is stated of them. (An open of the log that fails
  may end the process that reads it, so no progress of a reader is assumed.)

## 7. Proofs

`GatewayStoreProofs` proves for every set of callers, lanes and batches and every bound:

* `TypeCorrect`: `Spec => []TypeOK`, concurrent workloads included.
* `ChainedWhenSerial`: with `Serial`, `[]JournalChained`. `JournalChained` is
  not inductive: a marker in a caller's hands must extend the head, and the head
  in memory must be the last line. `ChainInv` adds `OneCommit` (at most one
  commit under way, none unless the store is open), `TornOnlyDown`,
  `HeadIsLast`, `MarkerExtends` and `MarkersAreJournal` (recovery works on the
  whole journal, which rests on `ChainedVerifies`: a chained journal has no bad
  line).
* `ReplayWhenSerial`: with `Serial` and `0 \notin InitSizes`,
  `[]RegistryIsReplay`. `ReplayInv` says that the registry holds the first
  `lastIndexed` lines unless it is ahead of the journal, which only happens
  after a power loss and ends in a rebuild. The rebuild needs a marker to start
  from, hence the assumption that the store began with a durable commit.
* `WritableWhenSerial`, `DurableWhenSerial`: `[]NeverReadOnly` and
  `[]AckedDurable`. `LaneInv`: commits are journaled in the order they were
  issued, the records of every line are in the synced part of their lanes
  (before the marker is written, those of the commit under way), and a writer's
  offset is the end of its file. `AckInv`: answers come after the journal's
  fsync.
* `ServedWhenSerial`, `AckedServedWhenSerial`: `[]ServedIsCommitted` and
  `[]AckedServed`, with `IndexInv`: the index is the records of the journal up
  to the head.
* `ImplementsLogWhenSerial`: with `Serial`, `ImplementsLog`, a step simulation.
  The log of `CommitLog` is the synced part of the journal. Only `FsyncJournal`,
  `PowerLoss` (which may sync what it leaves) and the repair in `RecoverJournal`
  change how much of it there is, and none takes a line back (`KeepsLines`), so
  each is a `Durable` or a stutter; `Finish` is a `Tell`, whose position is new
  because `AckInv` bounds the answers by the head.

`LaneProofs`, of `Lanes` with `Objects`, for any segment and commit sizes,
records, faults of the disk and crashes:

* `ServesFromFiles` (`[]ServesAsRecovered`). The process counts as it appends;
  recovery counts lines and committed records segment by segment, over files
  that a crash has torn and that orphans of failed commits stand in.
  `SegmentInv` ties the two: every segment but the last is sealed, synced and as
  long as its manifest says; the records of the markers and of the commit under
  way stand where their locators say, the committed ones in what is synced, with
  ordinals that strictly rise; the writer stands at the end of the last segment
  and its next ordinal is one more than the records there are. An ordinal is an
  area, the records of the manifests before being the columns (`Area`,
  `AreaNext`), which spares an induction over the segments; `CursorIs` and
  `NextIs` show that recovery arrives at the same numbers, `NeverCorrupt` that it
  finds nothing to refuse.
* `LaneKeepsItsLog` (`KeepsItsLog`), the step simulation of `LaneLog` with
  `Derived` for its log: the marker of a commit is an `Extend`
  (`MarkerExtends`), its answer a `Tell` (`AnswerTells`), and whatever else
  happens, rotation, failures, the loss of what was not synced, truncation and
  reopening among it, leaves the log as it was (`LogStays`).
* `ObjectsStayWhole` (`[]ObjectsWhole`): an object a marker names can be read,
  but for those whose file a power loss found unsynced (`unsynced`), which the
  EEXIST path of `put` permits. `ObjectInv`: a commit that is past the
  verification of its put holds a file that is all there, and only a power loss
  takes bytes from such a file.

`HostProofs` proves `SpecOneWriter`: where flock(1) answers in time
(`FlockAnswers`: `Modes = {"flock"}`) there is one writer, for any number of
processes, starts, crashes, files and signals, until a signal takes a lock that
is relied on (`torn`; without that condition the property is false, section 8).
`OneWriter` is not inductive: release unlinks the path, so a contender may hold
an inode the path no longer names. The invariant `LockInv` says that nobody is in
the fallback (`NoFallback`), that a lock belongs to the process whose helper
opened that inode (`Owned`), and, while not `torn` (`Kept`), that whoever is between
its lock and its unlink holds the file the path names, and that an inode a
contender has open and the path no longer names stays locked by the child of
the helper that locked it, so nobody gets past it. A signal to a process that
is gone, when nobody has its file open, frees an inode nobody can reach.

And of the conversation with an adapter, for any limits of the gate, any number
of requests and misread lines, whatever the adapter answers and when:

* `AnswersAreMine` (`[]AnswerMine`) and `ClaimsWhatWasSaid`
  (`[]ClaimsAreSaid`). `PipeInv`: a request is answered once, so a line in the
  pipe says what was answered to the request it names (`AnsweredOnce`); a caller
  waits for the pending request and got what was said to it (`Heard`); the
  successes the gate counts are its last checks, each said to be ready
  (`Counted`); from the drain on nobody but the operation asks, so the request
  before its stop is its drain (`Alone`).

And of the readers of the event log that are watchers (`Watchers`; the follower
and the child bus do not keep their reads apart, section 8), for any lines,
rotations, polls and file events:

* `TailsExactly` (`[]TailExact`): while the log is one file a watcher takes its
  lines, each once and in their order, and one of them has another text than was
  written only where it is in `Wide` and a stat found the file to end inside it.
  A read looks at the size, the file and its
  bytes in turn, and the writer may append half a line or rotate between any
  two. `TailInv`: a watcher has one read under way (`OneRead`); in the first
  file its offset, the half line in its buffer and the lines it has delivered
  say the same (`Stood`); what a read has got goes on at the offset, and its
  file is none older than the lines delivered (`ReadStood`). `ReadOn` is the
  parser: a buffer and the stretch of the file that follows it give the lines
  that end there and leave the half line that does not, by ranks again in place
  of an induction over the stretch. `PieceInv`: an offset inside a line is a
  size at which a stat found half a line (`split`), so a line two reads bring was
  seen cut.

`PromiseProofs`, of `Dispatch` with `~Overlap` (no key is sent again while a try of it is in
flight; an answer that was lost is no hindrance. With overlap both tries execute,
hazard `dispatch.ts:594` and section 8), for any requests, calls in flight, crashes,
stops and boots:

* `BoundOnceWhenSerial`, `AnswersStickWhenSerial` and, for the property no run
  lists, `ReplayDurableWhenSerial`. A row of the registry shows a binding of the
  journal (`RowsBound`); a mutation that has not committed has no binding
  (`PendingUnbound`); a binding without a row belongs to a call that is still
  being acknowledged or to a store that is closed and admits nothing
  (`BoundServed`, `listening => storeOpen`); what was told is bound.

`SyncOutboxProofs`, for any items, streams, stages, workers' failures:

* `OneImport`: `[]ImportedOnce`, across restarts too. A stage is *live* when it
  is committed, or a send or a row that can still be sent names it. `ImportInv`:
  an item is in one live stage at most. A stage is made only for rows that have
  none, and one whose rows were not all journaled when the process died is dead:
  the rows that name it stay `IN_FLIGHT` with no send.
* `DeliveredInOneProcess`: `[]AckedDelivered` when `MaxRestarts = 0`. The code
  keeps the batches in memory only; with a restart the property is false
  (section 8), so the hypothesis is the code's, not the proof's. `BatchInv`: the
  rows with a stage are each in the batch they were last sent with, and the rows
  of a batch name the same stage.

`PeersProofs`, without hypotheses beyond `PeersAssumption`, for any keys, claims, scopes, policy, times, rows, and
whatever commits fail or are cut off by a restart:

* `FamiliesContained` (`[]FamilyContained`) and `RevokedStaysOut` (`RevokedOut`,
  an action property). A handler decides once and commits one by one, so neither
  is inductive without saying what the writes still in `todo` may be. `Pending`
  does: a grant is issued only behind the write that spends the usable one of
  its family, a revocation is never followed by a write that undoes it, an
  answer to a reuse comes behind the revocation of every member, and a peer that
  a grant names is there, unrevoked, or written before it.
* `EnrolsAsApproved` (`[]EnrolledAsApproved`). `EnrolInv`: an invitation's
  approval is the operator's last one and within the offer; a consumed
  invitation stays consumed, so nobody approves it again; when the answer of an
  enrolment is still to come, the peer and the consumption are written or among
  the writes before it. The rest is algebra of the scopes, proved for all scope
  sets: `WithinGrants`, `PolicyGrants`, `CapabilityGrants`, `SamePermissions`.

`LifecycleProofs`, for any versions, any number of generations, operations,
adapter processes and boots, and a daemon that dies after any row write:

* `TypeCorrect`, `AtMostOneActive` (`[]OneActive`) and `CancelledNeverStarts`
  (`CancelStopsStart`). Operations work on copies of the rows, so one active
  generation rests on `casActive` alone, and on every intermediate value of the
  rows: `Path(path, n)` says that each registry a step passes through is in
  `Registries(n)`. The path of a recovery is a recursive function of the
  generation, and its induction is a least counterexample (`LeastExists`, from
  `WellFoundedInduction`): a least generation whose recovery breaks the
  invariant breaks it in its own writes.

The other theorems of `PromiseProofs`, for any documents, migrators, edits, events, consents and indexes:

* `MigratesSafely` (`[]MigrationSafe`). The property speaks of the directory of
  the moment, `ConfigInv` of every directory a power loss may leave (`Views`): in
  each, the file is whole and synced, a migrated one has its original in a
  synced backup, and no name of a backup shares its file with another name
  (`Separate`). What an invocation knows of its own temporary file is `Ready`.
  Nothing is said of an edit between the last read and the rename: the code
  overwrites it and no backup has it (section 8).
* `DisclosesAsConsented` (`[]DisclosedAsConsented`). A row is a projection under
  the consent its id names, so `INSERT OR IGNORE` can only keep a row that is
  equal to the refused one. What is under a key of the policy is cleared; of a text
  with several matches of a secret pattern only the first is (`Cleared`), as in the
  code.
* `NeverRollsBack` (`NoRollback`) and `PinsHold` (`PinSurvives`), of
  `CatalogSpec`: the steps on the catalog that the callers of `ProductPlans`
  take, without the callers. `CatalogInv`: the cache is at the highest revision,
  with its digest, or ahead of it where the daemon died between two commits of a
  refresh. The attempt showed that `PinSurvives`, which took the pin from a
  `LET`, compared the old pin with the new one under the prime; it quantifies
  over releases now.

`AgentRunProofs`, for any configuration, inputs, batches and log sizes:

* `ReactsToWritten` (`[]CausesWritten`): with `persist_fail: throw` what reacts
  to an event reacts to one that is in the file, the id a batch names before it
  is emitted included; a `causation_id` a caller of the ingest server sent is
  excepted. `RunInv` says so of all that can
  carry a number further: the emits that wait and what their owners emit next,
  the job of the bus, handlers that await an answer, tickets. The proof attempt
  found that the arms of `AfterAppend`, then a `CASE`, overlapped, which in TLA+
  leaves the value open although TLC takes the first; it is an `IF` chain now,
  in the order of the code's returns.

* `ShowsInOrder` (`[]ShownInOrder` of `EventStream`), for any contents, lanes,
  topics, views and batch sizes. `StreamInv`: a cursor names one record
  (`CursorsDiffer`: one directory of a lane, one record of a line), so the order
  the stream resumes from is the one the view stopped at; the rows are what the
  lease is owed up to the last event parsed, and the wire holds what is owed
  between that and the stream's cursor (`Showing`, `Flowing`). A read returns the
  first of what is due and none of what lies before its last frame is left out
  (`FramesDue`), with enumerations by rank (`Ranks`, `RanksOnto`) in place of an
  induction over sequences. The attempt showed that a new subscription must drop
  the old lease along with the rows, as the page does (`stream = null`): between
  the two, the rows were empty and the old lease was owed.

TLC checked `ImportInv`, `DeliveryInv`, `TokensInv`, `EnrolInv`, `ConfigInv`,
`RunInv`, `StreamInv`, `PipeInv`, `TailInv`, `CatalogInv`, `SegmentInv`, `ObjectInv`
and the invariants about `Dispatch` and `Lifecycle` on small instances before they were
proved.

Assumptions: `BatchesAssumption` and `BoundsAssumption` of `GatewayStore`,
`LockAssumption` of `InstanceLock`, `PeersAssumption` of `Peers`, those of
`Dispatch`, `SyncOutbox`, `Lifecycle`, `ConfigFile`, `Disclosure`, `AgentRun`,
`EventStream`, `AdapterPipe`, `CatalogStore` and `Lanes` (which only say of what kind the constants are), all evaluated by the runs; `FlockAnswers` in the
theorem about the lock; `Watchers` in the one about the event log; `Serial` in every theorem about the store but
`TypeCorrect`; `~Overlap` in those about `Dispatch`; `MaxRestarts = 0` in
`DeliveredInOneProcess`. All bounds are arbitrary naturals, so the theorems cover
executions of any length.

Only model-checked:

* liveness, which is outside what the prover handles;
* `PlanSound`, `ProtectedKept`, `RebuildExact`, `LineageHonest`,
  `ApprovalSticks`: `Resolve`, `Registry` and `Evidence` walk data with
  recursive operators. An induction over a recursive function can be done as in
  `LifecycleProofs`, one over an operator cannot, so the resolver is checked
  against the declarative `PlanSound` on bounded graphs;
* that a lane and its objects (`Lanes`) compose with the store above them
  (`GatewayStore`), which looks at a lane as lines: each is proved on its own.

## 8. Where the code and its documentation disagree

`store_concurrent` runs (`findings` in `PROJECT.json` quotes both sides). The
others are in the models and appear when the named constant is changed or the
named property is added to a configuration; the last items of each part are
observations made while reading.

Store:

* On an empty store a replayed and then lost first marker stays in the registry
  (`RegistryIsReplay` with `InitSizes = {0}`; `recovery.ts:384`).
* A crash after the exclusive create of `lane.json` leaves an empty file that
  no later open accepts (`OpensAfterCrash`; `lanes.ts:188`). A short object file
  after a crash makes each later put of those bytes `CORRUPT`; two concurrent
  puts of the same bytes let the second fail its verification. A put that finds
  the file verifies it and syncs nothing (`objects.ts:71`): after a put whose sync
  failed, or one a death cut off before it, a marker names an object that a power
  loss takes away (`ObjectsWhole` without `unsynced`). Two commits that
  create different lanes concurrently take the same lane ordinal.
* Registry: `kv_meta` and `catalog_meta` survive a rebuild; `INSERT OR IGNORE`
  on a key without `raw_sha256` drops the second of two conflicting raw
  candidates without a flag, and a flag that is set is reset by the next upsert;
  decimals stored as text are ordered as text; the journal's sequence for
  journal and receipt documents restarts at every boot (`wiring.ts:212`, whose
  comment says "unique per boot"), so they are overwritten.

Lock (`lock.ts:25`, "never a second writer"):

* A helper that times out leads to the `O_EXCL` fallback, and the next daemon
  flocks the same file (`OneWriter` with `slow = 2`). With three processes the
  fallback can remove two stale records of which one is live (`excl = 3`).
* A signal to the group of the daemon ends the helper too (`OneWriter` without
  `torn`): Ctrl-C, or systemd, which signals the whole control group unless the
  unit says otherwise, and the unit of `cli/src/commands/gateway/service.ts:91`
  does not. `lock.ts:251` takes no notice of the helper's exit once the lock is
  held, so while the daemon drains with its store open (`daemon.ts:551`) a second
  start gets the lock; the first then removes the second's `endpoints.json` and
  unlinks the path, and a third start gets a lock as well.
* flock(1) forks its command, so the child of the helper of a crashed daemon
  keeps the lock until somebody ends it; a start that locks a file the path no
  longer names throws and leaves its helper behind.

Dispatch:

* A resend during the first try executes twice and both answer 200
  (`AnswersStick` with `Overlap = TRUE`; `dispatch.ts:594` against the header,
  "semantic replays return the saved result and receipt"). A retry after
  `STORAGE_UNAVAILABLE` executes again; a `daemon.stop` with `grace_ms` 0 can
  close the store before its own receipt commits.

Peers, events, bridge:

* The daemon's epoch is `e<hex>-<id>` while `wiring.ts:135` and the pattern of
  `pairs.ts` ask for a decimal count, so no registration passes in the
  assembled daemon. `assertScope`, `assertRole`, `verifyRequestProof` have no
  caller there, and the wiring passes no `policyScopes`.
* Revoking a session does not end its streams (`RevokeEndsStreams`), and revoke
  closes the leases of the exchange's principal. `ack` never extends a lease,
  though `gateway-web/src/routes/events.ts:148` says it keeps "the 60 s lease
  warm"; "Replay earliest retained" asks for `after: "earliest"`, which the
  service refuses. An ack writes back a stale row, so `delivered` can fall and a
  closed lease reopen. Two publishes of the same bytes under way at once both
  commit, and the second cursor is not indexed (`events-svc.ts:337`).
  `/v2/events` does not check the lease's owner. A `false` of `writeSseFrame` on
  backpressure skips the credit accounting. `readAfter` looks at 4096 index rows
  and has no frame when none is of the lease's topics, and only a frame moves the
  cursor: more rows of other topics than that in a row stall a view for ever
  (`CaughtUp` without `Starved`; `bridge-state.ts:167`).

Platform:

* `config.apply`: two concurrent applies at one revision both answer success;
  the document is written to the store while the daemon boots from the file;
  the comment of `isProtectedChange` counts file system grants as protected and
  `bus.log_path` is not. A heartbeat, finish and second register of one run
  overwrite one another's row. `operations.ts` lists `STAGED` as cancellable and
  its header does not. `from: "now"` is stored as `__NOW__`.
* Cloud: `pairRevoke` awaits the notice before the durable write (comment:
  "Durable local revocation first"); a crash between the consumption of an
  enrollment and the pairing loses the pairing; revoking an older pairing clears
  the current one; no providers are bound, so `pairBegin` is always `NOT_FOUND`.
* Approvals: a request may carry an `expires_ms` already past; an expiry does
  not move the revision.
* Evidence: the run id of an audit history is the client's request id, so two
  callers who choose the same id share slots, and lineage's previous link
  resolves to the newest without a gap. A walk cut by `max_depth` reports no
  gap; `CAP_ADAPTER_UNAVAILABLE` is always one.

Sync:

* After a restart rows are regrouped under the first row's stage and ACKED
  without being delivered (`AckedDelivered` with `MaxRestarts > 0`;
  `outbox.ts:151`); rows left `IN_FLIGHT` by a stop are never sent again
  (`InFlightSettles` with restarts; `outbox.ts:341`); after a `sync.configure`
  that moves the destination, older and newer rows share a batch
  (`OwnDestination` with changes; `sinks.ts:97`).
* A row write that throws (`outbox.ts:455`, `outbox.ts:481`) is swallowed at
  `outbox.ts:424`, under a comment that says "runSend never rejects"; the rows
  written so far stay `IN_FLIGHT` and are never sent again (`InFlightSettles`
  without `stuck`).
* `flush` judges progress by copies (`outbox.ts:553`); the gate forgets its run
  after a restart (`outbox.ts:155`); the event and its row are two commits
  (`outbox.ts:253`); a conflict whose answer was lost is acknowledged by the
  retry (`sinks.ts:223`); each row of a batch has its own backoff, so a resend
  has other members (`outbox.ts:506`); rows built under a withdrawn consent are
  still sent (`outbox.ts:338`); a rejected `prepare` is retried without backoff;
  `setAckedThrough` can move the cut backwards. The VekInbox sink's retry after
  a partial upsert conflicts for ever, and its `stored` is the last card's. The
  daemon as deployed binds no sinks, and nothing calls `enqueue`.
* Disclosure: the patterns of `disclosure.ts:65` are not global, so a second
  match in one text stays in the payload, under a comment that says "Each match
  is replaced"; the masked profile keeps `source` without the consent for ids, and
  the keys of its objects are digests although hashes were not consented; `ids`
  defaults to allow under a comment that says all flags default to deny; the
  full profile sends allowed objects unredacted; an intent repeated after new
  objects came is answered with the older payload.

Products and adapters:

* What is installed need not be what was reviewed (`InstalledAsReviewed`;
  `engine.ts:340` against `service.ts:5`): the archive is fetched again and only
  its own manifest is checked. Planned dependencies are never installed. The
  second range on a product of a diamond is not checked again; `InstalledHit`
  takes the last row whatever its state; optional dependencies are resolved when
  they are not installed, and cycles through them are refused. `uninstall` walks
  its graph with no manifests and always fails with `keep_data = false`. A
  rollback that fails in `FETCHING` turns the retained row `REJECTED`.
  `authorizeInstall`, pins and revocations are never asked by plan or install;
  the time high-water mark is written and never read; the "atomic persist" of a
  refresh is three commits. `extract.ts` does not check a file entry over an
  earlier directory. No fetcher, roots or keys are bound in the daemon.
* Engine: the late exit of a stopped adapter resurrects its row (`StoppedStays`;
  `engine.ts:493`); a restart that fails in `STARTING` or `HEALTHCHECKING`
  cannot move to `QUARANTINED`, and the rejection ends the daemon
  (`engine.ts:697`); the restart of a candidate that was never active fails its
  compare-and-swap; rows left `READY` or in the middle of a stop by a dead
  daemon keep their state with no process behind them; `cancel` marks the first
  row of the version, which may be another operation's; a crash between the
  `indexed` mark and the journal entry loses the entry.
* Adapter: a stop during a live probe finds the client busy and quarantines a
  clean adapter; `stop`'s `uncertain` list is ignored; the late reply of a
  timed-out request rejects the next request; a failed restart leaves its child
  running, and a child may outlive `STOPPED` (only SIGTERM is sent).

Run, stages, bus, reader, configuration:

* `latticeag run`: the exit code is not what the comment of `run.ts` says under
  signals and failed sync (`ExitPolicy`); handlers that resolve after `stop`
  reject with nobody listening; emits of child mode always time out; a second
  run in one directory overwrites and then removes the first one's `bus.pid`;
  a `causation_id` a caller posts is forwarded unchecked (`ingest.ts:170`,
  `child-bus.ts:69`), and a belief batch names the id of its first event before
  that event is persisted (`adapters/axion/src/index.ts:310`);
  `--run-id` starts the numbers again at 1; the replay reads only the current
  file of a rotated log.
* Stages: `fixturesLoaded` is set before the files are read; two verifies of one
  cause both post; the backend cache is overwritten by a slower probe; `record`
  without `wrap` emits a fixture session; `emitPartials` never increments its
  index; `startIngestHost` always throws.
* `events --follow` repeats and loses lines (`TailExact` for kind `follower`);
  the child bus reads bytes twice; the guarded watcher repeats lines when a
  rotation falls between `stat` and `open`, decodes each read on its own, so that
  a character cut in two garbles or drops its line (`watch.ts:85`), and leaves the
  rejection of an `open` to nobody (`watch.ts:75`); it has no production caller.
* Migration: the reviewed document may not be the one written
  (`ReviewedIsWritten`; `config-cmd.ts`, "the review digest covers exactly what
  would be written"), as the file is read three times; a crash after the backup
  was begun makes every retry fail with `EEXIST`; an edit between the last read
  and the rename is lost without a backup; `--output` is not synced.

## 9. What is not modelled

* Disk errors after a partial effect in `GatewayStore`; a reducer that throws;
  scans over a cursor range and paged queries, which only read.
* `Platform`: the tables `kv_meta` and `catalog_meta`, which a rebuild does not
  empty, are not compared by `RebuildExact`, and of the families of services only
  the one of products meets an index that is ahead of its journal. `LineageHonest`
  is about records that are there or lost, not about one that cannot be parsed,
  and its walks are not long enough for `max_depth` to cut them.
* The VekInbox sink's record formats and its batch loop; the table
  `gateway-daemon/src/store` keeps for a second outbox, which the engine does
  not use; the in-memory doubles of the ports.
* Parsing, schemas, canonical JSON, curves, encodings and generated code: pure
  functions of bytes. Where a model needs them they are an outcome, or a value
  is the record of what it commits to.
* The rate limiter, the egress policy, header formats, metrics; the field rules
  of the two configuration schemas.
* The adapters' HTTP formats, and what visreplay does beyond the run's wait for
  it; `doctor`, `status` and the other commands that print; the terminal and web
  front ends except the stream reader; code generation, tests and examples.
