---------------------------- MODULE GatewayStore ----------------------------
(***************************************************************************)
(* The storage core of the gateway daemon: the hash-chained commit journal *)
(* (store/journal.ts), the append-only lanes (store/lanes.ts), the derived *)
(* sqlite registry (store/registry.ts), the commit protocol that ties them *)
(* together (store/store.ts) and crash recovery (store/recovery.ts).       *)
(*                                                                         *)
(* Every await of the code is a scheduling point, so a commit is a chain   *)
(* of steps of its caller; a synchronous commit blocks the event loop and  *)
(* its steps are only there because the process can die between them.      *)
(*                                                                         *)
(* A commit is named by a number, its op.  The sha256 of a journal line is *)
(* abstracted to the op of the line (an op is journaled at most once, so   *)
(* different lines have different hashes) and a lane record to the op that *)
(* wrote it.  Every lane is one segment here and a record is one line, so  *)
(* the offset of a record is its line number minus one.                    *)
(***************************************************************************)
EXTENDS Integers, Sequences, FiniteSets

CONSTANTS
    Callers,     \* concurrent users of the store: RPC handlers, ports
    Lanes,       \* lane keys
    Batches,     \* the record lists a commit may carry: sequences of lanes
    Serial,      \* the workload has at most one commit in flight
    InitSizes,   \* number of durable commits the store may start with
    MaxOps,      \* bound on the commits issued
    MaxCrashes   \* bound on the crashes

ASSUME BatchesAssumption == Batches \subseteq Seq(Lanes)

ASSUME BoundsAssumption ==
    /\ Serial \in BOOLEAN
    /\ InitSizes \subseteq 0..MaxOps
    /\ MaxOps \in Nat
    /\ MaxCrashes \in Nat

VARIABLES
    \* Files: they survive a crash.
    journal,      \* LF-terminated lines of the commit journal
    journalSynced,\* how many of them an fsync has covered
    journalTorn,  \* bytes after the last LF
    lane,         \* lane[l]: the lines of lane l
    laneSynced,   \* laneSynced[l]: how many of them an fsync has covered
    applied,      \* ops whose mutation the registry's tables hold, in order
    lastIndexed,  \* last_indexed_tx of the registry (0: null or "0")
    \* Memory of the process.
    mode,         \* what the process is doing
    readOnly,     \* the store's readOnly flag
    markers,      \* the verified markers recovery works on
    headTx,       \* Journal.headTx (0: null)
    headHash,     \* Journal.headHash (0: GENESIS_HASH)
    offset,       \* offset[l]: LaneWriter.offset of lane l
    index,        \* committed locators served by laneScan and readCursor
    pc,           \* pc[c]: where the commit of caller c stands
    ctx,          \* ctx[c]: the locals of that commit
    \* What callers were told, and the bounds.
    acked,        \* results of resolved commits
    issued,       \* ops issued so far
    crashes       \* crashes so far

files  == <<journal, journalSynced, journalTorn, lane, laneSynced>>
reg    == <<applied, lastIndexed>>
head   == <<headTx, headHash>>
memory == <<mode, readOnly, markers, headTx, headHash, offset, index>>
vars   == <<files, reg, memory, pc, ctx, acked, issued, crashes>>

Op == 1..MaxOps

Locator == [lane : Lanes, line : Nat]

Marker == [tx : Nat, previous : Nat, op : Nat, records : SUBSET Locator]

\* What a line becomes when it is written behind a torn fragment: bytes that
\* do not parse.
Garbage == [tx |-> 0, previous |-> 0, op |-> 0, records |-> {}]

NoCommit == [op |-> 0, todo |-> <<>>, at |-> 0, records |-> {},
             marker |-> Garbage, kind |-> "async"]

Modes == {"down", "lanes", "registry", "open"}

\* The await a commit of the store stands at.
Stages == {"idle", "lane", "append", "compose", "check", "write", "fsync",
           "finish"}

-----------------------------------------------------------------------------
(* Reading a journal and a lane. *)

OpsOf(ms) == [i \in 1..Len(ms) |-> ms[i].op]

\* Hash of the line before line k.
PreviousHash(j, k) == IF k = 1 THEN 0 ELSE j[k - 1].op

\* Line k does not parse, or its previous-link does not name line k - 1.
BadLink(j, k) == j[k].op = 0 \/ j[k].previous # PreviousHash(j, k)

\* The link holds but the tx does not advance (or does not start at 1).
BadTx(j, k) == IF k = 1 THEN j[k].tx # 1 ELSE j[k].tx <= j[k - 1].tx

BadLines(j) == {k \in 1..Len(j) : BadLink(j, k) \/ BadTx(j, k)}

FirstBad(j) == CHOOSE k \in BadLines(j) : \A m \in BadLines(j) : k <= m

\* Mutant: the last line, which no later line vouches for, is left out.
VerifiedLengthCut(j) == IF Len(j) = 0 THEN 0 ELSE Len(j) - 1

\* A broken link also leaves the line before it unverified.
VerifiedLength(j) ==
    IF BadLines(j) = {} THEN Len(j)
    ELSE LET k == FirstBad(j)
         IN  IF BadLink(j, k) THEN (IF k < 2 THEN 0 ELSE k - 2) ELSE k - 1

Verified(j) == SubSeq(j, 1, VerifiedLength(j))

\* The committed extents of a list of markers.
RecordsOf(ms) == UNION {ms[i].records : i \in 1..Len(ms)}

\* Two markers claim the same extent for different records.
Conflicting(ms) ==
    \E i, k \in 1..Len(ms) : i < k /\ ms[i].records \cap ms[k].records # {}

\* A committed extent of lane l is not in its file as it was written.
Damaged(ms, l) ==
    \E i \in 1..Len(ms) : \E r \in ms[i].records :
        r.lane = l /\ (r.line > Len(lane[l]) \/ lane[l][r.line] # ms[i].op)

\* The lengths of lane l that keep every committed record of it.
Keeping(ms, l) == {n \in 0..Len(lane[l]) :
                      \A r \in RecordsOf(ms) : r.lane = l => r.line <= n}

\* End of the last committed record of a lane that is not damaged.
CommittedEnd(ms, l) ==
    CHOOSE n \in Keeping(ms, l) : \A m \in Keeping(ms, l) : n <= m

-----------------------------------------------------------------------------
(* Initial states: a cleanly closed store with n durable commits. *)

ClosedStore(n) ==
    /\ journal = [i \in 1..n |-> [tx |-> i, previous |-> i - 1, op |-> i,
                                   records |-> {}]]
    /\ journalSynced = n
    /\ applied = [i \in 1..n |-> i]
    /\ lastIndexed = n
    /\ issued = n

Init ==
    /\ \E n \in InitSizes : ClosedStore(n)
    /\ journalTorn = FALSE
    /\ lane = [l \in Lanes |-> <<>>]
    /\ laneSynced = [l \in Lanes |-> 0]
    /\ mode = "down"
    /\ readOnly = FALSE
    /\ markers = <<>>
    /\ headTx = 0
    /\ headHash = 0
    /\ offset = [l \in Lanes |-> 0]
    /\ index = {}
    /\ pc = [c \in Callers |-> "idle"]
    /\ ctx = [c \in Callers |-> NoCommit]
    /\ acked = {}
    /\ crashes = 0

-----------------------------------------------------------------------------
(* GatewayStore.commit, one step per await. *)

\* The event loop runs caller c: no synchronous commit of another one is on
\* the stack.
Running(c) == mode = "open" /\ \A d \in Callers \ {c} : ctx[d].kind # "sync"

\* c may call commit or commitSync: the store is not read-only, and under a
\* serial workload no other commit is in flight.
MayCommit(c) ==
    /\ Running(c)
    /\ ~readOnly
    /\ pc[c] = "idle"
    /\ Serial => \A d \in Callers : pc[d] = "idle"
    /\ issued < MaxOps

\* Journal.nextMarker: the successor of the head known in memory.
NextMarker(op, records) ==
    [tx |-> headTx + 1, previous |-> headHash, op |-> op, records |-> records]

\* The bytes an append leaves in the journal file.
Written(m) == IF journalTorn THEN Garbage ELSE m

Step(c, from, to, new) ==
    /\ Running(c)
    /\ pc[c] = from
    /\ pc' = [pc EXCEPT ![c] = to]
    /\ ctx' = [ctx EXCEPT ![c] = new]

Begin(c, b) ==
    /\ MayCommit(c)
    /\ Step(c, "idle", "lane", [NoCommit EXCEPT !.op = issued + 1, !.todo = b])
    /\ issued' = issued + 1
    /\ UNCHANGED <<files, reg, memory, acked, crashes>>

\* LaneWriter.append up to its write: the offset of the record is read now.
AppendStart(c) ==
    /\ ctx[c].todo # <<>>
    /\ Step(c, "lane", "append", [ctx[c] EXCEPT !.at = offset[Head(ctx[c].todo)]])
    /\ UNCHANGED <<files, reg, memory, acked, issued, crashes>>

\* The write has landed (O_APPEND) and the writer's offset moves on.
AppendDone(c) ==
    LET l == Head(ctx[c].todo) IN
    /\ Step(c, "append", "lane",
            [ctx[c] EXCEPT !.todo = Tail(@),
                           !.records = @ \cup {[lane |-> l, line |-> ctx[c].at + 1]}])
    /\ lane' = [lane EXCEPT ![l] = Append(@, ctx[c].op)]
    /\ offset' = [offset EXCEPT ![l] = @ + 1]
    /\ UNCHANGED <<journal, journalSynced, journalTorn, laneSynced, reg, mode,
                   readOnly, markers, head, index, acked, issued, crashes>>

\* Mutant: the lanes are not synced before the marker.
FsyncLanesSkipped(c) ==
    /\ ctx[c].todo = <<>>
    /\ Step(c, "lane", "compose", ctx[c])
    /\ UNCHANGED <<files, reg, memory, acked, issued, crashes>>

\* fsync of every touched lane.
FsyncLanes(c) ==
    /\ ctx[c].todo = <<>>
    /\ Step(c, "lane", "compose", ctx[c])
    /\ laneSynced' = [l \in Lanes |-> IF \E r \in ctx[c].records : r.lane = l
                                      THEN Len(lane[l]) ELSE laneSynced[l]]
    /\ UNCHANGED <<journal, journalSynced, journalTorn, lane, reg, memory, acked,
                   issued, crashes>>

Compose(c) ==
    /\ Step(c, "compose", "check",
            [ctx[c] EXCEPT !.marker = NextMarker(ctx[c].op, ctx[c].records)])
    /\ UNCHANGED <<files, reg, memory, acked, issued, crashes>>

\* Does the marker extend the head Journal.append knows?
ExtendsHead(m) == m.tx = headTx + 1 /\ m.previous = headHash

Check(c) ==
    /\ IF ExtendsHead(ctx[c].marker)
       THEN Step(c, "check", "write", ctx[c])
       ELSE Step(c, "check", "idle", NoCommit)        \* CHAIN_MISMATCH
    /\ UNCHANGED <<files, reg, memory, acked, issued, crashes>>

Write(c) ==
    /\ Step(c, "write", "fsync", ctx[c])
    /\ journal' = Append(journal, Written(ctx[c].marker))
    /\ journalTorn' = FALSE
    /\ UNCHANGED <<journalSynced, lane, laneSynced, reg, memory, acked, issued,
                   crashes>>

\* commitSync up to its write: nextMarker and appendSync without an await.
CommitSync(c) ==
    LET m == NextMarker(issued + 1, {}) IN
    /\ MayCommit(c)
    /\ Step(c, "idle", "fsync",
            [NoCommit EXCEPT !.op = issued + 1, !.marker = m, !.kind = "sync"])
    /\ issued' = issued + 1
    /\ journal' = Append(journal, Written(m))
    /\ journalTorn' = FALSE
    /\ UNCHANGED <<journalSynced, lane, laneSynced, reg, memory, acked, crashes>>

\* Mutant: the marker is not synced before the acknowledgement.
FsyncJournalSkipped(c) ==
    /\ Step(c, "fsync", "finish", ctx[c])
    /\ UNCHANGED <<files, reg, memory, acked, issued, crashes>>

FsyncJournal(c) ==
    /\ Step(c, "fsync", "finish", ctx[c])
    /\ journalSynced' = Len(journal)
    /\ UNCHANGED <<journal, journalTorn, lane, laneSynced, reg, memory, acked,
                   issued, crashes>>

\* Registry.applyCommit: one sqlite transaction.
ApplyCommit(m) ==
    /\ applied' = Append(applied, m.op)
    /\ lastIndexed' = m.tx

\* The head moves, the records become readable, the registry follows, and
\* the caller gets its {tx, cursors}.
Finish(c) ==
    LET m == ctx[c].marker IN
    /\ Step(c, "finish", "idle", NoCommit)
    /\ headTx' = m.tx
    /\ headHash' = m.op
    /\ index' = index \cup m.records
    /\ ApplyCommit(m)
    /\ acked' = acked \cup {m}
    /\ UNCHANGED <<files, mode, readOnly, markers, offset, issued, crashes>>

\* An I/O call rejects before it wrote anything: the commit rejects and what
\* it appended to lanes stays behind as an orphan.
Fail(c) ==
    /\ pc[c] \in {"lane", "append", "write"}
    /\ Step(c, pc[c], "idle", NoCommit)
    /\ UNCHANGED <<files, reg, memory, acked, issued, crashes>>

-----------------------------------------------------------------------------
(* Crashes. *)

\* Memory is gone.
Reset ==
    /\ mode' = "down"
    /\ readOnly' = FALSE
    /\ markers' = <<>>
    /\ headTx' = 0
    /\ headHash' = 0
    /\ offset' = [l \in Lanes |-> 0]
    /\ index' = {}
    /\ pc' = [c \in Callers |-> "idle"]
    /\ ctx' = [c \in Callers |-> NoCommit]
    /\ crashes' = crashes + 1
    /\ UNCHANGED <<reg, acked, issued>>

Writing == \E c \in Callers : pc[c] = "write"

\* The process dies: the page cache keeps every byte written, synced or not,
\* and an append under way may have left a fragment.
ProcessCrash ==
    /\ mode # "down"
    /\ crashes < MaxCrashes
    /\ journalTorn' \in {journalTorn, journalTorn \/ Writing}
    /\ UNCHANGED <<journal, journalSynced, lane, laneSynced>>
    /\ Reset

\* Length of the longest lane.
Longest == CHOOSE n \in {Len(lane[l]) : l \in Lanes} :
               \A l \in Lanes : Len(lane[l]) <= n

\* The machine dies: of what no fsync covered, any prefix survives.
PowerLoss ==
    /\ crashes < MaxCrashes
    /\ \E n \in journalSynced..Len(journal) :
          /\ journal' = SubSeq(journal, 1, n)
          /\ journalSynced' = n
          /\ journalTorn' \in {FALSE, journalTorn \/ Writing \/ n < Len(journal)}
    /\ \E keep \in [Lanes -> 0..Longest] :
          /\ \A l \in Lanes : keep[l] \in laneSynced[l]..Len(lane[l])
          /\ lane' = [l \in Lanes |-> SubSeq(lane[l], 1, keep[l])]
          /\ laneSynced' = keep
    /\ Reset

-----------------------------------------------------------------------------
(* Recovery: recoverStoreContext, then GatewayStore.open. *)

\* Mutant: the torn tail is left in the file.
RecoverJournalKeepsTail ==
    /\ mode = "down"
    /\ mode' = "lanes"
    /\ markers' = Verified(journal)
    /\ readOnly' = (BadLines(journal) # {})
    /\ headTx' = IF markers' = <<>> THEN 0 ELSE markers'[Len(markers')].tx
    /\ headHash' = IF markers' = <<>> THEN 0 ELSE markers'[Len(markers')].op
    /\ UNCHANGED <<files, reg, offset, index, pc, ctx, acked, issued, crashes>>

\* Journal.verify: cut a torn tail, check the chain.
RecoverJournal ==
    /\ mode = "down"
    /\ mode' = "lanes"
    /\ journalTorn' = FALSE
    /\ journalSynced' = IF journalTorn THEN Len(journal) ELSE journalSynced
    /\ markers' = Verified(journal)
    /\ readOnly' = (BadLines(journal) # {})
    /\ headTx' = IF markers' = <<>> THEN 0 ELSE markers'[Len(markers')].tx
    /\ headHash' = IF markers' = <<>> THEN 0 ELSE markers'[Len(markers')].op
    /\ UNCHANGED <<journal, lane, laneSynced, reg, offset, index, pc, ctx, acked,
                   issued, crashes>>

\* recoverLane of every lane: what follows the last committed record goes to
\* quarantine; a damaged lane, and every lane of a
\* read-only store, is left as it is.
RecoverLanes ==
    /\ mode = "lanes"
    /\ mode' = "registry"
    /\ readOnly' = (readOnly \/ Conflicting(markers)
                             \/ \E l \in Lanes : Damaged(markers, l))
    /\ lane' = [l \in Lanes |->
                  IF readOnly \/ Damaged(markers, l) THEN lane[l]
                  ELSE SubSeq(lane[l], 1, CommittedEnd(markers, l))]
    /\ laneSynced' = [l \in Lanes |->
                        IF readOnly \/ Damaged(markers, l) THEN laneSynced[l]
                        ELSE CommittedEnd(markers, l)]
    /\ UNCHANGED <<journal, journalSynced, journalTorn, reg, markers, head, offset,
                   index, pc, ctx, acked, issued, crashes>>

MarkerTxs == {markers[i].tx : i \in 1..Len(markers)}

\* Mutant: a registry ahead of the journal is not rebuilt.
RebuildRegistryBehind ==
    /\ mode = "registry"
    /\ markers # <<>>
    /\ lastIndexed < markers[1].tx
    /\ applied' = OpsOf(markers)
    /\ lastIndexed' = headTx
    /\ UNCHANGED <<files, memory, pc, ctx, acked, issued, crashes>>

\* rebuildFromJournal: one transaction, when last_indexed_tx is of no marker.
RebuildRegistry ==
    /\ mode = "registry"
    /\ markers # <<>>
    /\ lastIndexed \notin MarkerTxs
    /\ applied' = OpsOf(markers)
    /\ lastIndexed' = headTx
    /\ UNCHANGED <<files, memory, pc, ctx, acked, issued, crashes>>

\* Mutant: the marker at last_indexed_tx is applied again.
ReplayMarkerAgain ==
    /\ mode = "registry"
    /\ lastIndexed \in MarkerTxs
    /\ \E i \in 1..Len(markers) :
          /\ markers[i].tx >= lastIndexed
          /\ \A k \in 1..(i - 1) : markers[k].tx < lastIndexed
          /\ ApplyCommit(markers[i])
    /\ UNCHANGED <<files, memory, pc, ctx, acked, issued, crashes>>

\* applyCommit of the first marker beyond last_indexed_tx.
ReplayMarker ==
    /\ mode = "registry"
    /\ lastIndexed \in MarkerTxs
    /\ \E i \in 1..Len(markers) :
          /\ markers[i].tx > lastIndexed
          /\ \A k \in 1..(i - 1) : markers[k].tx <= lastIndexed
          /\ ApplyCommit(markers[i])
    /\ UNCHANGED <<files, memory, pc, ctx, acked, issued, crashes>>

\* The store is constructed on what was recovered and its lane writers are
\* reopened.
Open ==
    /\ mode = "registry"
    /\ markers # <<>> => lastIndexed = headTx
    /\ mode' = "open"
    /\ index' = RecordsOf(markers)
    /\ offset' = [l \in Lanes |-> Len(lane[l])]
    /\ UNCHANGED <<files, reg, readOnly, markers, head, pc, ctx, acked, issued,
                   crashes>>

\* The steps of opening a store.
Recover == \/ RecoverJournal
           \/ RecoverLanes
           \/ RebuildRegistry
           \/ ReplayMarker
           \/ Open

Commit(c) == \/ \E b \in Batches : Begin(c, b)
             \/ AppendStart(c)
             \/ AppendDone(c)
             \/ FsyncLanes(c)
             \/ Compose(c)
             \/ Check(c)
             \/ Write(c)
             \/ CommitSync(c)
             \/ FsyncJournal(c)
             \/ Finish(c)
             \/ Fail(c)

Next == \/ \E c \in Callers : Commit(c)
        \/ Recover
        \/ ProcessCrash
        \/ PowerLoss

Spec == Init /\ [][Next]_vars

\* The event loop and the disk serve a commit under way, and a store that is
\* down is reopened by its supervisor.  Nothing forces a caller to commit, an
\* I/O call to fail or the process to crash.
Progress(c) == \/ AppendStart(c) \/ AppendDone(c) \/ FsyncLanes(c)
               \/ Compose(c) \/ Check(c) \/ Write(c) \/ FsyncJournal(c)
               \/ Finish(c)

FairSpec == Spec /\ WF_vars(Recover) /\ \A c \in Callers : WF_vars(Progress(c))

-----------------------------------------------------------------------------
(* Properties. *)

FilesTypeOK ==
    /\ journal \in Seq(Marker)
    /\ journalSynced \in 0..Len(journal)
    /\ lane \in [Lanes -> Seq(Nat)]
    /\ laneSynced \in [Lanes -> Nat]
    /\ \A l \in Lanes : laneSynced[l] <= Len(lane[l])

RegistryTypeOK == applied \in Seq(Nat) /\ lastIndexed \in Nat

MemoryTypeOK ==
    /\ mode \in Modes
    /\ markers \in Seq(Marker)
    /\ headTx \in Nat /\ headHash \in Nat
    /\ offset \in [Lanes -> Nat]
    /\ index \subseteq Locator

Context == [op : Nat, todo : Seq(Lanes), at : Nat, records : SUBSET Locator,
            marker : Marker, kind : {"async", "sync"}]

CallersTypeOK ==
    /\ pc \in [Callers -> Stages]
    /\ ctx \in [Callers -> Context]
    /\ \A c \in Callers : pc[c] = "append" => ctx[c].todo # <<>>

\* Every variable has its type; a commit that is writing to a lane has a
\* record left to write.
TypeOK ==
    /\ FilesTypeOK
    /\ RegistryTypeOK
    /\ MemoryTypeOK
    /\ CallersTypeOK
    /\ journalTorn \in BOOLEAN
    /\ readOnly \in BOOLEAN
    /\ acked \subseteq Marker
    /\ issued \in 0..MaxOps
    /\ crashes \in 0..MaxCrashes

\* Every line of the journal extends the one before it: the tx is the line
\* number and the previous-link names the line above (Journal.append's chain
\* check together with the head it keeps in memory across crashes).
JournalChained ==
    \A k \in 1..Len(journal) :
        /\ journal[k].op # 0
        /\ journal[k].tx = k
        /\ journal[k].previous = PreviousHash(journal, k)

\* A commit whose promise resolved is in the fsynced part of the journal at
\* the tx it was told, and each of its records is in the fsynced part of its
\* lane at the offset it was told: the order objects, lanes, fsync, marker,
\* fsync, acknowledge of GatewayStore.commit, whatever crashes come after.
AckedDurable ==
    \A m \in acked :
        /\ m.tx <= journalSynced
        /\ journal[m.tx] = m
        /\ \A r \in m.records : /\ r.line <= laneSynced[r.lane]
                                /\ lane[r.lane][r.line] = m.op

\* In an open store the registry holds the mutations of the journal, each
\* exactly once and in order, except for the one marker of a commit that is
\* still under way: replay beyond last_indexed_tx neither skips nor repeats.
RegistryIsReplay ==
    mode = "open" =>
        /\ lastIndexed = headTx
        /\ lastIndexed <= Len(journal)
        /\ Len(applied) = lastIndexed
        /\ \A i \in 1..lastIndexed : applied[i] = journal[i].op
        /\ (\A c \in Callers : pc[c] \notin {"fsync", "finish"})
              => lastIndexed = Len(journal)

\* Only journaled records are served: every locator of the in-memory index
\* belongs to a journal line, and the lane bytes at that place are those of
\* that commit, never an orphan's.
ServedIsCommitted ==
    mode = "open" =>
        \A r \in index : \E k \in 1..Len(journal) :
            /\ r \in journal[k].records
            /\ r.line <= Len(lane[r.lane])
            /\ lane[r.lane][r.line] = journal[k].op

\* No sequence of commits, failures and crashes makes recovery classify the
\* store as corrupt.
NeverReadOnly == ~readOnly

\* What was acknowledged is readable in every open store: its records are in
\* the index and its mutation is in the registry.
AckedServed ==
    mode = "open" => \A m \in acked :
        /\ m.records \subseteq index
        /\ m.tx <= Len(applied) /\ applied[m.tx] = m.op

\* The store implements the abstract log: its durable lines are the log, its
\* resolved commits the answers.  No crash, replay or retry shortens, reorders
\* or repeats what a caller was told.
Log == INSTANCE CommitLog
       WITH Ops  <- Op,
            log  <- OpsOf(SubSeq(journal, 1, journalSynced)),
            told <- {[tx |-> m.tx, op |-> m.op] : m \in acked}

ImplementsLog == Log!Spec

\* A commit that began ends, by an answer or by a crash of the process.
CommitEnds == \A c \in Callers : pc[c] # "idle" ~> pc[c] = "idle"

\* A store that is down comes up again.
Reopens == mode = "down" ~> mode = "open"

=============================================================================
