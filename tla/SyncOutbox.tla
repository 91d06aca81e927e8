----------------------------- MODULE SyncOutbox -----------------------------
(***************************************************************************)
(* The sync outbox of core/src/v2/sync: the engine of outbox.ts (enqueue,  *)
(* pump and its sends, pause and resume, repair, flush, the fail-on-sync   *)
(* gate), the Proof import sink of sinks.ts it sends through, and the      *)
(* sync.configure of service.ts that changes the consent behind it.        *)
(*                                                                         *)
(* Time is abstracted: due[i] says that the backoff of item i has passed.  *)
(* A batch is the set of its items, which is also what its hash commits    *)
(* to; the order of a batch only decides which item's destination and      *)
(* remote stage it takes, and any item may come first.  The destination    *)
(* (ProofImportPort) is external: stages that are created, committed once  *)
(* and remembered, every call of which may fail before or after its        *)
(* effect.  Enqueue stands for a call that reached its commit hook: a      *)
(* disclosure that is denied or too large throws before it.  A row write   *)
(* that throws leaves the row as it was.                                   *)
(***************************************************************************)
EXTENDS Naturals, FiniteSets, Sequences

CONSTANTS
    Items,          \* source events that may be exported
    Streams,        \* sync streams
    StreamOf,       \* StreamOf[i]: the stream of item i
    RunItems,       \* the items enqueued by the run that is to be gated
    Contested,      \* items whose source slot already holds another candidate
    Destinations,   \* destination bindings
    InitDest,       \* InitDest[s]: the destination of stream s at the start
    Bound,          \* the destinations an adapter is bound for
    BatchLimit,     \* SYNC_LIMITS.batchEvents
    MaxAttempts,    \* bound on the sends of an item
    MaxRestarts,    \* bound on the restarts of the process
    MaxChanges,     \* bound on the sync.configure calls
    MaxFlushes,     \* bound on the sync.flush calls
    MaxFaults,      \* bound on the row writes that fail in a living process
    MaxStages       \* bound on the stages the destinations create

ASSUME OutboxAssumption ==
    /\ StreamOf \in [Items -> Streams]
    /\ RunItems \subseteq Items /\ Contested \subseteq Items
    /\ InitDest \in [Streams -> Destinations]
    /\ Bound \subseteq Destinations
    /\ BatchLimit \in Nat \ {0}
    /\ {MaxAttempts, MaxRestarts, MaxChanges, MaxFlushes, MaxFaults, MaxStages} \subseteq Nat

GlobalSenders == 2

VARIABLES
    \* Durable.
    consent,    \* consent[s]: the consent record of stream s
    paused,     \* the paused streams
    box,        \* box[i]: the outbox row of item i
    due,        \* the items whose next_attempt_ms has passed
    \* Memory of the process.
    batchOf,    \* batchOf[i]: OutboxEngine.itemBatch ({}: no batch yet)
    send,       \* send[s]: the send of stream s under way
    admitted,   \* OutboxEngine.runItems of the run
    flush,      \* the sync.flush under way or answered last
    \* The destinations.
    stage,      \* the import stages created so far
    stuck,      \* history: the rows a send that was cut off left IN_FLIGHT
    \* Bounds.
    restarts, changes, faults

rows    == <<box, due>>
memory  == <<batchOf, send, admitted, flush>>
bounds  == <<stuck, restarts, changes, faults>>
vars    == <<consent, paused, rows, memory, stage, bounds>>

States == {"NONE", "PENDING", "IN_FLIGHT", "RETRY", "BLOCKED", "ACKED"}

\* OUTBOX_TRANSITIONS
Legal == [NONE      |-> {"PENDING"},
          PENDING   |-> {"IN_FLIGHT", "BLOCKED"},
          IN_FLIGHT |-> {"ACKED", "RETRY", "BLOCKED"},
          RETRY     |-> {"IN_FLIGHT", "BLOCKED"},
          BLOCKED   |-> {"PENDING"},
          ACKED     |-> {}]

NoItem  == [state |-> "NONE", dest |-> "none", stage |-> 0, attempts |-> 0]
NoSend  == [phase |-> "none", members |-> {}, dest |-> "none", stage |-> 0]
NoFlush == [phase |-> "idle", count |-> 0, captured |-> {}, open |-> {}, left |-> {}]

Stored == {i \in Items : box[i].state # "NONE"}
InState(st) == {i \in Items : box[i].state = st}
Open(S) == {i \in S : box[i].state # "ACKED"}

-----------------------------------------------------------------------------

Init ==
    /\ consent = [s \in Streams |-> [enabled |-> TRUE, dest |-> InitDest[s]]]
    /\ paused = {}
    /\ box = [i \in Items |-> NoItem]
    /\ due = {}
    /\ batchOf = [i \in Items |-> {}]
    /\ send = [s \in Streams |-> NoSend]
    /\ admitted = {}
    /\ flush = NoFlush
    /\ stage = <<>>
    /\ stuck = {}
    /\ restarts = 0
    /\ changes = 0
    /\ faults = 0

-----------------------------------------------------------------------------
(* The engine. *)

\* enqueue of a new item: the caller's commit hook, then the row.  A stream
\* that is off produces no work.
Enqueue(i) ==
    /\ consent[StreamOf[i]].enabled
    /\ box[i].state = "NONE"
    /\ box' = [box EXCEPT ![i] = [NoItem EXCEPT !.state = "PENDING",
                                     !.dest = consent[StreamOf[i]].dest]]
    /\ admitted' = admitted \cup ({i} \cap RunItems)
    /\ UNCHANGED <<consent, paused, due, batchOf, send, flush, stage, bounds>>

Sendable(i) ==
    /\ StreamOf[i] \notin paused
    /\ box[i].state = "PENDING" \/ (box[i].state = "RETRY" /\ i \in due)

Ready(s) == {i \in Items : StreamOf[i] = s /\ Sendable(i)}

\* What nextBatchMembers may return: the ready items of one recorded batch
\* if there is one, otherwise fresh items up to the limit.
NextBatches(s) ==
    LET prior == {batchOf[i] : i \in Ready(s)} \ {{}}
        size  == IF Cardinality(Ready(s)) < BatchLimit THEN Cardinality(Ready(s))
                 ELSE BatchLimit
    IN  IF prior # {} THEN {{i \in Ready(s) : batchOf[i] = b} : b \in prior}
        ELSE {m \in SUBSET Ready(s) : m # {} /\ Cardinality(m) = size}

Sending == {s \in Streams : send[s].phase # "none"}

Moved(m, st) ==
    [k \in Items |-> IF k \in m THEN [box[k] EXCEPT !.state = st] ELSE box[k]]

\* A bug: a resend does not look for the stage of the first attempt.
StagesOfNone(m, i) == {0}

\* The stage a batch led by item i takes over (0: none).
StagesOf(m, i) ==
    LET staged == {box[k].stage : k \in m} \ {0}
    IN  IF box[i].stage # 0 THEN {box[i].stage}
        ELSE IF staged # {} THEN staged ELSE {0}

\* The batch of the items m in the order that begins with i: it goes where i
\* goes, to the stage g if there is one.
OutboxBatch(m, i, g) == [phase |-> "prepare", members |-> m, dest |-> box[i].dest, stage |-> g]

\* One send of pump: startSend, and runSend up to the call of prepare.  The
\* first item names the destination of the batch.
StartSend(s) ==
    /\ Cardinality(Sending) < GlobalSenders
    /\ send[s].phase = "none"
    /\ \E m \in NextBatches(s) : \E i \in m :
          /\ \A k \in m : box[k].attempts < MaxAttempts
          /\ \/ /\ box[i].dest \in Bound
                /\ \E g \in StagesOf(m, i) :
                      send' = [send EXCEPT ![s] = OutboxBatch(m, i, g)]
                /\ UNCHANGED box
             \/ /\ box[i].dest \notin Bound
                /\ box' = Moved(m, "BLOCKED")
                /\ UNCHANGED send
    /\ UNCHANGED <<consent, paused, due, batchOf, admitted, flush, stage, bounds>>

\* A row write throws among the rows that are blocked: the rejection is
\* swallowed, and the rest is left to the next send.
BlockFails(s) ==
    /\ faults < MaxFaults
    /\ faults' = faults + 1
    /\ Cardinality(Sending) < GlobalSenders
    /\ send[s].phase = "none"
    /\ \E m \in NextBatches(s) : \E i \in m, n \in SUBSET m :
          /\ box[i].dest \notin Bound
          /\ n # m
          /\ box' = Moved(n, "BLOCKED")
    /\ UNCHANGED <<consent, paused, due, memory, stage, stuck, restarts, changes>>

\* importStage: the destination makes a stage for the batch of stream s.
ImportStage(s) ==
    /\ Len(stage) < MaxStages
    /\ stage' = Append(stage, [items |-> send[s].members, dest |-> send[s].dest, committed |-> FALSE])

\* prepare resolves the stage of the batch: the one its items carry, or a new
\* one of the destination.
ResolveStage(s) == IF send[s].stage # 0 THEN UNCHANGED stage ELSE ImportStage(s)

StageId(s) == IF send[s].stage # 0 THEN send[s].stage ELSE Len(stage) + 1

\* The rows m of the batch of stream s, journaled IN_FLIGHT with their stage.
Journaled(s, m) ==
    [k \in Items |-> IF k \in m
        THEN [box[k] EXCEPT !.state = "IN_FLIGHT", !.stage = StageId(s), !.attempts = @ + 1]
        ELSE box[k]]

\* prepare resolves: the batch and its stage are journaled, then the request
\* goes out.
Prepare(s) ==
    LET m == send[s].members IN
    /\ send[s].phase = "prepare"
    /\ ResolveStage(s)
    /\ send' = [send EXCEPT ![s].phase = "sending", ![s].stage = StageId(s)]
    /\ batchOf' = [k \in Items |-> IF k \in m THEN m ELSE batchOf[k]]
    /\ box' = Journaled(s, m)
    /\ UNCHANGED <<consent, paused, due, admitted, flush, bounds>>

\* prepare rejects, before or after the destination created the stage: the
\* send ends and its items stay as they were.
PrepareFails(s) ==
    /\ send[s].phase = "prepare"
    /\ send[s].stage = 0
    /\ UNCHANGED stage \/ ResolveStage(s)
    /\ send' = [send EXCEPT ![s] = NoSend]
    /\ UNCHANGED <<consent, paused, rows, batchOf, admitted, flush, bounds>>

\* importGet finds that the stage was committed before.
FindCommitted(s) ==
    /\ send[s].phase = "sending"
    /\ stage[send[s].stage].committed
    /\ send' = [send EXCEPT ![s].phase = "found"]
    /\ UNCHANGED <<consent, paused, rows, batchOf, admitted, flush, stage, bounds>>

\* importCommit commits the stage at the destination that created it.
CommitStage(s) ==
    LET g == send[s].stage IN
    /\ send[s].phase = "sending"
    /\ ~stage[g].committed
    /\ stage[g].dest = send[s].dest
    /\ send' = [send EXCEPT ![s].phase = "committed"]
    /\ stage' = [stage EXCEPT ![g].committed = TRUE]
    /\ UNCHANGED <<consent, paused, rows, batchOf, admitted, flush, bounds>>

\* SlotConflictIndex: the commit kept some item next to another candidate of
\* its slot.
Conflicts(g) == stage[g].items \cap Contested # {}

\* What the sink answers: the batch is stored when its stage is committed,
\* unless this very call found conflicts.
AnswersStored(s) ==
    \/ send[s].phase = "found"
    \/ send[s].phase = "committed" /\ ~Conflicts(send[s].stage)

\* A bug: any answer counts as stored.
OutcomesTrusting(s) == {"RETRY", "BLOCKED", "ACKED"}

\* The states the rows of a send may end in.  A permanent error blocks, any
\* other failure (a timeout, a lost ACK) retries; conflicts are only reported
\* by the call that committed the stage.
Outcomes(s) == {"RETRY", "BLOCKED"} \cup IF AnswersStored(s) THEN {"ACKED"} ELSE {}

\* A bug: a request that timed out leaves its rows as they are.
SettleForgets(s, st) ==
    /\ send[s].phase \in {"sending", "found", "committed"}
    /\ st \in Outcomes(s)
    /\ box' = IF st = "RETRY" THEN box ELSE Moved(send[s].members, st)
    /\ UNCHANGED due
    /\ send' = [send EXCEPT ![s] = NoSend]
    /\ UNCHANGED <<consent, paused, batchOf, admitted, flush, stage, bounds>>

\* The answer of the sink moves the rows; every row that is to be retried
\* gets a backoff of its own.
Settle(s, st) ==
    /\ send[s].phase \in {"sending", "found", "committed"}
    /\ st \in Outcomes(s)
    /\ box' = Moved(send[s].members, st)
    /\ due' = IF st = "RETRY" THEN due \ send[s].members ELSE due
    /\ send' = [send EXCEPT ![s] = NoSend]
    /\ UNCHANGED <<consent, paused, batchOf, admitted, flush, stage, bounds>>

\* The clock passes next_attempt_ms of item i.
BackoffEnds(i) ==
    /\ box[i].state = "RETRY"
    /\ i \notin due
    /\ due' = due \cup {i}
    /\ UNCHANGED <<consent, paused, box, memory, stage, bounds>>

Repair(i) ==
    /\ box[i].state = "BLOCKED"
    /\ box' = Moved({i}, "PENDING")
    /\ UNCHANGED <<consent, paused, due, memory, stage, bounds>>

Pause(s) ==
    /\ s \notin paused
    /\ paused' = paused \cup {s}
    /\ UNCHANGED <<consent, rows, memory, stage, bounds>>

Resume(s) ==
    /\ s \in paused
    /\ consent[s].enabled
    /\ paused' = paused \ {s}
    /\ UNCHANGED <<consent, rows, memory, stage, bounds>>

\* sync.configure: the consents are derived anew from the document; items
\* that are stored keep the consent they were built under.
Configure(s, c) ==
    /\ changes < MaxChanges
    /\ consent[s] # c
    /\ consent' = [consent EXCEPT ![s] = c]
    /\ changes' = changes + 1
    /\ UNCHANGED <<paused, rows, memory, stage, stuck, restarts, faults>>

-----------------------------------------------------------------------------
(* flush and the gate. *)

\* flush captures the items that all() returns, which are copies of the rows.
FlushStart ==
    /\ flush.phase # "run"
    /\ flush.count < MaxFlushes
    /\ flush' = [phase |-> "run", count |-> flush.count + 1, captured |-> Stored,
                 open |-> Open(Stored), left |-> {}]
    /\ UNCHANGED <<consent, paused, rows, batchOf, send, admitted, stage, bounds>>

\* Nothing outstanding, the deadline, or nothing that can still progress: the
\* answer counts what the copies say; left is what the rows say.
FlushEnd ==
    /\ flush.phase = "run"
    /\ flush' = [flush EXCEPT !.phase = "done", !.left = Open(flush.captured)]
    /\ UNCHANGED <<consent, paused, rows, batchOf, send, admitted, stage, bounds>>

\* failOnSyncStatus of the run: nothing admitted is open.
FailOnSyncEmpty == Open(admitted) = {}

-----------------------------------------------------------------------------

\* The loops over the rows of a batch, cut off when only the rows m are
\* written: the one that journals it, and the one that settles it.
JournalCut(s, m) ==
    /\ send[s].phase = "prepare"
    /\ ResolveStage(s)
    /\ box' = Journaled(s, m)

SettleCut(s, m) ==
    /\ send[s].phase \in {"sending", "found", "committed"}
    /\ \E st \in Outcomes(s) : box' = Moved(m, st)
    /\ UNCHANGED stage

\* The backoff of the rows that a loop has moved to RETRY begins.
BackoffStarts ==
    due' = due \ {i \in due : box'[i].state = "RETRY" /\ box[i].state # "RETRY"}

\* A row write throws in a living process.  While the batch is journaled the
\* rejection is swallowed by startSend and no request goes out; itemBatch
\* already knows the rows up to the one, k, that failed.  While it is settled
\* the catch of runSend tries to retry every row, which throws at the first,
\* whose copy in memory has moved.  Either way the send is over and the rows
\* that say IN_FLIGHT are picked up by nothing.
WriteFails(s) ==
    /\ faults < MaxFaults
    /\ faults' = faults + 1
    /\ \E m \in SUBSET send[s].members : \E k \in send[s].members \ m :
          \/ /\ JournalCut(s, m)
             /\ batchOf' = [i \in Items |-> IF i \in m \cup {k} THEN send[s].members
                                            ELSE batchOf[i]]
          \/ SettleCut(s, m) /\ UNCHANGED batchOf
    /\ stuck' = stuck \cup {i \in send[s].members : box'[i].state = "IN_FLIGHT"}
    /\ BackoffStarts
    /\ send' = [send EXCEPT ![s] = NoSend]
    /\ UNCHANGED <<consent, paused, admitted, flush, restarts, changes>>

\* The process stops, possibly in the middle of a batch, and starts again on
\* the durable rows.
Restart ==
    /\ restarts < MaxRestarts
    /\ restarts' = restarts + 1
    /\ \/ UNCHANGED <<box, stage>>
       \/ \E s \in Sending : \E m \in SUBSET send[s].members : JournalCut(s, m) \/ SettleCut(s, m)
    /\ stuck' = {i \in Items : box'[i].state = "IN_FLIGHT"}
    /\ BackoffStarts
    /\ batchOf' = [i \in Items |-> {}]
    /\ send' = [s \in Streams |-> NoSend]
    /\ admitted' = {}
    /\ flush' = NoFlush
    /\ UNCHANGED <<consent, paused, changes, faults>>

SendStep(s) == \/ Prepare(s) \/ PrepareFails(s) \/ FindCommitted(s) \/ CommitStage(s)
               \/ \E st \in {"ACKED", "RETRY", "BLOCKED"} : Settle(s, st)

Next ==
    \/ \E i \in Items : Enqueue(i) \/ BackoffEnds(i) \/ Repair(i)
    \/ \E s \in Streams : StartSend(s) \/ BlockFails(s) \/ SendStep(s) \/ WriteFails(s)
                          \/ Pause(s) \/ Resume(s)
    \/ \E s \in Streams, d \in Destinations, e \in BOOLEAN :
          Configure(s, [enabled |-> e, dest |-> d])
    \/ FlushStart
    \/ FlushEnd
    \/ Restart

Spec == Init /\ [][Next]_vars

\* Every call of a sink settles: runSend awaits nothing else.
FairSpec == Spec /\ \A s \in Streams : WF_vars(SendStep(s))

-----------------------------------------------------------------------------
(* Properties. *)

\* Every variable has its type; a row and a send name stages that exist.
TypeOK ==
    /\ consent \in [Streams -> [enabled : BOOLEAN, dest : Destinations]]
    /\ paused \subseteq Streams
    /\ box \in [Items -> [state : States, dest : Destinations \cup {"none"},
                          stage : 0..Len(stage), attempts : 0..MaxAttempts]]
    /\ due \subseteq Items
    /\ batchOf \in [Items -> SUBSET Items]
    /\ send \in [Streams -> [phase : {"none", "prepare", "sending", "found", "committed"},
                             members : SUBSET Items,
                             dest : Destinations \cup {"none"}, stage : 0..Len(stage)]]
    /\ admitted \subseteq RunItems
    /\ stage \in Seq([items : SUBSET Items, dest : Destinations, committed : BOOLEAN])
    /\ stuck \subseteq InState("IN_FLIGHT")

Committed == {g \in 1..Len(stage) : stage[g].committed}

\* ACKED means delivered: an item whose row says ACKED is part of a stage that
\* a destination committed (runSend marks every item of the batch when the
\* stage it resolved says committed).
AckedDelivered == \A i \in InState("ACKED") : \E g \in Committed : i \in stage[g].items

\* An item only ever reaches the destination its consent named when it was
\* enqueued: the id outboxItemId gives it binds it to that destination.
OwnDestination == \A g \in Committed : \A i \in stage[g].items : box[i].dest = stage[g].dest

\* No second logical import: of the stages that hold an item at most one is
\* committed, whatever timeouts, lost ACKs, retries and restarts happen.
ImportedOnce ==
    \A g, h \in Committed : g # h => stage[g].items \cap stage[h].items = {}

\* No row is in two sends, and a row whose request is out says IN_FLIGHT: the
\* row is journaled before the request and nothing moves it meanwhile.
SendsDisjoint ==
    /\ Cardinality(Sending) <= GlobalSenders
    /\ \A s, t \in Sending : s # t => send[s].members \cap send[t].members = {}
    /\ \A s \in Sending : send[s].phase # "prepare" =>
          send[s].members \subseteq InState("IN_FLIGHT")

\* The gate of a run opens only when every event of the run was delivered.
GateHonest == FailOnSyncEmpty => (Stored \cap RunItems) \subseteq InState("ACKED")

\* A row moves along OUTBOX_TRANSITIONS only; ACKED is the end.
LegalMoves ==
    [][\A i \in Items : box'[i].state # box[i].state
            => box'[i].state \in Legal[box[i].state]]_vars

\* A row that was sent keeps its stage for good, so that a retry asks the
\* destination about the first attempt before it commits anything.
StageKept ==
    [][\A i \in Items : box[i].stage # 0 => box'[i].stage = box[i].stage]_vars

\* A row does not stay IN_FLIGHT, whatever of its request or of the answer is
\* lost, unless its send was cut off by a failed row write or by a restart:
\* no code of the repository moves such a row again.
InFlightSettles ==
    \A i \in Items : box[i].state = "IN_FLIGHT" ~> box[i].state # "IN_FLIGHT" \/ i \in stuck

\* flush never claims too little: what it answers covers every captured item
\* that is still outstanding, although it looks at copies.
FlushCovers == flush.phase = "done" => flush.left \subseteq flush.open

=============================================================================
