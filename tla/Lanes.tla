------------------------------- MODULE Lanes -------------------------------
(***************************************************************************)
(* One lane of the store with its segments (store/lanes.ts), under the     *)
(* commits that write it (store/store.ts) and the recovery that reopens it *)
(* (store/recovery.ts).  GatewayStore has the journal and many lanes of    *)
(* one segment; here commits run one at a time, a marker is one step, and  *)
(* what is looked at is the file system below the lane.                    *)
(*                                                                         *)
(* A record is a line of two bytes, its body and its LF: [id, half].  An   *)
(* offset is a number of bytes, a hash is what it is the hash of.          *)
(***************************************************************************)
EXTENDS Objects, SequencesExt

CONSTANTS
    SegmentBytes,  \* options.segmentBytes
    Sizes,         \* how many records a commit may have
    MaxRecords,    \* bound on the records appended
    MaxFaults,     \* bound on the I/O calls that reject
    MaxLaneCrashes, \* bound on the crashes
    None

ASSUME LanesAssumption ==
    /\ Sizes \subseteq Nat \ {0}
    /\ MaxRecords \in Nat
    /\ None \notin Digests

VARIABLES
    meta,       \* lane.json: "absent", "short" or "whole"
    segs,       \* segment files: [data, synced, seal], seal the manifest
    committed,  \* the records of the durable commit markers, in their order
    named,      \* the objects they name
    quarantine, \* lines preserved as evidence
    laneMode,   \* "down", "tail" and "open" of recovery, "up", "stuck", "corrupt"
    writer,     \* LaneWriter: [made, fh, seg, off, count, next]
    served,     \* the committed records the process serves: [id, cursor]
    laneAt, laneCtx, \* where the commit under way is, and its locals
    answered,   \* [id, cursor] of resolved commits
    asked, faults, laneCrashes

marks == <<committed, named>>
laneFiles == <<meta, segs, marks, quarantine>>
laneMemory == <<laneMode, writer, served>>
commitVars == <<laneAt, laneCtx>>
bounds == <<asked, faults, laneCrashes>>
filesVars == <<objVars, laneFiles, laneMemory, commitVars, answered, bounds>>

Line(id) == <<[id |-> id, half |-> "body"], [id |-> id, half |-> "lf"]>>
NoWriter == [made |-> FALSE, fh |-> FALSE, seg |-> 0, off |-> 0, count |-> 0, next |-> 1]
NoPut == [todo |-> 0, recs |-> <<>>, cursors |-> <<>>, obj |-> None]

FilesInit ==
    /\ ObjectsInit
    /\ meta = "absent" /\ segs = <<>> /\ committed = <<>> /\ named = {} /\ quarantine = {}
    /\ laneMode = "up" /\ writer = NoWriter /\ served = <<>>
    /\ laneAt = "idle" /\ laneCtx = NoPut /\ answered = {}
    /\ asked = 0 /\ faults = 0 /\ laneCrashes = 0

(***************************************************************************)
(* Geometry: what recoverLane and buildLaneIndex derive from the files.    *)
(***************************************************************************)
Committed(i) == {r \in Range(committed) : r.seg = i}

\* committedExtents: where the last committed record of segment i ends.
ExtentEnd(i) == IF Committed(i) = {} THEN 0 ELSE Max({r.off + 2 : r \in Committed(i)})

\* scanLines: the starts of the complete lines.
LineStarts(data) ==
    LET ends == {0} \union {k \in DOMAIN data : data[k].half = "lf"}
    IN  {e \in ends : \E k \in ends : k > e}

\* readManifest: the segment has a whole manifest beside it.
Sealed(i) == segs[i].seal.whole

\* The lines of segment i that stay: all of a sealed one.
Retained(i) ==
    LET end == ExtentEnd(i)
    IN  {s \in LineStarts(segs[i].data) : Sealed(i) \/ s < end}

\* Mutant: a sealed segment counts for what was committed of it.
ConsumedCommitted(i) == IF Sealed(i) THEN Cardinality(Committed(i)) ELSE Cardinality(Retained(i))
\* The record ordinals segment i has used up.
Consumed(i) ==
    CASE Sealed(i) -> segs[i].seal.count
      [] ~Sealed(i) /\ i < Len(segs) -> Cardinality(LineStarts(segs[i].data))
      [] OTHER -> Cardinality(Retained(i))

\* How many ordinals the segments before i have used up.
WrittenBase(i) == Cardinality(UNION {{j} \X (1..Consumed(j)) : j \in 1..(i - 1)})

Cursor(r) == WrittenBase(r.seg) + Cardinality({s \in Retained(r.seg) : s <= r.off})

Slice(r) == SubSeq(segs[r.seg].data, r.off + 1, r.off + 2)

\* buildLaneIndex, in the order of the markers.
Derived == [k \in DOMAIN committed |-> [id |-> committed[k].id, cursor |-> Cursor(committed[k])]]

\* Committed bytes are not where their markers say, or a seal does not hold.
Corrupt ==
    \/ \E i \in DOMAIN segs :
          /\ Sealed(i)
          /\ segs[i].seal.data # segs[i].data \/ segs[i].seal.count # Cardinality(LineStarts(segs[i].data))
    \/ \E r \in Range(committed) :
          \/ r.seg \notin DOMAIN segs
          \/ r.off \notin Retained(r.seg) \/ Slice(r) # Line(r.id)

\* Retained lines no marker commits, and what follows the committed end.
HolesIn(i) == {[seg |-> i, line |-> SubSeq(segs[i].data, s + 1, s + 2)] :
                   s \in Retained(i) \ {r.off : r \in Committed(i)}}
TailOf(i) == SubSeq(segs[i].data, ExtentEnd(i) + 1, Len(segs[i].data))
LinesIn(i, bytes) == {[seg |-> i, line |-> SubSeq(bytes, s + 1, s + 2)] : s \in LineStarts(bytes)}

(***************************************************************************)
(* GatewayStore.commit: object, records, fsync, marker, answer.            *)
(***************************************************************************)
Fault(ok) == (ok \/ faults < MaxFaults) /\ faults' = faults + (IF ok THEN 0 ELSE 1)
FaultFree == faults' = faults

At(step) == laneMode = "up" /\ laneAt = step
Goto(step) == laneAt' = step /\ UNCHANGED laneCtx
GivesUp == laneAt' = "idle" /\ laneCtx' = NoPut
GotoOrFail(ok, step) == IF ok THEN Goto(step) ELSE GivesUp

BeginCommit(n, d) ==
    /\ At("idle") /\ asked + n <= MaxRecords
    /\ laneCtx' = [NoPut EXCEPT !.todo = n, !.obj = d]
    /\ laneAt' = IF d = None THEN "writer" ELSE "object"
    /\ UNCHANGED <<objVars, laneFiles, laneMemory, answered, bounds>>

\* ObjectStore.put.
PutObject ==
    /\ UNCHANGED <<laneFiles, laneMemory, answered, asked, laneCrashes>>
    /\ \/ At("object") /\ CreateObject(laneCtx.obj) /\ Goto("bytes") /\ FaultFree
       \/ /\ At("object") /\ objs[laneCtx.obj] # "absent"
          /\ Goto("verify") /\ FaultFree /\ UNCHANGED objVars
       \/ \E ok \in BOOLEAN :
             At("bytes") /\ Fault(ok) /\ WriteObject(laneCtx.obj, ok) /\ GotoOrFail(ok, "sync")
       \/ \E ok \in BOOLEAN :
             At("sync") /\ Fault(ok) /\ SyncObject(laneCtx.obj, ok) /\ GotoOrFail(ok, "verify")
       \/ /\ At("verify") /\ FaultFree
          /\ IF Verifies(laneCtx.obj) THEN NoteVerified(laneCtx.obj) /\ Goto("writer")
             ELSE UNCHANGED objVars /\ GivesUp

\* readLaneMeta: lane.json parses.
MetaRead == meta = "whole"

NoManifest == [whole |-> FALSE, count |-> 0, data |-> <<>>]
EmptySegment == [data |-> <<>>, synced |-> 0, seal |-> NoManifest]

\* startSegment, and the writer on the segment it made.
OnSegment(i, next) == [made |-> TRUE, fh |-> TRUE, seg |-> i, off |-> 0, count |-> 0, next |-> next]

\* writerFor: the writer there is, LaneWriter.create, or LaneWriter.open on
\* what a create that failed has left.
WriterFor ==
    /\ UNCHANGED <<objVars, marks, quarantine, laneMode, served, answered, asked, laneCrashes>>
    /\ \/ At("writer") /\ writer.made /\ Goto("append") /\ FaultFree /\ UNCHANGED <<meta, segs, writer>>
       \/ /\ At("writer") /\ ~writer.made /\ meta = "absent"
          /\ meta' = "short" /\ Goto("meta") /\ FaultFree /\ UNCHANGED <<segs, writer>>
       \/ At("writer") /\ ~writer.made /\ meta = "short" /\ GivesUp /\ FaultFree /\ UNCHANGED <<meta, segs, writer>>
       \/ /\ At("writer") /\ ~writer.made /\ MetaRead /\ FaultFree
          /\ IF segs = <<>> THEN Goto("first") /\ UNCHANGED writer
             ELSE writer' = OnSegment(1, 1) /\ Goto("append")
          /\ UNCHANGED <<meta, segs>>
       \/ \E ok \in BOOLEAN :
             /\ At("meta") /\ Fault(ok) /\ GotoOrFail(ok, "first")
             /\ meta' \in (IF ok THEN {"whole"} ELSE {"short", "whole"}) /\ UNCHANGED <<segs, writer>>
       \/ \E ok \in BOOLEAN :
             /\ At("first") /\ Fault(ok) /\ GotoOrFail(ok, "append")
             /\ segs' \in {<<EmptySegment>>} \union (IF ok THEN {} ELSE {segs})
             /\ writer' = IF ok THEN OnSegment(1, 1) ELSE writer
             /\ UNCHANGED meta

\* append: a full or an old segment is rotated first.
Full == writer.off + 2 > SegmentBytes
Append1 ==
    /\ At("append") /\ UNCHANGED <<objVars, meta, marks, quarantine, laneMode, served, answered, laneCrashes>>
    /\ \/ ~writer.fh /\ GivesUp /\ FaultFree /\ UNCHANGED <<segs, writer, asked>>
       \/ writer.fh /\ writer.count > 0 /\ Goto("seal") /\ FaultFree /\ UNCHANGED <<segs, writer, asked>>
       \/ \E ok \in BOOLEAN :
             /\ writer.fh /\ ~(writer.count > 0 /\ Full) /\ Fault(ok)
             /\ asked' = asked + 1
             /\ IF ~ok THEN GivesUp /\ UNCHANGED <<segs, writer>>
                ELSE /\ segs' = [segs EXCEPT ![writer.seg].data = @ \o Line(asked + 1)]
                     /\ writer' = [writer EXCEPT !.off = @ + 2, !.count = @ + 1, !.next = @ + 1]
                     /\ laneCtx' = [laneCtx EXCEPT !.todo = @ - 1,
                            !.recs = Append(@, [seg |-> writer.seg, off |-> writer.off, id |-> asked + 1]),
                            !.cursors = Append(@, writer.next)]
                     /\ laneAt' = IF laneCtx.todo = 1 THEN "fsync" ELSE "append"

\* writeSealManifest, of the segment the writer is on.
Manifest == [whole |-> TRUE, count |-> writer.count, data |-> segs[writer.seg].data]

Synced(i) == [segs EXCEPT ![i].synced = Len(segs[i].data)]

\* rotate: sync and close, the manifest, the next segment.  The pointer
\* active.json written then is a hint recovery does not read this from.
Rotate ==
    /\ UNCHANGED <<objVars, meta, marks, quarantine, laneMode, served, answered, asked, laneCrashes>>
    /\ \E ok \in BOOLEAN : Fault(ok) /\
          \/ /\ At("seal") /\ GotoOrFail(ok, "manifest")
             /\ segs' = IF ok THEN Synced(writer.seg) ELSE segs
             /\ writer' = [writer EXCEPT !.fh = ~ok]
          \/ /\ At("manifest") /\ GotoOrFail(ok, "next") /\ UNCHANGED writer
             /\ segs' \in {[segs EXCEPT ![writer.seg].seal = Manifest]}
                          \union (IF ok THEN {} ELSE {segs})
          \/ /\ At("next") /\ GotoOrFail(ok, "append")
             /\ \/ /\ segs' = Append(segs, EmptySegment)
                   /\ writer' = OnSegment(writer.seg + 1, writer.next)
                \/ ~ok /\ UNCHANGED <<segs, writer>>

\* The lane's fsync, the marker, the served and the answer.
FinishCommit ==
    /\ UNCHANGED <<objVars, meta, quarantine, laneMode, writer, asked, laneCrashes>>
    /\ \/ \E ok \in BOOLEAN :
             /\ At("fsync") /\ Fault(ok) /\ GotoOrFail(ok, "marker")
             /\ segs' = IF ok THEN Synced(writer.seg) ELSE segs
             /\ UNCHANGED <<marks, served, answered>>
       \/ \E ok \in BOOLEAN :
             /\ At("marker") /\ Fault(ok) /\ GotoOrFail(ok, "answer")
             /\ committed' = IF ok THEN committed \o laneCtx.recs ELSE committed
             /\ named' = IF ok THEN named \union ({laneCtx.obj} \ {None}) ELSE named
             /\ UNCHANGED <<segs, served, answered>>
       \/ /\ At("answer") /\ FaultFree /\ GivesUp
          /\ LET new == [k \in DOMAIN laneCtx.recs |-> [id |-> laneCtx.recs[k].id, cursor |-> laneCtx.cursors[k]]]
             IN served' = served \o new /\ answered' = answered \union Range(new)
          /\ UNCHANGED <<segs, marks>>

(***************************************************************************)
(* A crash of the process or of the machine, and the next open.            *)
(***************************************************************************)
Crash ==
    /\ laneCrashes < MaxLaneCrashes /\ laneCrashes' = laneCrashes + 1
    /\ laneMode' = "down" /\ writer' = NoWriter /\ served' = <<>>
    /\ laneAt' = "idle" /\ laneCtx' = NoPut
    /\ \E power \in BOOLEAN : ObjectsLost(power)
    /\ meta' \in (IF meta = "short" /\ (laneAt = "meta" \/ laneMode = "meta") THEN {"absent", "short", "whole"} ELSE {meta})
    /\ IF segs = <<>> THEN segs' = segs
       ELSE \E n \in Last(segs).synced..Len(Last(segs).data) :
                segs' = [segs EXCEPT ![Len(segs)].data = SubSeq(@, 1, n), ![Len(segs)].synced = n]
    /\ UNCHANGED <<marks, quarantine, answered, asked, faults>>

\* The last segment, when it has no manifest.
Active == IF segs # <<>> /\ ~Sealed(Len(segs)) THEN {Len(segs)} ELSE {}

\* moveTail: the lines after the committed end.
TailEvidence == UNION {LinesIn(i, TailOf(i)) : i \in Active}

\* recoverLane: verify, and preserve what no marker commits.
Preserve ==
    /\ laneMode = "down" /\ laneMode' = IF Corrupt THEN "corrupt" ELSE "tail"
    /\ quarantine' = quarantine \union UNION {HolesIn(i) : i \in DOMAIN segs} \union TailEvidence
    /\ UNCHANGED <<objVars, meta, segs, marks, writer, served, commitVars, answered, bounds>>

\* recoverLane: truncate the active segment.
CutTail ==
    /\ laneMode = "tail" /\ laneMode' = "open"
    /\ segs' = [i \in DOMAIN segs |->
                  IF i \in Active THEN [segs[i] EXCEPT !.data = SubSeq(@, 1, ExtentEnd(i)), !.synced = ExtentEnd(i)]
                  ELSE segs[i]]
    /\ UNCHANGED <<objVars, meta, marks, quarantine, writer, served, commitVars, answered, bounds>>

\* Mutant: the next ordinal counts the committed records.
NextOrdinalCommitted == Len(committed) + 1
NextOrdinal == WrittenBase(Len(segs) + 1) + 1

\* GatewayStore.open: LaneWriter.open on a lane directory that is there, and
\* one without lane.json gets its own; one with a short lane.json never opens.
OpenWriter ==
    /\ UNCHANGED <<objVars, marks, quarantine, commitVars, answered, bounds>>
    /\ \/ /\ laneMode = "open" /\ meta = "absent"
          /\ \/ laneMode' = "up" /\ UNCHANGED <<meta, served>>
             \/ laneMode' = "meta" /\ meta' = "short" /\ UNCHANGED served
          /\ UNCHANGED <<segs, writer>>
       \/ laneMode = "meta" /\ laneMode' = "open" /\ meta' = "whole" /\ UNCHANGED <<segs, writer, served>>
       \/ laneMode = "open" /\ meta = "short" /\ laneMode' = "stuck" /\ UNCHANGED <<meta, segs, writer, served>>
       \/ /\ laneMode = "open" /\ MetaRead /\ laneMode' = "up" /\ served' = Derived
          /\ IF Active = {}
             THEN /\ segs' = Append(segs, EmptySegment)
                  /\ writer' = OnSegment(Len(segs) + 1, NextOrdinal)
             ELSE /\ UNCHANGED segs
                  /\ writer' = [OnSegment(Len(segs), NextOrdinal) EXCEPT
                                   !.off = ExtentEnd(Len(segs)), !.count = Cardinality(Retained(Len(segs)))]
          /\ UNCHANGED meta

FilesNext ==
    \/ \E n \in Sizes, d \in Digests \union {None} : BeginCommit(n, d)
    \/ PutObject \/ WriterFor \/ Append1 \/ Rotate \/ FinishCommit
    \/ Crash \/ Preserve \/ CutTail \/ OpenWriter

FilesSpec == FilesInit /\ [][FilesNext]_filesVars

(***************************************************************************)
(* Properties                                                              *)
(***************************************************************************)
\* The lane is the log its readers are promised: what recovery derives from
\* the files keeps every committed record at the cursor its caller was told,
\* through rotation, failed commits, torn tails, holes and laneCrashes.
Promise == INSTANCE LaneLog WITH Records <- 1..MaxRecords, MaxCursor <- MaxRecords,
                             log <- Derived, told <- answered
KeepsItsLog == Promise!Spec

\* No crash leaves files recovery calls corrupt, and what the running process
\* serves from memory is what the next recovery will derive from the files.
ServesAsRecovered ==
    /\ laneMode # "corrupt"
    /\ laneMode = "up" /\ laneAt # "answer" => served = Derived

\* Recovery removes no line it has not preserved in quarantine.
OrphansKept ==
    [][laneCrashes' = laneCrashes =>
        \A i \in DOMAIN segs : LinesIn(i, segs[i].data) \subseteq LinesIn(i, segs'[i].data) \union quarantine']_filesVars

\* An object a marker names can be read, whatever put of it was interrupted
\* before, unless a power loss came before the file was ever synced: a put
\* that finds the file (EEXIST) verifies what the page cache shows and syncs
\* nothing, so a marker may name what is not durable.
ObjectsWhole == \A d \in named : Readable(d) \/ d \in unsynced

\* recoverLane recovers a lane directory after a crash: the store opens again.
OpensAfterCrash == laneMode # "stuck"
=============================================================================
