------------------------- MODULE GatewayStoreProofs -------------------------
(***************************************************************************)
(* Theorems about GatewayStore, for every set of callers and lanes, every  *)
(* set of batches and every bound.                                         *)
(*                                                                         *)
(* Every variable keeps its type whatever runs.  When commits do not       *)
(* overlap (Serial) the journal stays one hash chain and the registry its  *)
(* replay, across every failure, process crash and power loss; the records *)
(* of a journaled commit are in the synced part of their lanes, so         *)
(* recovery never finds the store corrupt, and what a caller was told      *)
(* survives and is served; and the store implements CommitLog.             *)
(***************************************************************************)
EXTENDS GatewayStore, TLAPS, NaturalsInduction, WellFoundedInduction,
        SequenceTheorems

-----------------------------------------------------------------------------
(* Lemmas about the operators the model is built from. *)

\* A nonempty set of numbers has a least element.
LEMMA Least ==
    ASSUME NEW S, S \subseteq Nat, S # {}
    PROVE  /\ (CHOOSE n \in S : \A m \in S : n <= m) \in S
           /\ \A m \in S : (CHOOSE n \in S : \A k \in S : n <= k) <= m
<1>1. PICK x \in S : \A y \in S : ~(<<y, x>> \in OpToRel(<, Nat))
  BY NatLessThanWellFounded, WFMin
<1>2. \A y \in S : x <= y
  <2> SUFFICES ASSUME NEW y \in S, y < x PROVE FALSE
    OBVIOUS
  <2>1. <<y, x>> \in OpToRel(<, Nat)
    BY DEF OpToRel
  <2> QED
    BY <1>1, <2>1
<1> QED
  BY <1>2

\* What verify keeps of a journal is a prefix of it.
LEMMA VerifiedLengthBound ==
    ASSUME NEW j \in Seq(Marker)
    PROVE  VerifiedLength(j) \in 0..Len(j)
<1>1. CASE BadLines(j) = {}
  BY <1>1 DEF VerifiedLength
<1>2. CASE BadLines(j) # {}
  <2>1. FirstBad(j) \in BadLines(j)
    <3>1. BadLines(j) \subseteq Nat
      BY DEF BadLines
    <3> QED
      BY <1>2, <3>1, Least DEF FirstBad
  <2>2. FirstBad(j) \in 1..Len(j)
    BY <2>1 DEF BadLines
  <2> QED
    BY <1>2, <2>2 DEF VerifiedLength
<1> QED
  BY <1>1, <1>2

LEMMA CommittedEndBound ==
    ASSUME TypeOK, NEW l \in Lanes, ~Damaged(markers, l)
    PROVE  /\ CommittedEnd(markers, l) \in 0..Len(lane[l])
           /\ \A i \in 1..Len(markers) : \A r \in markers[i].records :
                 r.lane = l => r.line <= CommittedEnd(markers, l)
<1>1. Len(lane[l]) \in Nat
  BY DEF TypeOK, FilesTypeOK
<1>2. Keeping(markers, l) \subseteq Nat
  BY <1>1 DEF Keeping
<1>3. Len(lane[l]) \in Keeping(markers, l)
  <2>0. markers \in Seq(Marker)
    BY DEF TypeOK, MemoryTypeOK
  <2>1. \A i \in 1..Len(markers) : \A r \in markers[i].records : r \in Locator
    <3>1. \A i \in 1..Len(markers) : markers[i] \in Marker
      BY <2>0
    <3> QED
      BY <3>1 DEF Marker
  <2>2. \A i \in 1..Len(markers) : \A r \in markers[i].records :
           r.lane = l => r.line <= Len(lane[l])
    BY <1>1, <2>1 DEF Damaged, Locator
  <2> QED
    BY <1>1, <2>2 DEF Keeping, RecordsOf
<1>4. CommittedEnd(markers, l) \in Keeping(markers, l)
  BY <1>2, <1>3, Least DEF CommittedEnd
<1> QED
  BY <1>4 DEF Keeping, RecordsOf

-----------------------------------------------------------------------------
(* Type correctness. *)

LEMMA NoCommitType == NoCommit \in Context
  BY DEF NoCommit, Garbage, Marker, Context

\* Updating fields of a commit's context.
LEMMA UpdateOpTodo ==
    ASSUME NEW k \in Context, NEW op \in Nat, NEW todo \in Seq(Lanes)
    PROVE  [k EXCEPT !.op = op, !.todo = todo] \in Context
  BY DEF Context

LEMMA UpdateTodoRecords ==
    ASSUME NEW k \in Context, NEW todo \in Seq(Lanes), NEW rs \in SUBSET Locator
    PROVE  [k EXCEPT !.todo = todo, !.records = rs] \in Context
  BY DEF Context

LEMMA UpdateOpMarkerKind ==
    ASSUME NEW k \in Context, NEW op \in Nat, NEW m \in Marker
    PROVE  [k EXCEPT !.op = op, !.marker = m, !.kind = "sync"] \in Context
  BY DEF Context

LEMMA InitTypeOK == Init => TypeOK
<1> SUFFICES ASSUME Init PROVE TypeOK
  OBVIOUS
<1> USE BoundsAssumption
<1>1. PICK n \in InitSizes : ClosedStore(n)
  BY DEF Init
<1>2. /\ lane = [l \in Lanes |-> <<>>]
      /\ laneSynced = [l \in Lanes |-> 0]
  BY DEF Init
<1>3. FilesTypeOK
  <2>1. journal \in Seq(Marker) /\ journalSynced \in 0..Len(journal)
    BY <1>1 DEF ClosedStore, Marker
  <2> QED
    BY <1>2, <2>1 DEF FilesTypeOK
<1>4. RegistryTypeOK /\ issued \in 0..MaxOps
  BY <1>1 DEF ClosedStore, RegistryTypeOK
<1>5. MemoryTypeOK
  BY DEF Init, MemoryTypeOK, Modes
<1>6. CallersTypeOK
  BY NoCommitType DEF Init, CallersTypeOK, Stages
<1>7. acked \subseteq Marker /\ crashes \in 0..MaxCrashes
  BY DEF Init
<1>8. journalTorn \in BOOLEAN /\ readOnly \in BOOLEAN
  BY DEF Init
<1> QED
  BY <1>3, <1>4, <1>5, <1>6, <1>7, <1>8 DEF TypeOK

\* A step of one commit keeps the callers well typed.
LEMMA StepType ==
    ASSUME CallersTypeOK, NEW c \in Callers, NEW from, NEW to \in Stages,
           NEW new \in Context, Step(c, from, to, new),
           to = "append" => new.todo # <<>>
    PROVE  CallersTypeOK'
  BY DEF CallersTypeOK, Step

\* nextMarker yields a marker.
LEMMA NextMarkerType ==
    ASSUME MemoryTypeOK, NEW op \in Nat, NEW records \in SUBSET Locator
    PROVE  NextMarker(op, records) \in Marker
  BY DEF MemoryTypeOK, NextMarker, Marker

\* A line more in the journal.
LEMMA JournalGrows ==
    ASSUME FilesTypeOK, NEW m \in Marker,
           journal' = Append(journal, Written(m)),
           UNCHANGED <<journalSynced, lane, laneSynced>>
    PROVE  FilesTypeOK'
<1>1. Written(m) \in Marker
  BY DEF Written, Garbage, Marker
<1>2. journal' \in Seq(Marker) /\ Len(journal') = Len(journal) + 1
  BY <1>1 DEF FilesTypeOK
<1> QED
  BY <1>2 DEF FilesTypeOK

\* Each action keeps the types.
LEMMA NextTypeOK == TypeOK /\ [Next]_vars => TypeOK'
<1> SUFFICES ASSUME TypeOK, [Next]_vars PROVE TypeOK'
  OBVIOUS
<1> USE BoundsAssumption
<1>a. /\ FilesTypeOK /\ RegistryTypeOK /\ MemoryTypeOK /\ CallersTypeOK
      /\ acked \subseteq Marker /\ issued \in 0..MaxOps
      /\ crashes \in 0..MaxCrashes
      /\ journalTorn \in BOOLEAN /\ readOnly \in BOOLEAN
  BY DEF TypeOK
<1>b. \A c \in Callers : /\ ctx[c] \in Context
                         /\ ctx[c].op \in Nat /\ ctx[c].todo \in Seq(Lanes)
                         /\ ctx[c].at \in Nat
                         /\ ctx[c].records \in SUBSET Locator
                         /\ ctx[c].marker \in Marker
  BY <1>a DEF CallersTypeOK, Context
<1>1. ASSUME NEW c \in Callers, NEW b \in Batches, Begin(c, b) PROVE TypeOK'
  <2>1. [NoCommit EXCEPT !.op = issued + 1, !.todo = b] \in Context
    <3>1. issued + 1 \in Nat /\ b \in Seq(Lanes)
      BY <1>a, BatchesAssumption
    <3> QED
      BY <3>1, NoCommitType, UpdateOpTodo
  <2>2. CallersTypeOK'
    BY <1>a, <1>1, <2>1, StepType DEF Begin, Stages
  <2>3. issued' \in 0..MaxOps
    BY <1>a, <1>1 DEF Begin, MayCommit
  <2> QED
    BY <1>a, <1>1, <2>2, <2>3
    DEF Begin, TypeOK, FilesTypeOK, RegistryTypeOK, MemoryTypeOK, files, reg, memory
<1>2. ASSUME NEW c \in Callers, AppendStart(c) PROVE TypeOK'
  <2>1. Head(ctx[c].todo) \in Lanes
    BY <1>b, <1>2 DEF AppendStart
  <2>2. [ctx[c] EXCEPT !.at = offset[Head(ctx[c].todo)]] \in Context
    BY <1>a, <1>b, <2>1 DEF Context, MemoryTypeOK
  <2>3. CallersTypeOK'
    BY <1>a, <1>b, <1>2, <2>2, StepType DEF AppendStart, Stages, Context
  <2> QED
    BY <1>a, <1>2, <2>3
    DEF AppendStart, TypeOK, FilesTypeOK, RegistryTypeOK, MemoryTypeOK, files, reg, memory
<1>3. ASSUME NEW c \in Callers, AppendDone(c) PROVE TypeOK'
  <2> DEFINE l == Head(ctx[c].todo)
             new == [ctx[c] EXCEPT !.todo = Tail(@),
                        !.records = @ \cup {[lane |-> l, line |-> ctx[c].at + 1]}]
  <2>1. ctx[c].todo # <<>>
    BY <1>a, <1>3 DEF AppendDone, Step, CallersTypeOK
  <2>2. l \in Lanes /\ Tail(ctx[c].todo) \in Seq(Lanes)
    BY <1>b, <2>1
  <2>3. new \in Context
    <3>1. ctx[c].records \cup {[lane |-> l, line |-> ctx[c].at + 1]}
             \in SUBSET Locator
      BY <1>b, <2>2 DEF Locator
    <3> QED
      BY <1>b, <2>2, <3>1, UpdateTodoRecords
  <2>4. CallersTypeOK'
    <3>1. Step(c, "append", "lane", new)
      BY <1>3 DEF AppendDone
    <3> HIDE DEF new
    <3> QED
      BY <1>a, <2>3, <3>1, StepType DEF Stages
  <2>5. /\ lane' = [lane EXCEPT ![l] = Append(@, ctx[c].op)]
        /\ offset' = [offset EXCEPT ![l] = @ + 1]
        /\ UNCHANGED <<journal, journalSynced, journalTorn, laneSynced>>
    BY <1>3 DEF AppendDone
  <2>6. FilesTypeOK'
    <3>1. lane' \in [Lanes -> Seq(Nat)]
      BY <1>a, <1>b, <2>2, <2>5 DEF FilesTypeOK
    <3>2. \A k \in Lanes : Len(lane[k]) <= Len(lane'[k])
      BY <1>a, <1>b, <2>2, <2>5 DEF FilesTypeOK
    <3> QED
      BY <1>a, <2>5, <3>1, <3>2 DEF FilesTypeOK
  <2>7. MemoryTypeOK'
    <3>1. UNCHANGED <<mode, markers, headTx, headHash, index>>
      BY <1>3 DEF AppendDone, head
    <3>2. offset \in [Lanes -> Nat] /\ offset' = [offset EXCEPT ![l] = @ + 1] /\ l \in Lanes
      BY <1>a, <2>2, <2>5 DEF MemoryTypeOK
    <3>3. offset' \in [Lanes -> Nat]
      <4> HIDE DEF l
      <4> QED
        BY ONLY <3>2
    <3> QED
      BY <1>a, <3>1, <3>3 DEF MemoryTypeOK
  <2> QED
    BY <1>a, <1>3, <2>4, <2>6, <2>7 DEF AppendDone, TypeOK, RegistryTypeOK, reg
<1>4. ASSUME NEW c \in Callers, FsyncLanes(c) PROVE TypeOK'
  <2>1. CallersTypeOK'
    BY <1>a, <1>b, <1>4, StepType DEF FsyncLanes, Stages
  <2>2. FilesTypeOK'
    BY <1>a, <1>4 DEF FsyncLanes, FilesTypeOK
  <2> QED
    BY <1>a, <1>4, <2>1, <2>2
    DEF FsyncLanes, TypeOK, RegistryTypeOK, MemoryTypeOK, reg, memory
<1>5. ASSUME NEW c \in Callers, Compose(c) PROVE TypeOK'
  <2> DEFINE m == NextMarker(ctx[c].op, ctx[c].records)
  <2>1. m \in Marker
    BY <1>a, <1>b, NextMarkerType
  <2>2. Step(c, "compose", "check", [ctx[c] EXCEPT !.marker = m])
    BY <1>5 DEF Compose
  <2> HIDE DEF m
  <2>3. [ctx[c] EXCEPT !.marker = m] \in Context
    BY <1>b, <2>1 DEF Context
  <2>4. CallersTypeOK'
    BY <1>a, <2>2, <2>3, StepType DEF Stages
  <2> QED
    BY <1>a, <1>5, <2>4
    DEF Compose, TypeOK, FilesTypeOK, RegistryTypeOK, MemoryTypeOK, files, reg, memory
<1>6. ASSUME NEW c \in Callers, Check(c) PROVE TypeOK'
  <2>1. CallersTypeOK'
    BY <1>a, <1>b, <1>6, StepType, NoCommitType DEF Check, Stages
  <2> QED
    BY <1>a, <1>6, <2>1
    DEF Check, TypeOK, FilesTypeOK, RegistryTypeOK, MemoryTypeOK, files, reg, memory
<1>7. ASSUME NEW c \in Callers, Write(c) PROVE TypeOK'
  <2>1. CallersTypeOK'
    BY <1>a, <1>b, <1>7, StepType DEF Write, Stages
  <2>2. FilesTypeOK'
    BY <1>a, <1>b, <1>7, JournalGrows DEF Write
  <2> QED
    BY <1>a, <1>7, <2>1, <2>2
    DEF Write, TypeOK, RegistryTypeOK, MemoryTypeOK, reg, memory
<1>8. ASSUME NEW c \in Callers, CommitSync(c) PROVE TypeOK'
  <2> DEFINE m == NextMarker(issued + 1, {})
             new == [NoCommit EXCEPT !.op = issued + 1, !.marker = m, !.kind = "sync"]
  <2>1. m \in Marker
    BY <1>a, NextMarkerType
  <2>2. /\ Step(c, "idle", "fsync", new)
        /\ journal' = Append(journal, Written(m))
        /\ journalTorn' = FALSE
        /\ issued' = issued + 1
        /\ UNCHANGED <<journalSynced, lane, laneSynced, reg, memory, acked, crashes>>
    BY <1>8 DEF CommitSync
  <2>3. issued' \in 0..MaxOps
    BY <1>a, <1>8 DEF CommitSync, MayCommit
  <2> HIDE DEF m
  <2>4. new \in Context
    <3>1. issued + 1 \in Nat
      BY <1>a
    <3> QED
      BY <2>1, <3>1, NoCommitType, UpdateOpMarkerKind
  <2> HIDE DEF new
  <2>5. CallersTypeOK'
    BY <1>a, <2>2, <2>4, StepType DEF Stages
  <2>6. FilesTypeOK'
    BY <1>a, <2>1, <2>2, JournalGrows
  <2>7. journalTorn' \in BOOLEAN /\ readOnly' \in BOOLEAN
    BY <1>a, <2>2 DEF memory
  <2>8. /\ RegistryTypeOK' /\ MemoryTypeOK' /\ acked' \subseteq Marker
        /\ crashes' \in 0..MaxCrashes
    BY <1>a, <2>2 DEF RegistryTypeOK, MemoryTypeOK, reg, memory
  <2> QED
    BY <2>3, <2>5, <2>6, <2>7, <2>8 DEF TypeOK
<1>9. ASSUME NEW c \in Callers, FsyncJournal(c) PROVE TypeOK'
  <2>1. CallersTypeOK'
    BY <1>a, <1>b, <1>9, StepType DEF FsyncJournal, Stages
  <2>2. FilesTypeOK'
    BY <1>a, <1>9 DEF FsyncJournal, FilesTypeOK
  <2> QED
    BY <1>a, <1>9, <2>1, <2>2
    DEF FsyncJournal, TypeOK, RegistryTypeOK, MemoryTypeOK, reg, memory
<1>10. ASSUME NEW c \in Callers, Finish(c) PROVE TypeOK'
  <2>1. CallersTypeOK'
    BY <1>a, <1>10, StepType, NoCommitType DEF Finish, Stages
  <2>2. MemoryTypeOK' /\ RegistryTypeOK' /\ acked' \subseteq Marker
    BY <1>a, <1>b, <1>10
    DEF Finish, ApplyCommit, MemoryTypeOK, RegistryTypeOK, Marker
  <2> QED
    BY <1>a, <1>10, <2>1, <2>2 DEF Finish, TypeOK, FilesTypeOK, files
<1>11. ASSUME NEW c \in Callers, Fail(c) PROVE TypeOK'
  <2>1. CallersTypeOK'
    BY <1>a, <1>11, StepType, NoCommitType DEF Fail, Stages
  <2> QED
    BY <1>a, <1>11, <2>1
    DEF Fail, TypeOK, FilesTypeOK, RegistryTypeOK, MemoryTypeOK, files, reg, memory
<1>c. ASSUME Reset, crashes < MaxCrashes
      PROVE  /\ MemoryTypeOK' /\ CallersTypeOK' /\ RegistryTypeOK'
             /\ acked' \subseteq Marker /\ issued' \in 0..MaxOps
             /\ crashes' \in 0..MaxCrashes
             /\ readOnly' \in BOOLEAN
  <2>3. readOnly' \in BOOLEAN
    BY <1>c DEF Reset
  <2>1. MemoryTypeOK'
    BY <1>c DEF Reset, MemoryTypeOK, Modes
  <2>2. CallersTypeOK'
    BY <1>c, NoCommitType DEF Reset, CallersTypeOK, Stages
  <2> QED
    BY <1>a, <1>c, <2>1, <2>2, <2>3 DEF Reset, RegistryTypeOK, reg
<1>12. ASSUME ProcessCrash PROVE TypeOK'
  <2>1. journalTorn' \in BOOLEAN
    BY <1>a, <1>12 DEF ProcessCrash, FilesTypeOK, Writing
  <2>2. FilesTypeOK'
    BY <1>a, <1>12, <2>1 DEF ProcessCrash, FilesTypeOK
  <2> QED
    BY <1>12, <1>c, <2>1, <2>2 DEF ProcessCrash, TypeOK
<1>13. ASSUME PowerLoss PROVE TypeOK'
  <2>1. PICK n \in journalSynced..Len(journal) :
          /\ journal' = SubSeq(journal, 1, n)
          /\ journalSynced' = n
          /\ journalTorn' \in {FALSE, journalTorn \/ Writing \/ n < Len(journal)}
    BY <1>13 DEF PowerLoss
  <2>2. PICK keep \in [Lanes -> 0..Longest] :
          /\ \A l \in Lanes : keep[l] \in laneSynced[l]..Len(lane[l])
          /\ lane' = [l \in Lanes |-> SubSeq(lane[l], 1, keep[l])]
          /\ laneSynced' = keep
    BY <1>13 DEF PowerLoss
  <2>3. journal' \in Seq(Marker) /\ journalSynced' \in 0..Len(journal')
    BY <1>a, <2>1 DEF FilesTypeOK
  <2>4. journalTorn' \in BOOLEAN
    BY <1>a, <2>1 DEF FilesTypeOK, Writing
  <2>5. \A l \in Lanes : /\ SubSeq(lane[l], 1, keep[l]) \in Seq(Nat)
                         /\ keep[l] \in Nat
                         /\ Len(SubSeq(lane[l], 1, keep[l])) = keep[l]
    BY <1>a, <2>2 DEF FilesTypeOK
  <2>6. FilesTypeOK'
    BY <2>2, <2>3, <2>4, <2>5 DEF FilesTypeOK
  <2> QED
    BY <1>13, <1>c, <2>4, <2>6 DEF PowerLoss, TypeOK
<1>14. ASSUME RecoverJournal PROVE TypeOK'
  <2>1. markers' \in Seq(Marker)
    BY <1>a, <1>14, VerifiedLengthBound DEF RecoverJournal, Verified, FilesTypeOK
  <2>2. headTx' \in Nat /\ headHash' \in Nat
    <3>1. CASE markers' = <<>>
      BY <1>14, <3>1 DEF RecoverJournal
    <3>2. CASE markers' # <<>>
      <4>1. markers'[Len(markers')] \in Marker
        BY <2>1, <3>2
      <4> QED
        BY <1>14, <3>2, <4>1 DEF RecoverJournal, Marker
    <3> QED
      BY <3>1, <3>2
  <2>3. readOnly' \in BOOLEAN /\ mode' \in Modes
    BY <1>14 DEF RecoverJournal, Modes
  <2>4. MemoryTypeOK'
    BY <1>a, <1>14, <2>1, <2>2, <2>3 DEF RecoverJournal, MemoryTypeOK
  <2>5. FilesTypeOK'
    BY <1>a, <1>14 DEF RecoverJournal, FilesTypeOK
  <2> QED
    BY <1>a, <1>14, <2>4, <2>5
    DEF RecoverJournal, TypeOK, RegistryTypeOK, CallersTypeOK, reg
<1>15. ASSUME RecoverLanes PROVE TypeOK'
  <2>1. \A l \in Lanes : ~Damaged(markers, l) =>
           CommittedEnd(markers, l) \in 0..Len(lane[l])
    BY CommittedEndBound
  <2>2. lane' \in [Lanes -> Seq(Nat)] /\ laneSynced' \in [Lanes -> Nat]
    BY <1>a, <1>15, <2>1 DEF RecoverLanes, FilesTypeOK
  <2>3. \A l \in Lanes : laneSynced'[l] <= Len(lane'[l])
    BY <1>a, <1>15, <2>1 DEF RecoverLanes, FilesTypeOK
  <2>4. FilesTypeOK'
    BY <1>a, <1>15, <2>2, <2>3 DEF RecoverLanes, FilesTypeOK
  <2>5. readOnly' \in BOOLEAN /\ mode' \in Modes
    BY <1>15 DEF RecoverLanes, Modes
  <2>6. MemoryTypeOK'
    BY <1>a, <1>15, <2>5 DEF RecoverLanes, MemoryTypeOK, head
  <2> QED
    BY <1>a, <1>15, <2>4, <2>6
    DEF RecoverLanes, TypeOK, RegistryTypeOK, CallersTypeOK, reg
<1>d. \A i \in 1..Len(markers) : markers[i] \in Marker
  BY <1>a DEF MemoryTypeOK
<1>16. ASSUME RebuildRegistry PROVE TypeOK'
  <2>1. RegistryTypeOK'
    BY <1>a, <1>d, <1>16
    DEF RebuildRegistry, RegistryTypeOK, MemoryTypeOK, OpsOf, Marker
  <2> QED
    BY <1>a, <1>16, <2>1
    DEF RebuildRegistry, TypeOK, FilesTypeOK, MemoryTypeOK, CallersTypeOK, files, memory
<1>17. ASSUME ReplayMarker PROVE TypeOK'
  <2>1. RegistryTypeOK'
    BY <1>a, <1>d, <1>17 DEF ReplayMarker, ApplyCommit, RegistryTypeOK, Marker
  <2> QED
    BY <1>a, <1>17, <2>1
    DEF ReplayMarker, TypeOK, FilesTypeOK, MemoryTypeOK, CallersTypeOK, files, memory
<1>18. ASSUME Open PROVE TypeOK'
  <2>1. index' \subseteq Locator
    BY <1>d, <1>18 DEF Open, RecordsOf, Marker
  <2>2. offset' \in [Lanes -> Nat] /\ mode' \in Modes
    BY <1>a, <1>18 DEF Open, FilesTypeOK, Modes
  <2> QED
    BY <1>a, <1>18, <2>1, <2>2
    DEF Open, TypeOK, FilesTypeOK, RegistryTypeOK, MemoryTypeOK, CallersTypeOK, files,
        reg, head
<1>19. CASE UNCHANGED vars
  BY <1>a, <1>19
  DEF TypeOK, FilesTypeOK, RegistryTypeOK, MemoryTypeOK, CallersTypeOK, vars, files,
      reg, memory
<1> QED
  BY <1>1, <1>2, <1>3, <1>4, <1>5, <1>6, <1>7, <1>8, <1>9, <1>10, <1>11, <1>12,
     <1>13, <1>14, <1>15, <1>16, <1>17, <1>18, <1>19
  DEF Next, Commit, Recover

\* Every variable of the store keeps its type, whatever the workload: the
\* synced parts never exceed the files, and a writer always has a record.
THEOREM TypeCorrect == Spec => []TypeOK
  BY InitTypeOK, NextTypeOK, PTL DEF Spec


-----------------------------------------------------------------------------
(* The inductive invariants of the journal and the registry. *)

\* A commit is under way in caller c: it has a name, and no other is.
OneCommit ==
    /\ mode # "open" => \A c \in Callers : pc[c] = "idle"
    /\ \A c, d \in Callers : pc[c] # "idle" /\ pc[d] # "idle" => c = d
    /\ \A c \in Callers : pc[c] # "idle" => ctx[c].op # 0

\* Bytes behind the last line are only there while the store is down.
TornOnlyDown == journalTorn => mode = "down"

\* The line of caller c is in the file and the head does not know of it yet.
Pending(c) == pc[c] \in {"fsync", "finish"}

\* The head in memory is the last line of the file, or the one before it
\* while the commit that wrote the last line has not finished.
HeadIsLast ==
    mode # "down" =>
        /\ headTx <= Len(journal)
        /\ headHash = (IF headTx = 0 THEN 0 ELSE journal[headTx].op)
        /\ (\A c \in Callers : ~Pending(c)) => headTx = Len(journal)

\* The marker a commit holds is the one it composed on that head.
MarkerExtends ==
    \A c \in Callers :
        /\ pc[c] = "check" => ctx[c].marker.op # 0
        /\ pc[c] = "write" => /\ ctx[c].marker.op # 0
                              /\ ExtendsHead(ctx[c].marker)
        /\ Pending(c) => /\ Len(journal) = headTx + 1
                         /\ ctx[c].marker = journal[headTx + 1]

\* Recovery works on the whole journal.
MarkersAreJournal == mode \in {"lanes", "registry"} => markers = journal

ChainInv ==
    /\ OneCommit
    /\ TornOnlyDown
    /\ JournalChained
    /\ HeadIsLast
    /\ MarkerExtends
    /\ MarkersAreJournal

\* The registry is the replay of a prefix of the journal, unless it is ahead
\* of what a power loss left of it.
ReplayInv ==
    /\ journalSynced >= 1
    /\ lastIndexed <= Len(journal) =>
          /\ Len(applied) = lastIndexed
          /\ \A i \in 1..lastIndexed : applied[i] = journal[i].op
    /\ mode = "open" => lastIndexed = headTx

-----------------------------------------------------------------------------
(* Lemmas about chains and replays. *)

\* A journal that is chained verifies to itself.
LEMMA ChainedVerifies ==
    ASSUME FilesTypeOK, JournalChained
    PROVE  BadLines(journal) = {} /\ Verified(journal) = journal
<1>1. \A k \in 1..Len(journal) : journal[k] \in Marker
  BY DEF FilesTypeOK
<1>2. \A k \in 1..Len(journal) : ~BadLink(journal, k) /\ ~BadTx(journal, k)
  <2> TAKE k \in 1..Len(journal)
  <2>1. ~BadLink(journal, k)
    BY DEF JournalChained, BadLink
  <2>2. journal[k].tx = k
    BY DEF JournalChained
  <2>3. k # 1 => journal[k - 1].tx = k - 1
    <3> SUFFICES ASSUME k # 1 PROVE journal[k - 1].tx = k - 1
      OBVIOUS
    <3>1. k - 1 \in 1..Len(journal)
      BY DEF FilesTypeOK
    <3> QED
      BY <3>1 DEF JournalChained
  <2>4. ~BadTx(journal, k)
    BY <2>2, <2>3 DEF BadTx
  <2> QED
    BY <2>1, <2>4
<1>3. BadLines(journal) = {}
  BY <1>2 DEF BadLines
<1>4. VerifiedLength(journal) = Len(journal)
  BY <1>3 DEF VerifiedLength
<1> QED
  BY <1>3, <1>4 DEF Verified, FilesTypeOK

\* A prefix of a chained journal is chained.
LEMMA PrefixChained ==
    ASSUME FilesTypeOK, JournalChained, NEW n \in 0..Len(journal),
           journal' = SubSeq(journal, 1, n)
    PROVE  JournalChained'
<1>1. Len(journal') = n /\ \A k \in 1..n : journal'[k] = journal[k]
  BY DEF FilesTypeOK
<1>2. \A k \in 1..n : PreviousHash(journal', k) = PreviousHash(journal, k)
  BY <1>1 DEF PreviousHash
<1> QED
  BY <1>1, <1>2 DEF JournalChained

\* A line that extends the last one keeps the chain.
LEMMA ExtendedChained ==
    ASSUME FilesTypeOK, JournalChained, NEW m \in Marker, m.op # 0,
           m.tx = Len(journal) + 1,
           m.previous = (IF Len(journal) = 0 THEN 0 ELSE journal[Len(journal)].op),
           journal' = Append(journal, m)
    PROVE  /\ JournalChained'
           /\ Len(journal') = Len(journal) + 1
           /\ journal'[Len(journal) + 1] = m
           /\ \A k \in 1..Len(journal) : journal'[k] = journal[k]
<1>1. /\ Len(journal') = Len(journal) + 1
      /\ journal'[Len(journal) + 1] = m
      /\ \A k \in 1..Len(journal) : journal'[k] = journal[k]
  BY DEF FilesTypeOK
<1>2. \A k \in 1..Len(journal) : PreviousHash(journal', k) = PreviousHash(journal, k)
  BY <1>1 DEF PreviousHash
<1>3. PreviousHash(journal', Len(journal) + 1) = m.previous
  BY <1>1 DEF PreviousHash, FilesTypeOK
<1>4. Len(journal) \in Nat
  BY DEF FilesTypeOK
<1> QED
  BY <1>1, <1>2, <1>3, <1>4 DEF JournalChained

\* A step of the only commit leaves the other callers idle.
LEMMA StepOneCommit ==
    ASSUME CallersTypeOK, OneCommit, NEW c \in Callers, NEW from, NEW to, NEW new,
           Step(c, from, to, new), mode' = mode,
           to # "idle" => new.op # 0,
           from = "idle" => \A d \in Callers : pc[d] = "idle"
    PROVE  /\ OneCommit'
           /\ \A d \in Callers : d # c => pc[d] = "idle" /\ pc'[d] = "idle"
           /\ pc[c] = from /\ pc'[c] = to /\ ctx'[c] = new /\ mode = "open"
  BY DEF CallersTypeOK, OneCommit, Step, Running

\* A step of a commit that leaves the journal, the head and the mode alone.
LEMMA QuietStep ==
    ASSUME TypeOK, ChainInv, NEW c \in Callers, NEW from, NEW to, NEW new,
           Step(c, from, to, new),
           UNCHANGED <<journal, journalTorn, mode, markers, headTx, headHash>>,
           from = "idle" => \A d \in Callers : pc[d] = "idle",
           to # "idle" => new.op # 0,
           to = "check" => new.marker.op # 0,
           to = "write" => new.marker.op # 0 /\ ExtendsHead(new.marker),
           to \in {"fsync", "finish"} => from \in {"fsync", "finish"} /\ new = ctx[c],
           from \in {"fsync", "finish"} => to \in {"fsync", "finish"}
    PROVE  ChainInv'
<1>1. /\ OneCommit'
      /\ \A d \in Callers : d # c => pc[d] = "idle" /\ pc'[d] = "idle"
      /\ pc[c] = from /\ pc'[c] = to /\ ctx'[c] = new
  BY StepOneCommit DEF TypeOK, ChainInv
<1>2. \A d \in Callers : Pending(d)' <=> Pending(d)
  BY <1>1 DEF Pending
<1>3. TornOnlyDown'
  BY DEF ChainInv, TornOnlyDown
<1>4. JournalChained' /\ MarkersAreJournal'
  BY DEF ChainInv, JournalChained, PreviousHash, MarkersAreJournal
<1>5. HeadIsLast'
  BY <1>2 DEF ChainInv, HeadIsLast
<1>6. MarkerExtends'
  <2> SUFFICES ASSUME NEW d \in Callers
               PROVE  /\ pc'[d] = "check" => ctx'[d].marker.op # 0
                      /\ pc'[d] = "write" => /\ ctx'[d].marker.op # 0
                                             /\ ctx'[d].marker.tx = headTx' + 1
                                             /\ ctx'[d].marker.previous = headHash'
                      /\ Pending(d)' => /\ Len(journal') = headTx' + 1
                                        /\ ctx'[d].marker = journal'[headTx' + 1]
    BY DEF MarkerExtends, ExtendsHead
  <2>1. CASE d # c
    BY <1>1, <2>1 DEF Pending
  <2>2. CASE d = c
    BY <1>1, <1>2, <2>2 DEF ChainInv, MarkerExtends, ExtendsHead, Pending
  <2> QED
    BY <2>1, <2>2
<1> QED
  BY <1>1, <1>3, <1>4, <1>5, <1>6 DEF ChainInv

\* The step that writes the line of a commit.
LEMMA LineStep ==
    ASSUME TypeOK, ChainInv, NEW c \in Callers, NEW from, NEW new,
           NEW m \in Marker, m = new.marker, m.op # 0, new.op # 0, ExtendsHead(m),
           Step(c, from, "fsync", new), from \notin {"fsync", "finish"},
           journal' = Append(journal, Written(m)), journalTorn' = FALSE,
           UNCHANGED <<mode, markers, headTx, headHash>>,
           from = "idle" => \A d \in Callers : pc[d] = "idle"
    PROVE  ChainInv'
<1>1. /\ OneCommit'
      /\ \A d \in Callers : d # c => pc[d] = "idle" /\ pc'[d] = "idle"
      /\ pc[c] = from /\ pc'[c] = "fsync" /\ ctx'[c] = new /\ mode = "open"
  BY StepOneCommit DEF TypeOK, ChainInv
<1>2. journal' = Append(journal, m)
  BY <1>1 DEF ChainInv, TornOnlyDown, Written
<1>3. \A d \in Callers : ~Pending(d)
  BY <1>1 DEF Pending
<1>4. /\ headTx = Len(journal)
      /\ headHash = (IF Len(journal) = 0 THEN 0 ELSE journal[Len(journal)].op)
  BY <1>1, <1>3 DEF ChainInv, HeadIsLast
<1>5. /\ JournalChained'
      /\ Len(journal') = Len(journal) + 1
      /\ journal'[Len(journal) + 1] = m
      /\ \A k \in 1..Len(journal) : journal'[k] = journal[k]
  BY <1>2, <1>4, ExtendedChained DEF TypeOK, ChainInv, ExtendsHead
<1>6. TornOnlyDown'
  BY DEF TornOnlyDown
<1>7. MarkersAreJournal'
  BY <1>1 DEF MarkersAreJournal
<1>8. headTx \in Nat /\ Len(journal) \in Nat
  BY DEF TypeOK, MemoryTypeOK, FilesTypeOK
<1>9. HeadIsLast'
  BY <1>1, <1>4, <1>5, <1>8 DEF HeadIsLast, Pending
<1>10. MarkerExtends'
  BY <1>1, <1>4, <1>5 DEF MarkerExtends, Pending
<1> QED
  BY <1>1, <1>5, <1>6, <1>7, <1>9, <1>10 DEF ChainInv

-----------------------------------------------------------------------------
(* The journal is one chain. *)

LEMMA InitChain == Init => ChainInv
<1> SUFFICES ASSUME Init PROVE ChainInv
  OBVIOUS
<1> USE BoundsAssumption
<1>1. PICK n \in InitSizes : ClosedStore(n)
  BY DEF Init
<1>2. \A c \in Callers : pc[c] = "idle"
  BY DEF Init
<1>3. mode = "down"
  BY DEF Init
<1>4. OneCommit /\ HeadIsLast /\ MarkersAreJournal
  BY <1>2, <1>3 DEF OneCommit, HeadIsLast, MarkersAreJournal
<1>5. MarkerExtends
  BY <1>2 DEF MarkerExtends, Pending
<1>6. TornOnlyDown
  BY <1>3 DEF TornOnlyDown
<1>7. JournalChained
  BY <1>1 DEF ClosedStore, JournalChained, PreviousHash
<1> QED
  BY <1>4, <1>5, <1>6, <1>7 DEF ChainInv

\* The store goes down: only the journal is left to say something about.
LEMMA ResetChain ==
    ASSUME JournalChained', Reset
    PROVE  ChainInv'
<1>1. mode' = "down" /\ \A c \in Callers : pc'[c] = "idle"
  BY DEF Reset
<1>2. OneCommit' /\ HeadIsLast' /\ MarkersAreJournal'
  BY <1>1 DEF OneCommit, HeadIsLast, MarkersAreJournal
<1>3. MarkerExtends'
  BY <1>1 DEF MarkerExtends, Pending
<1>4. TornOnlyDown'
  BY <1>1 DEF TornOnlyDown
<1> QED
  BY <1>2, <1>3, <1>4 DEF ChainInv

\* Recovery steps after verify move the mode on and leave the chain alone.
LEMMA RecoveryChain ==
    ASSUME ChainInv, mode \in {"lanes", "registry"},
           mode' \in {"registry", "open"},
           UNCHANGED <<journal, journalTorn, markers, headTx, headHash, pc, ctx>>
    PROVE  ChainInv'
<1>1. \A c \in Callers : pc[c] = "idle"
  BY DEF ChainInv, OneCommit
<1>2. OneCommit' /\ HeadIsLast' /\ MarkersAreJournal' /\ JournalChained'
  BY <1>1 DEF ChainInv, OneCommit, HeadIsLast, MarkersAreJournal, JournalChained,
              Pending, PreviousHash
<1>3. MarkerExtends'
  BY <1>1 DEF MarkerExtends, Pending
<1>4. TornOnlyDown'
  BY DEF ChainInv, TornOnlyDown
<1> QED
  BY <1>2, <1>3, <1>4 DEF ChainInv

LEMMA NextChain ==
    ASSUME Serial, TypeOK, ChainInv, [Next]_vars
    PROVE  ChainInv'
<1>a. /\ FilesTypeOK /\ MemoryTypeOK /\ CallersTypeOK /\ issued \in Nat
      /\ OneCommit /\ JournalChained
  BY BoundsAssumption DEF TypeOK, ChainInv
<1>b. \A c \in Callers : /\ ctx[c] \in Context
                         /\ ctx[c].op \in Nat
                         /\ ctx[c].records \in SUBSET Locator
                         /\ ctx[c].marker \in Marker
  BY <1>a DEF CallersTypeOK, Context
<1>c. \A c \in Callers : MayCommit(c) => \A d \in Callers : pc[d] = "idle"
  BY DEF MayCommit
<1>d. \A c \in Callers : pc[c] # "idle" => ctx[c].op # 0
  BY <1>a DEF OneCommit
<1>1. ASSUME NEW c \in Callers, NEW b \in Batches, Begin(c, b) PROVE ChainInv'
  <2> DEFINE new == [NoCommit EXCEPT !.op = issued + 1, !.todo = b]
  <2>1. new.op # 0
    BY <1>a DEF NoCommit
  <2>2. /\ Step(c, "idle", "lane", new)
        /\ UNCHANGED <<journal, journalTorn, mode, markers, headTx, headHash>>
    BY <1>1 DEF Begin, files, memory
  <2> HIDE DEF new
  <2> QED
    BY <1>1, <1>c, <2>1, <2>2, QuietStep DEF Begin
<1>2. ASSUME NEW c \in Callers, AppendStart(c) PROVE ChainInv'
  <2> DEFINE new == [ctx[c] EXCEPT !.at = offset[Head(ctx[c].todo)]]
  <2>1. new.op # 0
    BY <1>b, <1>d, <1>2 DEF AppendStart, Step, Context
  <2>2. /\ Step(c, "lane", "append", new)
        /\ UNCHANGED <<journal, journalTorn, mode, markers, headTx, headHash>>
    BY <1>2 DEF AppendStart, files, memory
  <2> HIDE DEF new
  <2> QED
    BY <2>1, <2>2, QuietStep
<1>3. ASSUME NEW c \in Callers, AppendDone(c) PROVE ChainInv'
  <2> DEFINE l == Head(ctx[c].todo)
             new == [ctx[c] EXCEPT !.todo = Tail(@),
                        !.records = @ \cup {[lane |-> l, line |-> ctx[c].at + 1]}]
  <2>1. new.op # 0
    BY <1>b, <1>d, <1>3 DEF AppendDone, Step, Context
  <2>2. /\ Step(c, "append", "lane", new)
        /\ UNCHANGED <<journal, journalTorn, mode, markers, headTx, headHash>>
    BY <1>3 DEF AppendDone, head
  <2> HIDE DEF new
  <2> QED
    BY <2>1, <2>2, QuietStep
<1>4. ASSUME NEW c \in Callers, FsyncLanes(c) PROVE ChainInv'
  <2>1. /\ Step(c, "lane", "compose", ctx[c])
        /\ UNCHANGED <<journal, journalTorn, mode, markers, headTx, headHash>>
    BY <1>4 DEF FsyncLanes, memory
  <2>2. ctx[c].op # 0
    BY <1>d, <2>1 DEF Step
  <2> QED
    BY <2>1, <2>2, QuietStep
<1>5. ASSUME NEW c \in Callers, Compose(c) PROVE ChainInv'
  <2> DEFINE m == NextMarker(ctx[c].op, ctx[c].records)
             new == [ctx[c] EXCEPT !.marker = m]
  <2>1. /\ Step(c, "compose", "check", new)
        /\ UNCHANGED <<journal, journalTorn, mode, markers, headTx, headHash>>
    BY <1>5 DEF Compose, files, memory
  <2>2. ctx[c].op # 0
    BY <1>d, <2>1 DEF Step
  <2>3. m.op # 0
    BY <2>2 DEF NextMarker
  <2>4. new.op # 0 /\ new.marker = m
    BY <1>b, <2>2 DEF Context
  <2> HIDE DEF new, m
  <2> QED
    BY <2>1, <2>3, <2>4, QuietStep
<1>6. ASSUME NEW c \in Callers, Check(c) PROVE ChainInv'
  <2>1. UNCHANGED <<journal, journalTorn, mode, markers, headTx, headHash>>
    BY <1>6 DEF Check, files, memory
  <2>2. CASE ExtendsHead(ctx[c].marker)
    <3>1. Step(c, "check", "write", ctx[c])
      BY <1>6, <2>2 DEF Check
    <3>2. ctx[c].op # 0 /\ ctx[c].marker.op # 0
      BY <1>d, <3>1 DEF Step, ChainInv, MarkerExtends
    <3> QED
      BY <2>1, <2>2, <3>1, <3>2, QuietStep
  <2>3. CASE ~ExtendsHead(ctx[c].marker)
    <3>1. Step(c, "check", "idle", NoCommit)
      BY <1>6, <2>3 DEF Check
    <3> QED
      BY <2>1, <3>1, QuietStep
  <2> QED
    BY <2>2, <2>3
<1>7. ASSUME NEW c \in Callers, Write(c) PROVE ChainInv'
  <2> DEFINE new == ctx[c]
             m   == new.marker
  <2>1. /\ Step(c, "write", "fsync", new)
        /\ journal' = Append(journal, Written(m))
        /\ journalTorn' = FALSE
        /\ UNCHANGED <<mode, markers, headTx, headHash>>
    BY <1>7 DEF Write, memory
  <2>2. new.op # 0 /\ m.op # 0 /\ ExtendsHead(m)
    BY <1>d, <2>1 DEF Step, ChainInv, MarkerExtends
  <2>3. m \in Marker /\ m = new.marker
    BY <1>b
  <2>4. "write" \notin {"fsync", "finish"} /\ "write" # "idle"
    OBVIOUS
  <2> HIDE DEF m, new
  <2> QED
    BY <2>1, <2>2, <2>3, <2>4, LineStep, Zenon
<1>8. ASSUME NEW c \in Callers, CommitSync(c) PROVE ChainInv'
  <2> DEFINE m == NextMarker(issued + 1, {})
             new == [NoCommit EXCEPT !.op = issued + 1, !.marker = m, !.kind = "sync"]
  <2>1. /\ Step(c, "idle", "fsync", new)
        /\ journal' = Append(journal, Written(m))
        /\ journalTorn' = FALSE
        /\ UNCHANGED <<mode, markers, headTx, headHash>>
        /\ MayCommit(c)
    BY <1>8 DEF CommitSync, memory
  <2>2. m \in Marker
    BY <1>a, NextMarkerType
  <2>3. m.op # 0 /\ ExtendsHead(m)
    BY <1>a DEF NextMarker, ExtendsHead
  <2> HIDE DEF m
  <2>4. new.op # 0 /\ new.marker = m
    BY <1>a DEF NoCommit
  <2> HIDE DEF new
  <2> QED
    BY <1>c, <2>1, <2>2, <2>3, <2>4, LineStep
<1>9. ASSUME NEW c \in Callers, FsyncJournal(c) PROVE ChainInv'
  <2>1. /\ Step(c, "fsync", "finish", ctx[c])
        /\ UNCHANGED <<journal, journalTorn, mode, markers, headTx, headHash>>
    BY <1>9 DEF FsyncJournal, memory
  <2>2. ctx[c].op # 0
    BY <1>d, <2>1 DEF Step
  <2> QED
    BY <2>1, <2>2, QuietStep
<1>10. ASSUME NEW c \in Callers, Finish(c) PROVE ChainInv'
  <2> DEFINE m == ctx[c].marker
  <2>1. /\ Step(c, "finish", "idle", NoCommit)
        /\ headTx' = m.tx /\ headHash' = m.op
        /\ UNCHANGED <<journal, journalTorn, mode, markers>>
    BY <1>10 DEF Finish, files
  <2>2. /\ OneCommit'
        /\ \A d \in Callers : pc'[d] = "idle"
        /\ pc[c] = "finish" /\ mode = "open"
    BY <1>a, <2>1, StepOneCommit
  <2>3. Len(journal) = headTx + 1 /\ m = journal[headTx + 1]
    BY <2>2 DEF ChainInv, MarkerExtends, Pending
  <2>4. Len(journal) \in 1..Len(journal) /\ m = journal[Len(journal)]
    BY <1>a, <2>3 DEF MemoryTypeOK, FilesTypeOK
  <2>5. m.tx = Len(journal)
    BY <1>a, <2>4 DEF JournalChained
  <2>6. HeadIsLast'
    BY <1>a, <2>1, <2>4, <2>5 DEF HeadIsLast
  <2>7. MarkerExtends' /\ MarkersAreJournal'
    BY <2>1, <2>2 DEF MarkerExtends, Pending, MarkersAreJournal
  <2>8. JournalChained'
    BY <1>a, <2>1 DEF JournalChained, PreviousHash
  <2>9. TornOnlyDown'
    BY <2>1 DEF ChainInv, TornOnlyDown
  <2> QED
    BY <2>2, <2>6, <2>7, <2>8, <2>9 DEF ChainInv
<1>11. ASSUME NEW c \in Callers, Fail(c) PROVE ChainInv'
  <2>1. /\ Step(c, pc[c], "idle", NoCommit)
        /\ pc[c] \in {"lane", "append", "write"}
        /\ UNCHANGED <<journal, journalTorn, mode, markers, headTx, headHash>>
    BY <1>11 DEF Fail, files, memory
  <2> QED
    BY <2>1, QuietStep
<1>12. ASSUME ProcessCrash PROVE ChainInv'
  <2>1. JournalChained'
    BY <1>a, <1>12 DEF ProcessCrash, JournalChained, PreviousHash
  <2> QED
    BY <1>12, <2>1, ResetChain DEF ProcessCrash
<1>13. ASSUME PowerLoss PROVE ChainInv'
  <2>1. PICK n \in journalSynced..Len(journal) : journal' = SubSeq(journal, 1, n)
    BY <1>13 DEF PowerLoss
  <2>2. n \in 0..Len(journal)
    BY <1>a, <2>1 DEF FilesTypeOK
  <2>3. JournalChained'
    BY <1>a, <2>1, <2>2, PrefixChained
  <2> QED
    BY <1>13, <2>3, ResetChain DEF PowerLoss
<1>14. ASSUME RecoverJournal PROVE ChainInv'
  <2>1. /\ mode = "down" /\ mode' = "lanes"
        /\ UNCHANGED <<journal, pc, ctx>>
        /\ markers' = journal
    BY <1>a, <1>14, ChainedVerifies DEF RecoverJournal
  <2>2. /\ headTx' = (IF journal = <<>> THEN 0 ELSE journal[Len(journal)].tx)
        /\ headHash' = (IF journal = <<>> THEN 0 ELSE journal[Len(journal)].op)
    BY <1>14, <2>1 DEF RecoverJournal
  <2>3. Len(journal) \in Nat /\ (journal = <<>> <=> Len(journal) = 0)
    BY <1>a DEF FilesTypeOK
  <2>4. headTx' = Len(journal)
    BY <1>a, <2>2, <2>3 DEF JournalChained
  <2>5. \A c \in Callers : pc'[c] = "idle"
    BY <1>a, <2>1 DEF OneCommit
  <2>6. HeadIsLast' /\ MarkersAreJournal'
    BY <2>1, <2>2, <2>3, <2>4 DEF HeadIsLast, MarkersAreJournal
  <2>7. OneCommit' /\ MarkerExtends'
    BY <2>5 DEF OneCommit, MarkerExtends, Pending
  <2>8. JournalChained'
    BY <1>a, <2>1 DEF JournalChained, PreviousHash
  <2>9. TornOnlyDown'
    BY <1>14 DEF RecoverJournal, TornOnlyDown
  <2> QED
    BY <2>6, <2>7, <2>8, <2>9 DEF ChainInv
<1>15. ASSUME RecoverLanes PROVE ChainInv'
  BY <1>15, RecoveryChain DEF RecoverLanes, head
<1>16. ASSUME RebuildRegistry PROVE ChainInv'
  BY <1>16, RecoveryChain DEF RebuildRegistry, files, memory
<1>17. ASSUME ReplayMarker PROVE ChainInv'
  BY <1>17, RecoveryChain DEF ReplayMarker, files, memory
<1>18. ASSUME Open PROVE ChainInv'
  BY <1>18, RecoveryChain DEF Open, files, head
<1>19. CASE UNCHANGED vars
  BY <1>19
  DEF ChainInv, OneCommit, TornOnlyDown, JournalChained, PreviousHash, HeadIsLast,
      MarkerExtends, Pending, ExtendsHead, MarkersAreJournal, vars, files, memory
<1> QED
  BY <1>1, <1>2, <1>3, <1>4, <1>5, <1>6, <1>7, <1>8, <1>9, <1>10, <1>11, <1>12,
     <1>13, <1>14, <1>15, <1>16, <1>17, <1>18, <1>19
  DEF Next, Commit, Recover

\* When commits do not overlap, the journal is one hash chain with a tx per
\* line, whatever fails or crashes and at whatever step.
THEOREM ChainedWhenSerial ==
    ASSUME Serial
    PROVE  Spec => []JournalChained
<1>1. Init => ChainInv /\ TypeOK
  BY InitChain, InitTypeOK
<1>2. ChainInv /\ TypeOK /\ [Next]_vars => ChainInv' /\ TypeOK'
  BY NextChain, NextTypeOK
<1>3. ChainInv => JournalChained
  BY DEF ChainInv
<1> QED
  BY <1>1, <1>2, <1>3, PTL DEF Spec

-----------------------------------------------------------------------------
(* The registry is the replay of the journal. *)

LEMMA InitReplay == 0 \notin InitSizes /\ Init => ReplayInv
<1> SUFFICES ASSUME 0 \notin InitSizes, Init PROVE ReplayInv
  OBVIOUS
<1> USE BoundsAssumption
<1>1. PICK n \in InitSizes : ClosedStore(n)
  BY DEF Init
<1>2. n >= 1
  OBVIOUS
<1> QED
  BY <1>1, <1>2 DEF ClosedStore, ReplayInv, Init

\* Steps that leave the journal, the registry and the head alone and do not
\* open the store.
LEMMA SameReplay ==
    ASSUME ReplayInv, UNCHANGED <<journal, applied, lastIndexed, headTx>>,
           journalSynced' >= 1, mode' = "open" => mode = "open"
    PROVE  ReplayInv'
  BY DEF ReplayInv

\* A line more in the journal of an open store.
LEMMA LineReplay ==
    ASSUME TypeOK, ChainInv, ReplayInv, mode = "open", NEW m \in Marker,
           journal' = Append(journal, m),
           UNCHANGED <<journalSynced, applied, lastIndexed, headTx, mode>>
    PROVE  ReplayInv'
<1>1. lastIndexed = headTx /\ headTx <= Len(journal)
  BY DEF ReplayInv, ChainInv, HeadIsLast
<1>2. lastIndexed \in Nat /\ journal \in Seq(Marker)
  BY DEF TypeOK, RegistryTypeOK, FilesTypeOK
<1>3. \A k \in 1..Len(journal) : journal'[k] = journal[k]
  BY <1>2
<1> QED
  BY <1>1, <1>2, <1>3 DEF ReplayInv

LEMMA NextReplay ==
    ASSUME Serial, TypeOK, ChainInv, ReplayInv, [Next]_vars
    PROVE  ReplayInv'
<1>a. /\ FilesTypeOK /\ RegistryTypeOK /\ MemoryTypeOK /\ CallersTypeOK
      /\ issued \in Nat /\ OneCommit /\ JournalChained
      /\ HeadIsLast /\ MarkersAreJournal
  BY BoundsAssumption DEF TypeOK, ChainInv
<1>b. \A c \in Callers : ctx[c].marker \in Marker
  BY <1>a DEF CallersTypeOK, Context
<1>c. /\ journal \in Seq(Marker) /\ journalSynced \in 0..Len(journal)
      /\ journalSynced >= 1 /\ Len(journal) \in Nat
      /\ lastIndexed \in Nat /\ headTx \in Nat /\ applied \in Seq(Nat)
  BY <1>a DEF FilesTypeOK, RegistryTypeOK, MemoryTypeOK, ReplayInv
<1>1. ASSUME NEW c \in Callers, NEW b \in Batches, Begin(c, b) PROVE ReplayInv'
  BY <1>1, <1>c, SameReplay DEF Begin, files, reg, memory
<1>2. ASSUME NEW c \in Callers, AppendStart(c) PROVE ReplayInv'
  BY <1>2, <1>c, SameReplay DEF AppendStart, files, reg, memory
<1>3. ASSUME NEW c \in Callers, AppendDone(c) PROVE ReplayInv'
  BY <1>3, <1>c, SameReplay DEF AppendDone, reg, head
<1>4. ASSUME NEW c \in Callers, FsyncLanes(c) PROVE ReplayInv'
  BY <1>4, <1>c, SameReplay DEF FsyncLanes, reg, memory
<1>5. ASSUME NEW c \in Callers, Compose(c) PROVE ReplayInv'
  BY <1>5, <1>c, SameReplay DEF Compose, files, reg, memory
<1>6. ASSUME NEW c \in Callers, Check(c) PROVE ReplayInv'
  BY <1>6, <1>c, SameReplay DEF Check, files, reg, memory
<1>7. ASSUME NEW c \in Callers, Write(c) PROVE ReplayInv'
  <2>1. Written(ctx[c].marker) \in Marker
    BY <1>b DEF Written, Garbage, Marker
  <2>2. mode = "open"
    BY <1>7 DEF Write, Step, Running
  <2> QED
    BY <1>7, <2>1, <2>2, LineReplay DEF Write, reg, memory
<1>8. ASSUME NEW c \in Callers, CommitSync(c) PROVE ReplayInv'
  <2> DEFINE m == NextMarker(issued + 1, {})
  <2>1. m \in Marker
    BY <1>a, NextMarkerType
  <2>2. mode = "open" /\ journal' = Append(journal, Written(m))
    BY <1>8 DEF CommitSync, Step, Running
  <2> HIDE DEF m
  <2>3. Written(m) \in Marker
    BY <2>1 DEF Written, Garbage, Marker
  <2> QED
    BY <1>8, <2>2, <2>3, LineReplay DEF CommitSync, reg, memory
<1>9. ASSUME NEW c \in Callers, FsyncJournal(c) PROVE ReplayInv'
  BY <1>9, <1>c, SameReplay DEF FsyncJournal, reg, memory
<1>10. ASSUME NEW c \in Callers, Finish(c) PROVE ReplayInv'
  <2> DEFINE m == ctx[c].marker
  <2>1. /\ pc[c] = "finish" /\ mode = "open"
        /\ headTx' = m.tx /\ lastIndexed' = m.tx /\ applied' = Append(applied, m.op)
        /\ UNCHANGED <<journal, journalSynced, mode>>
    BY <1>10 DEF Finish, Step, Running, ApplyCommit, files
  <2>2. Len(journal) = headTx + 1 /\ m = journal[headTx + 1]
    BY <2>1 DEF ChainInv, MarkerExtends, Pending
  <2>3. m.tx = headTx + 1
    BY <1>a, <1>c, <2>2 DEF JournalChained
  <2>4. lastIndexed = headTx
    BY <2>1 DEF ReplayInv
  <2>5. /\ Len(applied) = headTx
        /\ \A i \in 1..headTx : applied[i] = journal[i].op
    BY <1>c, <2>2, <2>4 DEF ReplayInv
  <2>6. m.op \in Nat
    BY <1>b DEF Marker
  <2>7. /\ Len(applied') = headTx + 1
        /\ applied'[headTx + 1] = m.op
        /\ \A i \in 1..headTx : applied'[i] = applied[i]
    BY <1>c, <2>1, <2>5, <2>6
  <2> QED
    BY <1>c, <2>1, <2>2, <2>3, <2>5, <2>7 DEF ReplayInv
<1>11. ASSUME NEW c \in Callers, Fail(c) PROVE ReplayInv'
  BY <1>11, <1>c, SameReplay DEF Fail, files, reg, memory
<1>12. ASSUME ProcessCrash PROVE ReplayInv'
  BY <1>12, <1>c DEF ProcessCrash, Reset, reg, ReplayInv
<1>13. ASSUME PowerLoss PROVE ReplayInv'
  <2>1. PICK n \in journalSynced..Len(journal) :
          journal' = SubSeq(journal, 1, n) /\ journalSynced' = n
    BY <1>13 DEF PowerLoss
  <2>2. /\ n >= 1 /\ Len(journal') = n /\ n <= Len(journal)
        /\ \A k \in 1..n : journal'[k] = journal[k]
    BY <1>c, <2>1
  <2>3. mode' = "down" /\ UNCHANGED <<applied, lastIndexed>>
    BY <1>13 DEF PowerLoss, Reset, reg
  <2> QED
    BY <1>c, <2>1, <2>2, <2>3 DEF ReplayInv
<1>14. ASSUME RecoverJournal PROVE ReplayInv'
  <2>1. journalSynced' >= 1
    BY <1>c, <1>14 DEF RecoverJournal
  <2>2. mode' = "lanes" /\ UNCHANGED <<journal, applied, lastIndexed>>
    BY <1>14 DEF RecoverJournal, reg
  <2> QED
    BY <2>1, <2>2 DEF ReplayInv
<1>15. ASSUME RecoverLanes PROVE ReplayInv'
  BY <1>15, <1>c, SameReplay DEF RecoverLanes, reg, head
<1>d. mode = "registry" => /\ markers = journal /\ headTx = Len(journal)
                           /\ markers # <<>>
                           /\ \A i \in 1..Len(journal) : journal[i].tx = i
  <2> SUFFICES ASSUME mode = "registry"
               PROVE  /\ markers = journal /\ headTx = Len(journal)
                      /\ markers # <<>>
                      /\ \A i \in 1..Len(journal) : journal[i].tx = i
    OBVIOUS
  <2>1. \A c \in Callers : ~Pending(c)
    BY <1>a DEF OneCommit, Pending
  <2>2. markers = journal /\ headTx = Len(journal)
    BY <1>a, <2>1 DEF MarkersAreJournal, HeadIsLast
  <2> QED
    BY <1>a, <1>c, <2>2 DEF JournalChained
<1>16. ASSUME RebuildRegistry PROVE ReplayInv'
  <2>1. /\ mode = "registry" /\ applied' = OpsOf(journal)
        /\ lastIndexed' = Len(journal)
        /\ UNCHANGED <<journal, journalSynced, mode>>
    BY <1>16, <1>d DEF RebuildRegistry, files, memory
  <2>2. /\ Len(applied') = Len(journal)
        /\ \A i \in 1..Len(journal) : applied'[i] = journal[i].op
    BY <1>c, <2>1 DEF OpsOf
  <2> QED
    BY <1>c, <2>1, <2>2 DEF ReplayInv
<1>17. ASSUME ReplayMarker PROVE ReplayInv'
  <2>1. /\ mode = "registry" /\ lastIndexed \in MarkerTxs
        /\ UNCHANGED <<journal, journalSynced, mode>>
    BY <1>17 DEF ReplayMarker, files, memory
  <2>2. lastIndexed \in 1..Len(journal)
    BY <1>c, <1>d, <2>1 DEF MarkerTxs
  <2>3. PICK i \in 1..Len(journal) :
          /\ journal[i].tx > lastIndexed
          /\ \A k \in 1..(i - 1) : journal[k].tx <= lastIndexed
          /\ ApplyCommit(journal[i])
    BY <1>17, <1>d, <2>1 DEF ReplayMarker
  <2>4. i = lastIndexed + 1
    <3>1. i > lastIndexed
      BY <1>d, <2>1, <2>3
    <3>2. i - 1 \in 1..(i - 1) /\ i - 1 \in 1..Len(journal)
      BY <1>c, <2>2, <3>1
    <3>3. i - 1 <= lastIndexed
      BY <1>d, <2>1, <2>3, <3>2
    <3> QED
      BY <1>c, <3>1, <3>3
  <2>5. /\ lastIndexed' = lastIndexed + 1
        /\ applied' = Append(applied, journal[lastIndexed + 1].op)
    BY <1>d, <2>1, <2>3, <2>4 DEF ApplyCommit
  <2>6. journal[lastIndexed + 1].op \in Nat
    <3>1. journal[lastIndexed + 1] \in Marker
      BY <1>c, <2>3, <2>4
    <3> QED
      BY <3>1 DEF Marker
  <2>7. /\ Len(applied) = lastIndexed
        /\ \A k \in 1..lastIndexed : applied[k] = journal[k].op
    BY <2>2 DEF ReplayInv
  <2>8. /\ Len(applied') = lastIndexed + 1
        /\ applied'[lastIndexed + 1] = journal[lastIndexed + 1].op
        /\ \A k \in 1..lastIndexed : applied'[k] = applied[k]
    BY <1>c, <2>5, <2>6, <2>7
  <2> QED
    BY <1>c, <2>1, <2>5, <2>7, <2>8 DEF ReplayInv
<1>18. ASSUME Open PROVE ReplayInv'
  <2>1. /\ mode = "registry"
        /\ markers # <<>> => lastIndexed = headTx
        /\ UNCHANGED <<journal, journalSynced, applied, lastIndexed, headTx>>
    BY <1>18 DEF Open, files, reg, head
  <2> QED
    BY <1>d, <2>1 DEF ReplayInv
<1>19. CASE UNCHANGED vars
  BY <1>19, <1>c, SameReplay DEF vars, files, reg, memory
<1> QED
  BY <1>1, <1>2, <1>3, <1>4, <1>5, <1>6, <1>7, <1>8, <1>9, <1>10, <1>11, <1>12,
     <1>13, <1>14, <1>15, <1>16, <1>17, <1>18, <1>19
  DEF Next, Commit, Recover

\* When commits do not overlap and the store was initialised with a durable
\* commit, an open store's registry holds every mutation of the journal once
\* and in order, whatever fails or crashes.
THEOREM ReplayWhenSerial ==
    ASSUME Serial, 0 \notin InitSizes
    PROVE  Spec => []RegistryIsReplay
<1>1. Init => ChainInv /\ TypeOK /\ ReplayInv
  BY InitChain, InitTypeOK, InitReplay
<1>2. ChainInv /\ TypeOK /\ ReplayInv /\ [Next]_vars
         => ChainInv' /\ TypeOK' /\ ReplayInv'
  BY NextChain, NextTypeOK, NextReplay
<1>3. ChainInv /\ ReplayInv => RegistryIsReplay
  BY DEF ChainInv, HeadIsLast, ReplayInv, RegistryIsReplay, Pending
<1> QED
  BY <1>1, <1>2, <1>3, PTL DEF Spec



-----------------------------------------------------------------------------
(* The inductive invariants of durability. *)

\* The commits of the journal were issued in its order, and the one under way
\* after all of them.
OpsIncrease ==
    /\ \A k \in 1..Len(journal) : journal[k].op \in 1..issued
    /\ \A i, k \in 1..Len(journal) : i < k => journal[i].op < journal[k].op
    /\ \A c \in Callers : pc[c] # "idle" /\ ~Pending(c) =>
          /\ ctx[c].op \in 1..issued
          /\ \A k \in 1..Len(journal) : journal[k].op < ctx[c].op

\* Line number r.line of its lane is a line of commit op.
Holds(r, op) == r.line \in 1..Len(lane[r.lane]) /\ lane[r.lane][r.line] = op

\* Every journaled record is in the synced part of its lane.
JournaledInLanes ==
    \A k \in 1..Len(journal) : \A r \in journal[k].records :
        Holds(r, journal[k].op) /\ r.line <= laneSynced[r.lane]

\* The records of the commit under way are in the lanes, and synced before a
\* marker names them.
ContextInLanes ==
    \A c \in Callers : pc[c] # "idle" /\ ~Pending(c) =>
        /\ \A r \in ctx[c].records : Holds(r, ctx[c].op)
        /\ pc[c] \in {"compose", "check", "write"} =>
              \A r \in ctx[c].records : r.line <= laneSynced[r.lane]
        /\ pc[c] \in {"check", "write"} => /\ ctx[c].marker.records = ctx[c].records
                                           /\ ctx[c].marker.op = ctx[c].op

\* The writers know where the lane files end.
OffsetsAreEnds ==
    mode = "open" =>
        /\ \A l \in Lanes : offset[l] = Len(lane[l])
        /\ \A c \in Callers : pc[c] = "append" => ctx[c].at = offset[Head(ctx[c].todo)]

LaneInv ==
    /\ OpsIncrease
    /\ JournaledInLanes
    /\ ContextInLanes
    /\ OffsetsAreEnds

\* Answers are given after the fsync of the journal.
AckInv ==
    /\ \A c \in Callers : pc[c] = "finish" => journalSynced = Len(journal)
    /\ \A m \in acked : m.tx \in 1..journalSynced /\ journal[m.tx] = m
    /\ mode # "down" => \A m \in acked : m.tx <= headTx

\* The index holds the records of the journal up to the head.
IndexInv ==
    mode = "open" =>
        /\ \A r \in index : \E k \in 1..headTx : r \in journal[k].records
        /\ \A k \in 1..headTx : journal[k].records \subseteq index

-----------------------------------------------------------------------------
(* Lemmas about the lanes. *)

\* Records of a typed store name lanes.
LEMMA RecordsTyped ==
    ASSUME TypeOK
    PROVE  /\ \A k \in 1..Len(journal) :
                 /\ journal[k].op \in Nat
                 /\ \A r \in journal[k].records : r.lane \in Lanes /\ r.line \in Nat
           /\ \A c \in Callers : \A r \in ctx[c].records :
                 r.lane \in Lanes /\ r.line \in Nat
<1>1. \A k \in 1..Len(journal) : journal[k] \in Marker
  BY DEF TypeOK, FilesTypeOK
<1>2. \A c \in Callers : ctx[c].records \in SUBSET Locator
  BY DEF TypeOK, CallersTypeOK, Context
<1> QED
  BY <1>1, <1>2 DEF Marker, Locator

\* Recovery finds nothing wrong with the lanes.
LEMMA LanesSound ==
    ASSUME TypeOK, OpsIncrease, JournaledInLanes
    PROVE  ~Conflicting(journal) /\ \A l \in Lanes : ~Damaged(journal, l)
<1>1. \A l \in Lanes : Len(lane[l]) \in Nat
  BY DEF TypeOK, FilesTypeOK
<1>2. \A l \in Lanes : ~Damaged(journal, l)
  BY <1>1, RecordsTyped DEF Damaged, JournaledInLanes, Holds
<1>3. ASSUME NEW i \in 1..Len(journal), NEW k \in 1..Len(journal), i < k,
             NEW r, r \in journal[i].records, r \in journal[k].records
      PROVE  FALSE
  <2>1. journal[i].op = journal[k].op
    BY <1>3 DEF JournaledInLanes, Holds
  <2>2. journal[i].op < journal[k].op
    BY <1>3 DEF OpsIncrease
  <2> QED
    BY <2>1, <2>2, RecordsTyped
<1>4. ~Conflicting(journal)
  BY <1>3 DEF Conflicting
<1> QED
  BY <1>2, <1>4

\* A step of a commit that leaves the journal and the lanes alone.
LEMMA QuietLaneStep ==
    ASSUME TypeOK, ChainInv, LaneInv, NEW c \in Callers, NEW from, NEW to, NEW new,
           Step(c, from, to, new),
           UNCHANGED <<journal, lane, laneSynced, offset, mode>>,
           issued' \in Nat, issued' >= issued,
           from = "idle" => \A d \in Callers : pc[d] = "idle",
           to \notin {"idle", "fsync", "finish"} =>
              /\ new.op \in 1..issued'
              /\ \A k \in 1..Len(journal) : journal[k].op < new.op
              /\ \A r \in new.records : Holds(r, new.op),
           to \in {"compose", "check", "write"} =>
              \A r \in new.records : r.line <= laneSynced[r.lane],
           to \in {"check", "write"} =>
              new.marker.records = new.records /\ new.marker.op = new.op,
           to = "append" => new.at = offset[Head(new.todo)]
    PROVE  LaneInv'
<1>1. /\ \A d \in Callers : d # c => pc[d] = "idle" /\ pc'[d] = "idle"
      /\ pc'[c] = to /\ ctx'[c] = new /\ mode = "open"
  BY DEF TypeOK, CallersTypeOK, ChainInv, OneCommit, Step, Running
<1>2. issued \in Nat
  BY BoundsAssumption DEF TypeOK
<1>3. OpsIncrease'
  <2>1. \A k \in 1..Len(journal) : journal[k].op \in 1..issued'
    BY <1>2, RecordsTyped DEF LaneInv, OpsIncrease
  <2>2. \A d \in Callers : pc'[d] # "idle" /\ ~Pending(d)' =>
          /\ ctx'[d].op \in 1..issued'
          /\ \A k \in 1..Len(journal) : journal[k].op < ctx'[d].op
    BY <1>1 DEF Pending
  <2> QED
    BY <2>1, <2>2 DEF LaneInv, OpsIncrease
<1>4. JournaledInLanes'
  BY DEF LaneInv, JournaledInLanes, Holds
<1>5. ContextInLanes'
  BY <1>1 DEF ContextInLanes, Pending, Holds
<1>6. OffsetsAreEnds'
  BY <1>1 DEF LaneInv, OffsetsAreEnds
<1> QED
  BY <1>3, <1>4, <1>5, <1>6 DEF LaneInv

\* The step that writes the line of a commit.
LEMMA LineLaneStep ==
    ASSUME TypeOK, ChainInv, LaneInv, NEW c \in Callers, NEW from, NEW new,
           NEW m \in Marker,
           Step(c, from, "fsync", new),
           journal' = Append(journal, m),
           UNCHANGED <<lane, laneSynced, offset, mode>>,
           issued' \in Nat, issued' >= issued,
           from = "idle" => \A d \in Callers : pc[d] = "idle",
           m.op \in 1..issued',
           \A k \in 1..Len(journal) : journal[k].op < m.op,
           \A r \in m.records : Holds(r, m.op) /\ r.line <= laneSynced[r.lane]
    PROVE  LaneInv'
<1>1. /\ \A d \in Callers : d # c => pc[d] = "idle" /\ pc'[d] = "idle"
      /\ pc'[c] = "fsync" /\ mode = "open"
  BY DEF TypeOK, CallersTypeOK, ChainInv, OneCommit, Step, Running
<1>2. issued \in Nat
  BY BoundsAssumption DEF TypeOK
<1>3. /\ Len(journal') = Len(journal) + 1 /\ Len(journal) \in Nat
      /\ journal'[Len(journal) + 1] = m
      /\ \A k \in 1..Len(journal) : journal'[k] = journal[k]
  BY DEF TypeOK, FilesTypeOK
<1>4. \A d \in Callers : pc'[d] = "idle" \/ Pending(d)'
  BY <1>1 DEF Pending
<1>5. OpsIncrease'
  <2>1. \A k \in 1..Len(journal') : journal'[k].op \in 1..issued'
    BY <1>2, <1>3, RecordsTyped DEF LaneInv, OpsIncrease
  <2>2. \A i, k \in 1..Len(journal') : i < k => journal'[i].op < journal'[k].op
    BY <1>3 DEF LaneInv, OpsIncrease
  <2> QED
    BY <1>4, <2>1, <2>2 DEF OpsIncrease
<1>6. JournaledInLanes'
  BY <1>3 DEF LaneInv, JournaledInLanes, Holds
<1>7. ContextInLanes'
  BY <1>4 DEF ContextInLanes
<1>8. OffsetsAreEnds'
  BY <1>1 DEF LaneInv, OffsetsAreEnds
<1> QED
  BY <1>5, <1>6, <1>7, <1>8 DEF LaneInv

\* With no commit under way only the journal and the lanes matter.
LEMMA IdleLanes ==
    ASSUME LaneInv, \A c \in Callers : pc'[c] = "idle",
           NEW n \in Nat, n <= Len(journal), Len(journal') = n, Len(journal) \in Nat,
           \A k \in 1..n : journal'[k] = journal[k],
           issued' = issued,
           JournaledInLanes',
           mode' = "open" => \A l \in Lanes : offset'[l] = Len(lane'[l])
    PROVE  LaneInv'
<1>1. OpsIncrease'
  BY DEF LaneInv, OpsIncrease
<1>2. ContextInLanes' /\ OffsetsAreEnds'
  BY DEF ContextInLanes, OffsetsAreEnds
<1> QED
  BY <1>1, <1>2 DEF LaneInv

-----------------------------------------------------------------------------
(* The lanes hold what the journal names. *)

LEMMA InitLanes == Init => LaneInv /\ ~readOnly
<1> SUFFICES ASSUME Init PROVE LaneInv /\ ~readOnly
  OBVIOUS
<1> USE BoundsAssumption
<1>1. PICK n \in InitSizes : ClosedStore(n)
  BY DEF Init
<1>2. mode = "down" /\ \A c \in Callers : pc[c] = "idle"
  BY DEF Init
<1>3. OpsIncrease
  <2>1. /\ n \in Nat /\ issued = n /\ Len(journal) = n
        /\ \A k \in 1..n : journal[k].op = k
    BY <1>1 DEF ClosedStore
  <2> QED
    BY <1>2, <2>1 DEF OpsIncrease
<1>4. JournaledInLanes
  BY <1>1 DEF JournaledInLanes, ClosedStore
<1>5. ContextInLanes /\ OffsetsAreEnds
  BY <1>2 DEF ContextInLanes, OffsetsAreEnds
<1>6. ~readOnly
  BY DEF Init
<1> QED
  BY <1>3, <1>4, <1>5, <1>6 DEF LaneInv

LEMMA NextLanes ==
    ASSUME Serial, TypeOK, ChainInv, LaneInv, ~readOnly, [Next]_vars
    PROVE  LaneInv'
<1>a. /\ FilesTypeOK /\ MemoryTypeOK /\ CallersTypeOK /\ issued \in Nat
      /\ OneCommit /\ OpsIncrease /\ JournaledInLanes /\ ContextInLanes
      /\ OffsetsAreEnds /\ MarkersAreJournal
  BY BoundsAssumption DEF TypeOK, ChainInv, LaneInv
<1>b. \A c \in Callers : /\ ctx[c] \in Context
                         /\ ctx[c].op \in Nat
                         /\ ctx[c].todo \in Seq(Lanes)
                         /\ ctx[c].records \in SUBSET Locator
                         /\ ctx[c].marker \in Marker
  BY <1>a DEF CallersTypeOK, Context
<1>c. \A c \in Callers : MayCommit(c) => \A d \in Callers : pc[d] = "idle"
  BY DEF MayCommit
<1>d. \A c \in Callers : pc[c] \in {"lane", "append", "compose", "check", "write"} =>
          /\ ctx[c].op \in 1..issued
          /\ \A k \in 1..Len(journal) : journal[k].op < ctx[c].op
          /\ \A r \in ctx[c].records : Holds(r, ctx[c].op)
  BY <1>a DEF OpsIncrease, ContextInLanes, Pending
<1>e. \A k \in 1..Len(journal) : journal[k].op \in 1..issued /\ journal[k].op < issued + 1
  BY <1>a DEF OpsIncrease
<1>f. \A l \in Lanes : /\ lane[l] \in Seq(Nat) /\ laneSynced[l] \in Nat
                       /\ laneSynced[l] <= Len(lane[l]) /\ Len(lane[l]) \in Nat
  BY <1>a DEF FilesTypeOK
<1>g. Len(journal) \in Nat
  BY <1>a DEF FilesTypeOK
<1>1. ASSUME NEW c \in Callers, NEW b \in Batches, Begin(c, b) PROVE LaneInv'
  <2> DEFINE new == [NoCommit EXCEPT !.op = issued + 1, !.todo = b]
  <2>1. new.op = issued + 1 /\ new.records = {}
    BY DEF NoCommit
  <2>2. /\ Step(c, "idle", "lane", new) /\ issued' = issued + 1 /\ MayCommit(c)
        /\ UNCHANGED <<journal, lane, laneSynced, offset, mode>>
    BY <1>1 DEF Begin, files, memory
  <2> HIDE DEF new
  <2> QED
    BY <1>a, <1>c, <1>e, <2>1, <2>2, QuietLaneStep
<1>2. ASSUME NEW c \in Callers, AppendStart(c) PROVE LaneInv'
  <2> DEFINE new == [ctx[c] EXCEPT !.at = offset[Head(ctx[c].todo)]]
  <2>1. /\ new.op = ctx[c].op /\ new.records = ctx[c].records
        /\ new.at = offset[Head(new.todo)]
    BY <1>b DEF Context
  <2>2. /\ Step(c, "lane", "append", new) /\ issued' = issued
        /\ UNCHANGED <<journal, lane, laneSynced, offset, mode>>
    BY <1>2 DEF AppendStart, files, memory
  <2>3. pc[c] = "lane"
    BY <2>2 DEF Step
  <2> HIDE DEF new
  <2> QED
    BY <1>a, <1>d, <2>1, <2>2, <2>3, QuietLaneStep
<1>3. ASSUME NEW c \in Callers, AppendDone(c) PROVE LaneInv'
  <2> DEFINE l == Head(ctx[c].todo)
             r0 == [lane |-> l, line |-> ctx[c].at + 1]
             new == [ctx[c] EXCEPT !.todo = Tail(@),
                        !.records = @ \cup {r0}]
  <2>1. /\ Step(c, "append", "lane", new)
        /\ lane' = [lane EXCEPT ![l] = Append(@, ctx[c].op)]
        /\ offset' = [offset EXCEPT ![l] = @ + 1]
        /\ UNCHANGED <<journal, laneSynced, mode, issued>>
    BY <1>3 DEF AppendDone
  <2>2. new.op = ctx[c].op /\ new.records = ctx[c].records \cup {r0}
    BY <1>b DEF Context
  <2> HIDE DEF new
  <2>3. /\ \A d \in Callers : d # c => pc[d] = "idle" /\ pc'[d] = "idle"
        /\ pc[c] = "append" /\ pc'[c] = "lane" /\ ctx'[c] = new /\ mode = "open"
    BY <1>a, <2>1 DEF CallersTypeOK, OneCommit, Step, Running
  <2>4. ctx[c].todo # <<>> /\ l \in Lanes
    BY <1>a, <1>b, <2>3 DEF CallersTypeOK
  <2>5. ctx[c].at = Len(lane[l])
    BY <1>a, <2>3, <2>4 DEF OffsetsAreEnds
  <2> HIDE DEF l
  <2>6. /\ lane'[l] = Append(lane[l], ctx[c].op)
        /\ \A k \in Lanes : k # l => lane'[k] = lane[k]
    BY <1>a, <2>1, <2>4 DEF FilesTypeOK
  <2>7. /\ Len(lane'[l]) = Len(lane[l]) + 1
        /\ lane'[l][Len(lane[l]) + 1] = ctx[c].op
        /\ \A k \in 1..Len(lane[l]) : lane'[l][k] = lane[l][k]
    BY <1>b, <1>f, <2>4, <2>6
  <2>8. \A r : \A op : r.lane \in Lanes /\ Holds(r, op) =>
           r.line \in 1..Len(lane'[r.lane]) /\ lane'[r.lane][r.line] = op
    <3> SUFFICES ASSUME NEW r, NEW op, r.lane \in Lanes, Holds(r, op)
                 PROVE  r.line \in 1..Len(lane'[r.lane]) /\ lane'[r.lane][r.line] = op
      OBVIOUS
    <3>1. CASE r.lane = l
      BY <1>f, <2>4, <2>7, <3>1 DEF Holds
    <3>2. CASE r.lane # l
      BY <2>6, <3>2 DEF Holds
    <3> QED
      BY <3>1, <3>2
  <2>9. r0.lane = l /\ r0.line \in 1..Len(lane'[l]) /\ lane'[l][r0.line] = ctx[c].op
    BY <1>f, <2>4, <2>5, <2>7
  <2>10. OpsIncrease'
    BY <1>a, <1>d, <2>1, <2>2, <2>3 DEF OpsIncrease, Pending
  <2>11. JournaledInLanes'
    <3>1. \A k \in 1..Len(journal) : \A r \in journal[k].records :
             /\ r.line \in 1..Len(lane'[r.lane]) /\ lane'[r.lane][r.line] = journal[k].op
             /\ r.line <= laneSynced[r.lane]
      BY <1>a, <2>8, RecordsTyped DEF JournaledInLanes
    <3> QED
      BY <2>1, <3>1 DEF JournaledInLanes, Holds
  <2>12. ContextInLanes'
    <3>1. \A r \in ctx[c].records :
             r.line \in 1..Len(lane'[r.lane]) /\ lane'[r.lane][r.line] = ctx[c].op
      BY <1>d, <2>3, <2>8, RecordsTyped
    <3> HIDE DEF r0
    <3>2. \A r \in new.records :
             r.line \in 1..Len(lane'[r.lane]) /\ lane'[r.lane][r.line] = new.op
      BY <2>2, <2>9, <3>1
    <3> QED
      BY <2>3, <3>2 DEF ContextInLanes, Pending, Holds
  <2>13. OffsetsAreEnds'
    <3>1. \A k \in Lanes : offset'[k] = Len(lane'[k])
      BY <1>a, <2>1, <2>3, <2>4, <2>6, <2>7 DEF OffsetsAreEnds, MemoryTypeOK
    <3> QED
      BY <2>3, <3>1 DEF OffsetsAreEnds
  <2> QED
    BY <2>10, <2>11, <2>12, <2>13 DEF LaneInv
<1>4. ASSUME NEW c \in Callers, FsyncLanes(c) PROVE LaneInv'
  <2>1. /\ Step(c, "lane", "compose", ctx[c])
        /\ laneSynced' = [l \in Lanes |-> IF \E r \in ctx[c].records : r.lane = l
                                          THEN Len(lane[l]) ELSE laneSynced[l]]
        /\ UNCHANGED <<journal, lane, offset, mode, issued>>
    BY <1>4 DEF FsyncLanes, memory
  <2>2. /\ \A d \in Callers : d # c => pc[d] = "idle" /\ pc'[d] = "idle"
        /\ pc[c] = "lane" /\ pc'[c] = "compose" /\ ctx'[c] = ctx[c] /\ mode = "open"
    BY <1>a, <2>1 DEF CallersTypeOK, OneCommit, Step, Running
  <2>3. \A l \in Lanes : laneSynced[l] <= laneSynced'[l] /\ laneSynced'[l] \in Nat
    BY <1>f, <2>1
  <2>4. OpsIncrease'
    BY <1>a, <1>d, <2>1, <2>2 DEF OpsIncrease, Pending
  <2>5. JournaledInLanes'
    <3> SUFFICES ASSUME NEW k \in 1..Len(journal), NEW r \in journal[k].records
                 PROVE  Holds(r, journal[k].op)' /\ r.line <= laneSynced'[r.lane]
      BY <2>1 DEF JournaledInLanes, Holds
    <3>1. r.lane \in Lanes /\ r.line \in Nat
      BY RecordsTyped
    <3>2. r.line <= laneSynced[r.lane] /\ Holds(r, journal[k].op)
      BY <1>a DEF JournaledInLanes
    <3> QED
      BY <1>f, <2>1, <2>3, <3>1, <3>2 DEF Holds
  <2>6. ContextInLanes'
    <3>1. \A r \in ctx[c].records : r.lane \in Lanes /\ Holds(r, ctx[c].op)
      BY <1>d, <2>2, RecordsTyped
    <3>2. \A r \in ctx[c].records : r.line <= laneSynced'[r.lane]
      BY <1>f, <2>1, <3>1 DEF Holds
    <3> QED
      BY <2>1, <2>2, <3>1, <3>2 DEF ContextInLanes, Pending, Holds
  <2>7. OffsetsAreEnds'
    BY <1>a, <2>1, <2>2 DEF OffsetsAreEnds
  <2> QED
    BY <2>4, <2>5, <2>6, <2>7 DEF LaneInv
<1>5. ASSUME NEW c \in Callers, Compose(c) PROVE LaneInv'
  <2> DEFINE m == NextMarker(ctx[c].op, ctx[c].records)
             new == [ctx[c] EXCEPT !.marker = m]
  <2>1. /\ Step(c, "compose", "check", new) /\ issued' = issued
        /\ UNCHANGED <<journal, lane, laneSynced, offset, mode>>
    BY <1>5 DEF Compose, files, memory
  <2>2. m.op = ctx[c].op /\ m.records = ctx[c].records
    BY DEF NextMarker
  <2>3. new.op = ctx[c].op /\ new.records = ctx[c].records /\ new.marker = m
    BY <1>b DEF Context
  <2>4. pc[c] = "compose"
    BY <2>1 DEF Step
  <2>5. \A r \in ctx[c].records : r.line <= laneSynced[r.lane]
    BY <1>a, <2>4 DEF ContextInLanes, Pending
  <2> HIDE DEF new, m
  <2> QED
    BY <1>a, <1>d, <2>1, <2>2, <2>3, <2>4, <2>5, QuietLaneStep
<1>6. ASSUME NEW c \in Callers, Check(c) PROVE LaneInv'
  <2>1. issued' = issued /\ UNCHANGED <<journal, lane, laneSynced, offset, mode>>
    BY <1>6 DEF Check, files, memory
  <2>2. CASE ExtendsHead(ctx[c].marker)
    <3>1. Step(c, "check", "write", ctx[c])
      BY <1>6, <2>2 DEF Check
    <3>2. pc[c] = "check"
      BY <3>1 DEF Step
    <3>3. /\ \A r \in ctx[c].records : r.line <= laneSynced[r.lane]
          /\ ctx[c].marker.records = ctx[c].records /\ ctx[c].marker.op = ctx[c].op
      BY <1>a, <3>2 DEF ContextInLanes, Pending
    <3> QED
      BY <1>a, <1>d, <2>1, <3>1, <3>2, <3>3, QuietLaneStep
  <2>3. CASE ~ExtendsHead(ctx[c].marker)
    <3>1. Step(c, "check", "idle", NoCommit)
      BY <1>6, <2>3 DEF Check
    <3> QED
      BY <1>a, <2>1, <3>1, QuietLaneStep
  <2> QED
    BY <2>2, <2>3
<1>7. ASSUME NEW c \in Callers, Write(c) PROVE LaneInv'
  <2> DEFINE new == ctx[c]
             m   == new.marker
  <2>1. /\ Step(c, "write", "fsync", new)
        /\ journal' = Append(journal, Written(m))
        /\ UNCHANGED <<lane, laneSynced, offset, mode>> /\ issued' = issued
    BY <1>7 DEF Write, memory
  <2>2. pc[c] = "write" /\ mode = "open"
    BY <2>1 DEF Step, Running
  <2>3. journal' = Append(journal, m)
    BY <2>1, <2>2 DEF ChainInv, TornOnlyDown, Written
  <2>4. /\ \A r \in new.records : r.line <= laneSynced[r.lane] /\ Holds(r, new.op)
        /\ m.records = new.records /\ m.op = new.op
    BY <1>a, <1>d, <2>2 DEF ContextInLanes, Pending
  <2>5. /\ m.op \in 1..issued'
        /\ \A k \in 1..Len(journal) : journal[k].op < m.op
        /\ \A r \in m.records : Holds(r, m.op) /\ r.line <= laneSynced[r.lane]
    BY <1>d, <2>1, <2>2, <2>4
  <2>6. m \in Marker /\ issued' \in Nat /\ issued' >= issued
    BY <1>a, <1>b, <2>1
  <2>7. "write" # "idle"
    OBVIOUS
  <2> HIDE DEF m, new
  <2> QED
    BY <2>1, <2>3, <2>5, <2>6, <2>7, LineLaneStep, Zenon
<1>8. ASSUME NEW c \in Callers, CommitSync(c) PROVE LaneInv'
  <2> DEFINE m == NextMarker(issued + 1, {})
             new == [NoCommit EXCEPT !.op = issued + 1, !.marker = m, !.kind = "sync"]
  <2>1. /\ Step(c, "idle", "fsync", new) /\ MayCommit(c)
        /\ journal' = Append(journal, Written(m))
        /\ UNCHANGED <<lane, laneSynced, offset, mode>> /\ issued' = issued + 1
    BY <1>8 DEF CommitSync, memory
  <2>2. m \in Marker
    BY <1>a, NextMarkerType
  <2>3. m.op = issued + 1 /\ m.records = {}
    BY DEF NextMarker
  <2> HIDE DEF m
  <2>4. mode = "open"
    BY <2>1 DEF Step, Running
  <2>5. journal' = Append(journal, m)
    BY <2>1, <2>4 DEF ChainInv, TornOnlyDown, Written
  <2>6. /\ m.op \in 1..issued' /\ issued' \in Nat /\ issued' >= issued
        /\ \A k \in 1..Len(journal) : journal[k].op < m.op
    BY <1>a, <1>e, <2>1, <2>3
  <2>7. \A r \in m.records : Holds(r, m.op) /\ r.line <= laneSynced[r.lane]
    BY <2>3
  <2> HIDE DEF new
  <2> QED
    BY <1>c, <2>1, <2>2, <2>5, <2>6, <2>7, LineLaneStep
<1>9. ASSUME NEW c \in Callers, FsyncJournal(c) PROVE LaneInv'
  <2>1. /\ Step(c, "fsync", "finish", ctx[c]) /\ issued' = issued
        /\ UNCHANGED <<journal, lane, laneSynced, offset, mode>>
    BY <1>9 DEF FsyncJournal, memory
  <2> QED
    BY <1>a, <2>1, QuietLaneStep
<1>10. ASSUME NEW c \in Callers, Finish(c) PROVE LaneInv'
  <2>1. /\ Step(c, "finish", "idle", NoCommit) /\ issued' = issued
        /\ UNCHANGED <<journal, lane, laneSynced, offset, mode>>
    BY <1>10 DEF Finish, files
  <2> QED
    BY <1>a, <2>1, QuietLaneStep
<1>11. ASSUME NEW c \in Callers, Fail(c) PROVE LaneInv'
  <2>1. /\ Step(c, pc[c], "idle", NoCommit) /\ issued' = issued
        /\ pc[c] \in {"lane", "append", "write"}
        /\ UNCHANGED <<journal, lane, laneSynced, offset, mode>>
    BY <1>11 DEF Fail, files, memory
  <2> QED
    BY <1>a, <2>1, QuietLaneStep
<1>12. ASSUME ProcessCrash PROVE LaneInv'
  <2>1. /\ mode' = "down" /\ (\A c \in Callers : pc'[c] = "idle") /\ issued' = issued
        /\ UNCHANGED <<journal, lane, laneSynced>>
    BY <1>12 DEF ProcessCrash, Reset
  <2>2. JournaledInLanes'
    BY <1>a, <2>1 DEF JournaledInLanes, Holds
  <2> QED
    BY <1>g, <2>1, <2>2, IdleLanes
<1>13. ASSUME PowerLoss PROVE LaneInv'
  <2>1. PICK n \in journalSynced..Len(journal) : journal' = SubSeq(journal, 1, n)
    BY <1>13 DEF PowerLoss
  <2>2. PICK keep \in [Lanes -> 0..Longest] :
          /\ \A l \in Lanes : keep[l] \in laneSynced[l]..Len(lane[l])
          /\ lane' = [l \in Lanes |-> SubSeq(lane[l], 1, keep[l])]
          /\ laneSynced' = keep
    BY <1>13 DEF PowerLoss
  <2>3. /\ n \in Nat /\ n <= Len(journal) /\ Len(journal') = n
        /\ \A k \in 1..n : journal'[k] = journal[k]
    BY <1>a, <2>1 DEF FilesTypeOK
  <2>4. \A l \in Lanes : /\ Len(lane'[l]) = keep[l] /\ keep[l] \in Nat
                         /\ laneSynced[l] <= keep[l]
                         /\ \A i \in 1..keep[l] : lane'[l][i] = lane[l][i]
    BY <1>f, <2>2
  <2>5. JournaledInLanes'
    <3> SUFFICES ASSUME NEW k \in 1..n, NEW r \in journal[k].records
                 PROVE  Holds(r, journal[k].op)' /\ r.line <= laneSynced'[r.lane]
      BY <2>3 DEF JournaledInLanes, Holds
    <3>1. k \in 1..Len(journal)
      BY <1>g, <2>3
    <3>2. r.lane \in Lanes /\ r.line \in Nat
      BY <3>1, RecordsTyped
    <3>3. r.line <= laneSynced[r.lane] /\ Holds(r, journal[k].op)
      BY <1>a, <3>1 DEF JournaledInLanes
    <3>4. r.line \in 1..keep[r.lane]
      BY <1>f, <2>4, <3>2, <3>3 DEF Holds
    <3>5. Holds(r, journal[k].op)'
      BY <2>2, <2>3, <2>4, <3>2, <3>3, <3>4 DEF Holds
    <3>6. r.line <= laneSynced'[r.lane]
      BY <2>2, <2>4, <3>2, <3>4
    <3> QED
      BY <3>5, <3>6
  <2>6. mode' = "down" /\ (\A c \in Callers : pc'[c] = "idle") /\ issued' = issued
    BY <1>13 DEF PowerLoss, Reset
  <2> QED
    BY <1>g, <2>3, <2>5, <2>6, IdleLanes
<1>h. mode # "open" => \A c \in Callers : pc[c] = "idle"
  BY <1>a DEF OneCommit
<1>14. ASSUME RecoverJournal PROVE LaneInv'
  <2>1. /\ mode = "down" /\ mode' = "lanes"
        /\ UNCHANGED <<journal, lane, laneSynced, pc, issued>>
    BY <1>14 DEF RecoverJournal
  <2>2. JournaledInLanes'
    BY <1>a, <2>1 DEF JournaledInLanes, Holds
  <2> QED
    BY <1>g, <1>h, <2>1, <2>2, IdleLanes
<1>15. ASSUME RecoverLanes PROVE LaneInv'
  <2>1. /\ mode = "lanes" /\ mode' = "registry" /\ markers = journal
        /\ UNCHANGED <<journal, pc, issued>>
    BY <1>a, <1>15 DEF RecoverLanes, MarkersAreJournal
  <2>2. \A l \in Lanes : ~Damaged(markers, l)
    BY <1>a, <2>1, LanesSound
  <2>3. /\ lane' = [l \in Lanes |-> SubSeq(lane[l], 1, CommittedEnd(markers, l))]
        /\ laneSynced' = [l \in Lanes |-> CommittedEnd(markers, l)]
    BY <1>15, <2>2 DEF RecoverLanes
  <2>4. \A l \in Lanes :
          /\ CommittedEnd(markers, l) \in 0..Len(lane[l])
          /\ \A i \in 1..Len(markers) : \A r \in markers[i].records :
                r.lane = l => r.line <= CommittedEnd(markers, l)
    BY <2>2, CommittedEndBound
  <2> DEFINE end(l) == CommittedEnd(markers, l)
  <2>5. \A l \in Lanes : /\ Len(lane'[l]) = end(l) /\ laneSynced'[l] = end(l)
                         /\ end(l) \in Nat
                         /\ \A i \in 1..end(l) : lane'[l][i] = lane[l][i]
    BY <1>f, <2>3, <2>4
  <2>6. JournaledInLanes'
    <3> SUFFICES ASSUME NEW k \in 1..Len(journal), NEW r \in journal[k].records
                 PROVE  Holds(r, journal[k].op)' /\ r.line <= laneSynced'[r.lane]
      BY <2>1 DEF JournaledInLanes, Holds
    <3>1. r.lane \in Lanes /\ r.line \in Nat
      BY RecordsTyped
    <3>2. Holds(r, journal[k].op)
      BY <1>a DEF JournaledInLanes
    <3>3. r.line <= end(r.lane)
      BY <2>1, <2>4, <3>1
    <3> HIDE DEF end
    <3>4. r.line \in 1..end(r.lane)
      BY <1>f, <2>5, <3>1, <3>2, <3>3 DEF Holds
    <3> QED
      BY <2>1, <2>5, <3>1, <3>2, <3>3, <3>4 DEF Holds
  <2> QED
    BY <1>g, <1>h, <2>1, <2>6, IdleLanes
<1>16. ASSUME RebuildRegistry PROVE LaneInv'
  <2>1. mode = "registry" /\ UNCHANGED <<journal, lane, laneSynced, pc, issued, mode>>
    BY <1>16 DEF RebuildRegistry, files, memory
  <2>2. JournaledInLanes'
    BY <1>a, <2>1 DEF JournaledInLanes, Holds
  <2> QED
    BY <1>g, <1>h, <2>1, <2>2, IdleLanes
<1>17. ASSUME ReplayMarker PROVE LaneInv'
  <2>1. mode = "registry" /\ UNCHANGED <<journal, lane, laneSynced, pc, issued, mode>>
    BY <1>17 DEF ReplayMarker, files, memory
  <2>2. JournaledInLanes'
    BY <1>a, <2>1 DEF JournaledInLanes, Holds
  <2> QED
    BY <1>g, <1>h, <2>1, <2>2, IdleLanes
<1>18. ASSUME Open PROVE LaneInv'
  <2>1. /\ mode = "registry" /\ UNCHANGED <<journal, lane, laneSynced, pc, issued>>
        /\ \A l \in Lanes : offset'[l] = Len(lane'[l])
    BY <1>18 DEF Open, files
  <2>2. JournaledInLanes'
    BY <1>a, <2>1 DEF JournaledInLanes, Holds
  <2> QED
    BY <1>g, <1>h, <2>1, <2>2, IdleLanes
<1>19. CASE UNCHANGED vars
  BY <1>19
  DEF LaneInv, OpsIncrease, JournaledInLanes, ContextInLanes, OffsetsAreEnds, Holds,
      Pending, vars, files, memory
<1> QED
  BY <1>1, <1>2, <1>3, <1>4, <1>5, <1>6, <1>7, <1>8, <1>9, <1>10, <1>11, <1>12,
     <1>13, <1>14, <1>15, <1>16, <1>17, <1>18, <1>19
  DEF Next, Commit, Recover

-----------------------------------------------------------------------------
(* The store is never classified as corrupt. *)

LEMMA NextWritable ==
    ASSUME TypeOK, ChainInv, LaneInv, ~readOnly, [Next]_vars
    PROVE  ~readOnly'
<1>1. ASSUME RecoverJournal PROVE ~readOnly'
  <2>1. BadLines(journal) = {}
    BY ChainedVerifies DEF TypeOK, ChainInv
  <2> QED
    BY <1>1, <2>1 DEF RecoverJournal
<1>2. ASSUME RecoverLanes PROVE ~readOnly'
  <2>1. markers = journal
    BY <1>2 DEF RecoverLanes, ChainInv, MarkersAreJournal
  <2>2. ~Conflicting(markers) /\ \A l \in Lanes : ~Damaged(markers, l)
    BY <2>1, LanesSound DEF LaneInv
  <2> QED
    BY <1>2, <2>2 DEF RecoverLanes
<1>3. ASSUME NEW c \in Callers, Commit(c) PROVE ~readOnly'
  BY <1>3
  DEF Commit, Begin, AppendStart, AppendDone, FsyncLanes, Compose, Check, Write,
      CommitSync, FsyncJournal, Finish, Fail, memory
<1>4. ASSUME RebuildRegistry \/ ReplayMarker \/ Open PROVE ~readOnly'
  BY <1>4 DEF RebuildRegistry, ReplayMarker, Open, memory
<1>5. ASSUME ProcessCrash \/ PowerLoss PROVE ~readOnly'
  BY <1>5 DEF ProcessCrash, PowerLoss, Reset
<1>6. CASE UNCHANGED vars
  BY <1>6 DEF vars, memory
<1> QED
  BY <1>1, <1>2, <1>3, <1>4, <1>5, <1>6 DEF Next, Recover

\* When commits do not overlap, no sequence of commits, failed writes, process
\* crashes and power losses makes recoverStoreContext open the store read-only.
THEOREM WritableWhenSerial ==
    ASSUME Serial
    PROVE  Spec => []NeverReadOnly
<1>1. Init => ChainInv /\ TypeOK /\ LaneInv /\ ~readOnly
  BY InitChain, InitTypeOK, InitLanes
<1>2. ChainInv /\ TypeOK /\ LaneInv /\ ~readOnly /\ [Next]_vars
         => ChainInv' /\ TypeOK' /\ LaneInv' /\ ~readOnly'
  BY NextChain, NextTypeOK, NextLanes, NextWritable
<1> QED
  BY <1>1, <1>2, PTL DEF Spec, NeverReadOnly

-----------------------------------------------------------------------------
(* What a caller was told is durable. *)

\* Steps that keep the synced lines, the answers and the head.
LEMMA SameAck ==
    ASSUME TypeOK, AckInv, UNCHANGED acked,
           journalSynced' \in Nat, journalSynced' >= journalSynced,
           \A k \in 1..journalSynced : journal'[k] = journal[k],
           mode' # "down" => mode # "down" /\ headTx' = headTx,
           \A d \in Callers : pc'[d] = "finish" => journalSynced' = Len(journal')
    PROVE  AckInv'
<1>1. journalSynced \in Nat
  BY DEF TypeOK, FilesTypeOK
<1> QED
  BY <1>1 DEF AckInv

\* A step of a commit before its fsync of the journal, which may add a line.
LEMMA StepAck ==
    ASSUME TypeOK, ChainInv, AckInv, NEW c \in Callers, NEW from, NEW to, NEW new,
           Step(c, from, to, new), to # "finish",
           UNCHANGED <<journalSynced, acked, headTx, mode>>,
           \A k \in 1..journalSynced : journal'[k] = journal[k],
           from = "idle" => \A d \in Callers : pc[d] = "idle"
    PROVE  AckInv'
<1>1. \A d \in Callers : pc'[d] # "finish"
  BY DEF TypeOK, CallersTypeOK, ChainInv, OneCommit, Step, Running
<1>2. journalSynced \in Nat
  BY DEF TypeOK, FilesTypeOK
<1> QED
  BY <1>1, <1>2, SameAck

LEMMA NextAck ==
    ASSUME Serial, TypeOK, ChainInv, AckInv, [Next]_vars
    PROVE  AckInv'
<1>a. /\ journal \in Seq(Marker) /\ journalSynced \in 0..Len(journal)
      /\ Len(journal) \in Nat /\ journalSynced \in Nat /\ headTx \in Nat
  BY DEF TypeOK, FilesTypeOK, MemoryTypeOK
<1>b. \A c \in Callers : MayCommit(c) => \A d \in Callers : pc[d] = "idle"
  BY DEF MayCommit
<1>c. \A c \in Callers : ctx[c].marker \in Marker
  BY DEF TypeOK, CallersTypeOK, Context
<1>d. ASSUME NEW m \in Marker, journal' = Append(journal, m)
      PROVE  \A k \in 1..journalSynced : journal'[k] = journal[k]
  BY <1>a, <1>d
<1>1. ASSUME NEW c \in Callers, NEW b \in Batches, Begin(c, b) PROVE AckInv'
  <2> DEFINE new == [NoCommit EXCEPT !.op = issued + 1, !.todo = b]
  <2>1. /\ Step(c, "idle", "lane", new) /\ MayCommit(c)
        /\ UNCHANGED <<journal, journalSynced, acked, headTx, mode>>
    BY <1>1 DEF Begin, files, memory
  <2> HIDE DEF new
  <2> QED
    BY <1>b, <2>1, StepAck
<1>2. ASSUME NEW c \in Callers, AppendStart(c) PROVE AckInv'
  <2> DEFINE new == [ctx[c] EXCEPT !.at = offset[Head(ctx[c].todo)]]
  <2>1. /\ Step(c, "lane", "append", new)
        /\ UNCHANGED <<journal, journalSynced, acked, headTx, mode>>
    BY <1>2 DEF AppendStart, files, memory
  <2> HIDE DEF new
  <2> QED
    BY <2>1, StepAck
<1>3. ASSUME NEW c \in Callers, AppendDone(c) PROVE AckInv'
  <2> DEFINE new == [ctx[c] EXCEPT !.todo = Tail(@),
                        !.records = @ \cup {[lane |-> Head(ctx[c].todo),
                                             line |-> ctx[c].at + 1]}]
  <2>1. /\ Step(c, "append", "lane", new)
        /\ UNCHANGED <<journal, journalSynced, acked, headTx, mode>>
    BY <1>3 DEF AppendDone, head
  <2> HIDE DEF new
  <2> QED
    BY <2>1, StepAck
<1>4. ASSUME NEW c \in Callers, FsyncLanes(c) PROVE AckInv'
  <2>1. /\ Step(c, "lane", "compose", ctx[c])
        /\ UNCHANGED <<journal, journalSynced, acked, headTx, mode>>
    BY <1>4 DEF FsyncLanes, memory
  <2> QED
    BY <2>1, StepAck
<1>5. ASSUME NEW c \in Callers, Compose(c) PROVE AckInv'
  <2> DEFINE new == [ctx[c] EXCEPT !.marker = NextMarker(ctx[c].op, ctx[c].records)]
  <2>1. /\ Step(c, "compose", "check", new)
        /\ UNCHANGED <<journal, journalSynced, acked, headTx, mode>>
    BY <1>5 DEF Compose, files, memory
  <2> HIDE DEF new
  <2> QED
    BY <2>1, StepAck
<1>6. ASSUME NEW c \in Callers, Check(c) PROVE AckInv'
  <2>1. UNCHANGED <<journal, journalSynced, acked, headTx, mode>>
    BY <1>6 DEF Check, files, memory
  <2>2. \/ Step(c, "check", "write", ctx[c])
        \/ Step(c, "check", "idle", NoCommit)
    BY <1>6 DEF Check
  <2> QED
    BY <2>1, <2>2, StepAck
<1>7. ASSUME NEW c \in Callers, Write(c) PROVE AckInv'
  <2>1. /\ Step(c, "write", "fsync", ctx[c])
        /\ journal' = Append(journal, Written(ctx[c].marker))
        /\ UNCHANGED <<journalSynced, acked, headTx, mode>>
    BY <1>7 DEF Write, memory
  <2>2. Written(ctx[c].marker) \in Marker
    BY <1>c DEF Written, Garbage, Marker
  <2>3. \A k \in 1..journalSynced : journal'[k] = journal[k]
    BY <1>d, <2>1, <2>2
  <2> QED
    BY <2>1, <2>3, StepAck
<1>8. ASSUME NEW c \in Callers, CommitSync(c) PROVE AckInv'
  <2> DEFINE m == NextMarker(issued + 1, {})
             new == [NoCommit EXCEPT !.op = issued + 1, !.marker = m, !.kind = "sync"]
  <2>1. /\ Step(c, "idle", "fsync", new) /\ MayCommit(c)
        /\ journal' = Append(journal, Written(m))
        /\ UNCHANGED <<journalSynced, acked, headTx, mode>>
    BY <1>8 DEF CommitSync, memory
  <2>2. m \in Marker
    BY NextMarkerType, BoundsAssumption DEF TypeOK
  <2> HIDE DEF m, new
  <2>3. Written(m) \in Marker
    BY <2>2 DEF Written, Garbage, Marker
  <2>4. \A k \in 1..journalSynced : journal'[k] = journal[k]
    BY <1>d, <2>1, <2>3
  <2> QED
    BY <1>b, <2>1, <2>4, StepAck
<1>9. ASSUME NEW c \in Callers, FsyncJournal(c) PROVE AckInv'
  <2>1. /\ journalSynced' = Len(journal) /\ UNCHANGED <<journal, acked, headTx, mode>>
    BY <1>9 DEF FsyncJournal, memory
  <2> QED
    BY <1>a, <2>1, SameAck
<1>10. ASSUME NEW c \in Callers, Finish(c) PROVE AckInv'
  <2> DEFINE m == ctx[c].marker
  <2>1. /\ Step(c, "finish", "idle", NoCommit)
        /\ headTx' = m.tx /\ acked' = acked \cup {m}
        /\ UNCHANGED <<journal, journalSynced, mode>>
    BY <1>10 DEF Finish, files
  <2>2. pc[c] = "finish" /\ mode = "open"
    BY <2>1 DEF Step, Running
  <2>3. Len(journal) = headTx + 1 /\ m = journal[headTx + 1]
    BY <2>2 DEF ChainInv, MarkerExtends, Pending
  <2>4. m.tx = headTx + 1
    BY <1>a, <2>3 DEF ChainInv, JournalChained
  <2>5. journalSynced = Len(journal)
    BY <2>2 DEF AckInv
  <2>6. m.tx \in 1..journalSynced' /\ journal'[m.tx] = m
    BY <1>a, <2>1, <2>3, <2>4, <2>5
  <2>7. \A x \in acked : x.tx \in 1..journalSynced' /\ journal'[x.tx] = x /\ x.tx <= headTx'
    BY <1>a, <2>1, <2>2, <2>4 DEF AckInv
  <2> HIDE DEF m
  <2> QED
    BY <1>a, <2>1, <2>5, <2>6, <2>7 DEF AckInv
<1>11. ASSUME NEW c \in Callers, Fail(c) PROVE AckInv'
  <2>1. /\ Step(c, pc[c], "idle", NoCommit) /\ pc[c] # "idle"
        /\ UNCHANGED <<journal, journalSynced, acked, headTx, mode>>
    BY <1>11 DEF Fail, files, memory
  <2> QED
    BY <2>1, StepAck
<1>12. ASSUME ProcessCrash PROVE AckInv'
  <2>1. /\ mode' = "down" /\ UNCHANGED <<journal, journalSynced, acked>>
        /\ \A c \in Callers : pc'[c] = "idle"
    BY <1>12 DEF ProcessCrash, Reset
  <2> QED
    BY <1>a, <2>1, SameAck
<1>13. ASSUME PowerLoss PROVE AckInv'
  <2>1. PICK n \in journalSynced..Len(journal) :
          journal' = SubSeq(journal, 1, n) /\ journalSynced' = n
    BY <1>13 DEF PowerLoss
  <2>2. n \in Nat /\ \A k \in 1..journalSynced : journal'[k] = journal[k]
    BY <1>a, <2>1
  <2>3. mode' = "down" /\ UNCHANGED acked /\ \A c \in Callers : pc'[c] = "idle"
    BY <1>13 DEF PowerLoss, Reset
  <2> QED
    BY <1>a, <2>1, <2>2, <2>3, SameAck
<1>14. ASSUME RecoverJournal PROVE AckInv'
  <2>1. /\ mode = "down" /\ UNCHANGED <<journal, acked, pc>>
        /\ journalSynced' = (IF journalTorn THEN Len(journal) ELSE journalSynced)
        /\ markers' = Verified(journal)
        /\ headTx' = IF markers' = <<>> THEN 0 ELSE markers'[Len(markers')].tx
    BY <1>14 DEF RecoverJournal
  <2>2. markers' = journal
    BY <2>1, ChainedVerifies DEF TypeOK, ChainInv
  <2>3. headTx' = Len(journal)
    BY <1>a, <2>1, <2>2 DEF ChainInv, JournalChained
  <2>4. journalSynced' \in Nat /\ journalSynced' >= journalSynced
    BY <1>a, <2>1
  <2>5. \A c \in Callers : pc'[c] = "idle"
    BY <2>1 DEF ChainInv, OneCommit
  <2> QED
    BY <1>a, <2>1, <2>3, <2>4, <2>5 DEF AckInv
<1>15. ASSUME RecoverLanes \/ RebuildRegistry \/ ReplayMarker \/ Open PROVE AckInv'
  <2>1. /\ UNCHANGED <<journal, journalSynced, acked, headTx, pc>>
        /\ mode \in {"lanes", "registry"}
    BY <1>15 DEF RecoverLanes, RebuildRegistry, ReplayMarker, Open, files, memory, head
  <2> QED
    BY <1>a, <2>1, SameAck DEF AckInv
<1>16. CASE UNCHANGED vars
  BY <1>16 DEF AckInv, vars, files, memory
<1> QED
  BY <1>1, <1>2, <1>3, <1>4, <1>5, <1>6, <1>7, <1>8, <1>9, <1>10, <1>11, <1>12,
     <1>13, <1>14, <1>15, <1>16
  DEF Next, Commit, Recover

\* When commits do not overlap, a commit whose promise resolved stays in the
\* synced journal at its tx, with its records in the synced lanes at the places
\* its caller was told, through every later failure, crash and recovery.
THEOREM DurableWhenSerial ==
    ASSUME Serial
    PROVE  Spec => []AckedDurable
<1>1. Init => ChainInv /\ TypeOK /\ LaneInv /\ ~readOnly /\ AckInv
  <2>1. Init => AckInv
    BY DEF Init, AckInv
  <2> QED
    BY <2>1, InitChain, InitTypeOK, InitLanes
<1>2. ChainInv /\ TypeOK /\ LaneInv /\ ~readOnly /\ AckInv /\ [Next]_vars
         => ChainInv' /\ TypeOK' /\ LaneInv' /\ ~readOnly' /\ AckInv'
  BY NextChain, NextTypeOK, NextLanes, NextWritable, NextAck
<1>3. TypeOK /\ LaneInv /\ AckInv => AckedDurable
  <2> SUFFICES ASSUME TypeOK, LaneInv, AckInv, NEW m \in acked
               PROVE  /\ m.tx <= journalSynced
                      /\ journal[m.tx] = m
                      /\ \A r \in m.records : /\ r.line <= laneSynced[r.lane]
                                              /\ lane[r.lane][r.line] = m.op
    BY DEF AckedDurable
  <2>1. /\ m.tx \in 1..journalSynced /\ journal[m.tx] = m
        /\ journalSynced \in 0..Len(journal)
    BY DEF AckInv, TypeOK, FilesTypeOK
  <2>2. m.tx \in 1..Len(journal)
    BY <2>1 DEF TypeOK, FilesTypeOK
  <2> QED
    BY <2>1, <2>2 DEF LaneInv, JournaledInLanes, Holds
<1> QED
  BY <1>1, <1>2, <1>3, PTL DEF Spec

-----------------------------------------------------------------------------
(* What the store serves is what was journaled. *)

\* Steps of an open store that keep the lines up to the head and the index.
LEMMA SameIndex ==
    ASSUME IndexInv, mode' = "open" => mode = "open", UNCHANGED <<headTx, index>>,
           \A k \in 1..headTx : journal'[k] = journal[k]
    PROVE  IndexInv'
  BY DEF IndexInv

LEMMA NextIndex ==
    ASSUME TypeOK, ChainInv, IndexInv, [Next]_vars
    PROVE  IndexInv'
<1>a. journal \in Seq(Marker) /\ Len(journal) \in Nat /\ headTx \in Nat
  BY DEF TypeOK, FilesTypeOK, MemoryTypeOK
<1>b. mode = "open" => headTx <= Len(journal)
  BY DEF ChainInv, HeadIsLast
<1>c. \A c \in Callers : ctx[c].marker \in Marker
  BY DEF TypeOK, CallersTypeOK, Context
<1>d. ASSUME NEW m \in Marker, mode = "open", journal' = Append(journal, m)
      PROVE  \A k \in 1..headTx : journal'[k] = journal[k]
  BY <1>a, <1>b, <1>d
<1>1. ASSUME NEW c \in Callers,
             \/ \E b \in Batches : Begin(c, b)
             \/ AppendStart(c) \/ AppendDone(c) \/ FsyncLanes(c) \/ Compose(c)
             \/ Check(c) \/ FsyncJournal(c) \/ Fail(c)
      PROVE  IndexInv'
  <2>1. UNCHANGED <<journal, headTx, index, mode>>
    BY <1>1
    DEF Begin, AppendStart, AppendDone, FsyncLanes, Compose, Check, FsyncJournal, Fail,
        files, memory, head
  <2> QED
    BY <2>1, SameIndex
<1>2. ASSUME NEW c \in Callers, Write(c) PROVE IndexInv'
  <2>1. /\ Step(c, "write", "fsync", ctx[c])
        /\ journal' = Append(journal, Written(ctx[c].marker))
        /\ UNCHANGED <<headTx, index, mode>>
    BY <1>2 DEF Write, memory
  <2>2. Written(ctx[c].marker) \in Marker
    BY <1>c DEF Written, Garbage, Marker
  <2>3. mode = "open"
    BY <2>1 DEF Step, Running
  <2> QED
    BY <1>d, <2>1, <2>2, <2>3, SameIndex
<1>3. ASSUME NEW c \in Callers, CommitSync(c) PROVE IndexInv'
  <2> DEFINE m == NextMarker(issued + 1, {})
  <2>1. /\ mode = "open" /\ journal' = Append(journal, Written(m))
        /\ UNCHANGED <<headTx, index, mode>>
    BY <1>3 DEF CommitSync, MayCommit, Running, memory
  <2>2. m \in Marker
    BY NextMarkerType, BoundsAssumption DEF TypeOK
  <2> HIDE DEF m
  <2>3. Written(m) \in Marker
    BY <2>2 DEF Written, Garbage, Marker
  <2> QED
    BY <1>d, <2>1, <2>3, SameIndex
<1>4. ASSUME NEW c \in Callers, Finish(c) PROVE IndexInv'
  <2> DEFINE m == ctx[c].marker
  <2>1. /\ pc[c] = "finish" /\ mode = "open"
        /\ headTx' = m.tx /\ index' = index \cup m.records
        /\ UNCHANGED <<journal, mode>>
    BY <1>4 DEF Finish, Step, Running, files
  <2>2. Len(journal) = headTx + 1 /\ m = journal[headTx + 1]
    BY <2>1 DEF ChainInv, MarkerExtends, Pending
  <2>3. m.tx = headTx + 1
    BY <1>a, <2>2 DEF ChainInv, JournalChained
  <2> HIDE DEF m
  <2>4. \A r \in index' : \E k \in 1..headTx' : r \in journal[k].records
    BY <1>a, <2>1, <2>2, <2>3 DEF IndexInv
  <2>5. \A k \in 1..headTx' : journal[k].records \subseteq index'
    BY <1>a, <2>1, <2>2, <2>3 DEF IndexInv
  <2> QED
    BY <2>1, <2>4, <2>5 DEF IndexInv
<1>5. ASSUME Open PROVE IndexInv'
  <2>1. /\ mode = "registry" /\ index' = RecordsOf(markers)
        /\ UNCHANGED <<journal, headTx>>
    BY <1>5 DEF Open, files, head
  <2>2. \A c \in Callers : ~Pending(c)
    BY <2>1 DEF ChainInv, OneCommit, Pending
  <2>3. markers = journal /\ headTx = Len(journal)
    BY <2>1, <2>2 DEF ChainInv, MarkersAreJournal, HeadIsLast
  <2> QED
    BY <2>1, <2>3 DEF IndexInv, RecordsOf
<1>6. ASSUME \/ RecoverJournal \/ RecoverLanes \/ RebuildRegistry \/ ReplayMarker
             \/ ProcessCrash \/ PowerLoss
      PROVE  IndexInv'
  <2>1. mode' # "open"
    BY <1>6
    DEF RecoverJournal, RecoverLanes, RebuildRegistry, ReplayMarker, ProcessCrash,
        PowerLoss, Reset, memory
  <2> QED
    BY <2>1 DEF IndexInv
<1>7. CASE UNCHANGED vars
  BY <1>7, SameIndex DEF vars, files, memory
<1> QED
  BY <1>1, <1>2, <1>3, <1>4, <1>5, <1>6, <1>7 DEF Next, Commit, Recover

\* When commits do not overlap, laneScan and readCursor serve only records of
\* journal lines, and the lane bytes they read are those of that commit: an
\* orphan left by a failed or crashed commit is never served.
THEOREM ServedWhenSerial ==
    ASSUME Serial
    PROVE  Spec => []ServedIsCommitted
<1>1. Init => ChainInv /\ TypeOK /\ LaneInv /\ ~readOnly /\ IndexInv
  <2>1. Init => IndexInv
    BY DEF Init, IndexInv
  <2> QED
    BY <2>1, InitChain, InitTypeOK, InitLanes
<1>2. ChainInv /\ TypeOK /\ LaneInv /\ ~readOnly /\ IndexInv /\ [Next]_vars
         => ChainInv' /\ TypeOK' /\ LaneInv' /\ ~readOnly' /\ IndexInv'
  BY NextChain, NextTypeOK, NextLanes, NextWritable, NextIndex
<1>3. ChainInv /\ TypeOK /\ LaneInv /\ IndexInv => ServedIsCommitted
  <2> SUFFICES ASSUME ChainInv, TypeOK, LaneInv, IndexInv, mode = "open",
                      NEW r \in index
               PROVE  \E k \in 1..Len(journal) :
                         /\ r \in journal[k].records
                         /\ r.line <= Len(lane[r.lane])
                         /\ lane[r.lane][r.line] = journal[k].op
    BY DEF ServedIsCommitted
  <2>1. PICK k \in 1..headTx : r \in journal[k].records
    BY DEF IndexInv
  <2>2. k \in 1..Len(journal)
    BY DEF ChainInv, HeadIsLast, TypeOK, FilesTypeOK, MemoryTypeOK
  <2>3. Holds(r, journal[k].op)
    BY <2>1, <2>2 DEF LaneInv, JournaledInLanes
  <2> QED
    BY <2>1, <2>2, <2>3 DEF Holds
<1> QED
  BY <1>1, <1>2, <1>3, PTL DEF Spec

\* When commits do not overlap and the store was initialised with a durable
\* commit, whatever a caller was told is readable in every open store: its
\* records are served and its mutation is in the registry at its tx.
THEOREM AckedServedWhenSerial ==
    ASSUME Serial, 0 \notin InitSizes
    PROVE  Spec => []AckedServed
<1> DEFINE Inv == ChainInv /\ TypeOK /\ ReplayInv /\ AckInv /\ IndexInv
<1>1. Init => Inv
  <2>1. Init => AckInv /\ IndexInv
    BY DEF Init, AckInv, IndexInv
  <2> QED
    BY <2>1, InitChain, InitTypeOK, InitReplay
<1>2. Inv /\ [Next]_vars => Inv'
  BY NextChain, NextTypeOK, NextReplay, NextAck, NextIndex
<1>3. Inv => AckedServed
  <2> SUFFICES ASSUME Inv, mode = "open", NEW m \in acked
               PROVE  /\ m.records \subseteq index
                      /\ m.tx <= Len(applied) /\ applied[m.tx] = m.op
    BY DEF AckedServed
  <2>1. /\ m.tx \in 1..journalSynced /\ journal[m.tx] = m /\ m.tx <= headTx
        /\ lastIndexed = headTx /\ headTx <= Len(journal) /\ headTx \in Nat
        /\ journalSynced \in Nat
    BY DEF AckInv, ReplayInv, ChainInv, HeadIsLast, TypeOK, MemoryTypeOK, FilesTypeOK
  <2>2. m.tx \in 1..headTx
    BY <2>1
  <2>3. Len(applied) = headTx /\ applied[m.tx] = journal[m.tx].op
    BY <2>1, <2>2 DEF ReplayInv
  <2> QED
    BY <2>1, <2>2, <2>3 DEF IndexInv
<1> QED
  BY <1>1, <1>2, <1>3, PTL DEF Spec


-----------------------------------------------------------------------------
(* The store implements CommitLog. *)

\* The log the store shows, and the answers it gave.
DurableLog == OpsOf(SubSeq(journal, 1, journalSynced))
Answers    == {[tx |-> m.tx, op |-> m.op] : m \in acked}

\* What the durable log holds, line by line.
LogLines ==
    /\ DurableLog \in Seq(Op)
    /\ Len(DurableLog) = journalSynced
    /\ journalSynced \in Nat
    /\ \A i \in 1..journalSynced : DurableLog[i] = journal[i].op
    /\ Log!Distinct(DurableLog)

LEMMA DurableLogLines == TypeOK /\ OpsIncrease => LogLines
<1> SUFFICES ASSUME TypeOK, OpsIncrease PROVE LogLines
  OBVIOUS
<1> DEFINE j == SubSeq(journal, 1, journalSynced)
<1>1. /\ journal \in Seq(Marker) /\ Len(journal) \in Nat
      /\ journalSynced \in Nat /\ journalSynced <= Len(journal)
      /\ issued \in Nat /\ issued <= MaxOps
  BY BoundsAssumption DEF TypeOK, FilesTypeOK
<1>2. Len(j) = journalSynced /\ \A i \in 1..journalSynced : j[i] = journal[i]
  BY <1>1
<1>3. DurableLog = [i \in 1..journalSynced |-> journal[i].op]
  BY <1>2 DEF DurableLog, OpsOf
<1>4. \A i \in 1..journalSynced : journal[i].op \in Op
  <2> SUFFICES ASSUME NEW i \in 1..journalSynced PROVE journal[i].op \in Op
    OBVIOUS
  <2>1. i \in 1..Len(journal) /\ MaxOps \in Nat
    BY <1>1, BoundsAssumption
  <2>2. journal[i].op \in 1..issued
    BY <2>1 DEF OpsIncrease
  <2> QED
    BY <1>1, <2>1, <2>2 DEF Op
<1>5. DurableLog \in Seq(Op) /\ Len(DurableLog) = journalSynced
  BY <1>1, <1>3, <1>4
<1>6. \A i \in 1..journalSynced : DurableLog[i] = journal[i].op
  BY <1>3
<1>7. Log!Distinct(DurableLog)
  <2> SUFFICES ASSUME NEW i \in 1..journalSynced, NEW k \in 1..journalSynced, i # k
               PROVE  journal[i].op # journal[k].op
    BY <1>5, <1>6 DEF Log!Distinct
  <2>1. i \in 1..Len(journal) /\ k \in 1..Len(journal)
    BY <1>1
  <2>2. journal[i].op \in Nat /\ journal[k].op \in Nat
    BY <1>1, <2>1 DEF OpsIncrease
  <2>3. i < k \/ k < i
    OBVIOUS
  <2> QED
    BY <2>1, <2>2, <2>3 DEF OpsIncrease
<1> QED
  BY <1>1, <1>5, <1>6, <1>7 DEF LogLines

\* The steps that move the synced end of the journal forward, or leave it.
KeepsLines ==
    /\ acked' = acked
    /\ journalSynced' \in Nat
    /\ journalSynced' >= journalSynced
    /\ \A k \in 1..journalSynced : journal'[k] = journal[k]

\* Only the end of a commit gives an answer; no step takes a line back.
LEMMA StepKeepsLines ==
    ASSUME TypeOK, [Next]_vars
    PROVE  KeepsLines \/ \E c \in Callers : Finish(c)
<1>a. /\ journal \in Seq(Marker) /\ journalSynced \in 0..Len(journal)
      /\ Len(journal) \in Nat /\ journalSynced \in Nat
  BY DEF TypeOK, FilesTypeOK
<1>b. \A c \in Callers : ctx[c].marker \in Marker
  BY DEF TypeOK, CallersTypeOK, Context
<1>c. ASSUME NEW m, journal' = Append(journal, m)
      PROVE  \A k \in 1..journalSynced : journal'[k] = journal[k]
  BY <1>a, <1>c
<1>1. ASSUME NEW c \in Callers,
             \/ \E b \in Batches : Begin(c, b)
             \/ AppendStart(c) \/ AppendDone(c) \/ FsyncLanes(c) \/ Compose(c)
             \/ Check(c) \/ Fail(c)
      PROVE  KeepsLines
  <2>1. UNCHANGED <<journal, journalSynced, acked>>
    BY <1>1 DEF Begin, AppendStart, AppendDone, FsyncLanes, Compose, Check, Fail, files
  <2> QED
    BY <1>a, <2>1 DEF KeepsLines
<1>2. ASSUME NEW c \in Callers, Write(c) \/ CommitSync(c) PROVE KeepsLines
  <2>1. /\ \E m : journal' = Append(journal, m)
        /\ UNCHANGED <<journalSynced, acked>>
    BY <1>2 DEF Write, CommitSync
  <2> QED
    BY <1>a, <1>c, <2>1 DEF KeepsLines
<1>3. ASSUME NEW c \in Callers, FsyncJournal(c) PROVE KeepsLines
  BY <1>a, <1>3 DEF FsyncJournal, KeepsLines
<1>4. CASE ProcessCrash
  BY <1>a, <1>4 DEF ProcessCrash, Reset, KeepsLines
<1>5. CASE PowerLoss
  <2>1. PICK n \in journalSynced..Len(journal) :
             journal' = SubSeq(journal, 1, n) /\ journalSynced' = n
    BY <1>5 DEF PowerLoss
  <2>2. \A k \in 1..n : journal'[k] = journal[k]
    BY <1>a, <2>1
  <2> QED
    BY <1>a, <1>5, <2>1, <2>2 DEF PowerLoss, Reset, KeepsLines
<1>6. CASE Recover
  <2>1. CASE RecoverJournal
    <3>1. /\ UNCHANGED <<journal, acked>>
          /\ journalSynced' = IF journalTorn THEN Len(journal) ELSE journalSynced
      BY <2>1 DEF RecoverJournal
    <3> QED
      BY <1>a, <3>1 DEF KeepsLines
  <2>2. CASE RecoverLanes \/ RebuildRegistry \/ ReplayMarker \/ Open
    BY <1>a, <2>2 DEF RecoverLanes, RebuildRegistry, ReplayMarker, Open, files, KeepsLines
  <2> QED
    BY <1>6, <2>1, <2>2 DEF Recover
<1>7. CASE UNCHANGED vars
  BY <1>a, <1>7 DEF vars, files, KeepsLines
<1> QED
  BY <1>1, <1>2, <1>3, <1>4, <1>5, <1>6, <1>7 DEF Next, Commit

\* Every step of the store is a step of the log, or none.
LEMMA StepOfLog ==
    ASSUME TypeOK, ChainInv, LaneInv, AckInv, [Next]_vars, TypeOK', LaneInv'
    PROVE  [Log!Next]_(Log!vars)
<1> DEFINE n == journalSynced
<1>1. /\ DurableLog \in Seq(Op) /\ Len(DurableLog) = n /\ n \in Nat
      /\ \A i \in 1..n : DurableLog[i] = journal[i].op
  BY DurableLogLines DEF LaneInv, LogLines
<1>2. /\ DurableLog' \in Seq(Op) /\ Len(DurableLog') = n' /\ n' \in Nat
      /\ \A i \in 1..n' : DurableLog'[i] = journal'[i].op
      /\ Log!Distinct(DurableLog')
  <2>1. LogLines'
    BY DurableLogLines, PTL DEF LaneInv
  <2> QED
    BY <2>1 DEF LogLines, Log!Distinct
<1>3. CASE KeepsLines
  <2>1. \A i \in 1..n : DurableLog'[i] = DurableLog[i]
    BY <1>1, <1>2, <1>3 DEF KeepsLines
  <2>2. Answers' = Answers
    BY <1>3 DEF KeepsLines, Answers
  <2>3. CASE n' = n
    <3>1. DurableLog' = DurableLog
      BY <1>1, <1>2, <2>1, <2>3
    <3> QED
      BY <2>2, <3>1 DEF Log!vars, DurableLog, Answers
  <2>4. CASE n' > n
    <3>1. Log!Durable
      BY <1>1, <1>2, <2>1, <2>2, <2>4 DEF Log!Durable, DurableLog, Answers
    <3> QED
      BY <3>1 DEF Log!Next
  <2> QED
    BY <1>1, <1>2, <1>3, <2>3, <2>4 DEF KeepsLines
<1>4. ASSUME NEW c \in Callers, Finish(c) PROVE Log!Next
  <2> DEFINE m == ctx[c].marker
  <2>1. /\ pc[c] = "finish" /\ mode = "open"
        /\ acked' = acked \cup {m} /\ UNCHANGED <<journal, journalSynced>>
    BY <1>4 DEF Finish, Step, Running, files
  <2>2. Len(journal) = headTx + 1 /\ m = journal[headTx + 1] /\ n = Len(journal)
    BY <2>1 DEF ChainInv, MarkerExtends, Pending, AckInv
  <2>3. headTx \in Nat /\ Len(journal) \in Nat
    BY DEF TypeOK, MemoryTypeOK, FilesTypeOK
  <2>4. m.tx = headTx + 1 /\ m.tx \in 1..n /\ m = journal[m.tx]
    BY <2>2, <2>3 DEF ChainInv, JournalChained
  <2> HIDE DEF m
  <2>5. DurableLog' = DurableLog
    BY <2>1 DEF DurableLog, OpsOf
  <2>6. \A t \in Answers : t.tx # m.tx
    BY <2>1, <2>3, <2>4, <2>2 DEF AckInv, Answers
  <2>7. Answers' = Answers \cup {[tx |-> m.tx, op |-> DurableLog[m.tx]]}
    BY <1>1, <2>1, <2>4 DEF Answers
  <2>8. m.tx \in 1..Len(DurableLog)
    BY <1>1, <2>4
  <2> QED
    BY <2>5, <2>6, <2>7, <2>8 DEF Log!Next, Log!Tell, DurableLog, Answers
<1> QED
  BY <1>3, <1>4, StepKeepsLines

\* GatewayStore.commit, Journal.append and recovery together implement the
\* append-only log of CommitLog: over every interleaving of a serial workload
\* with failures, crashes and power losses a durable commit is never
\* shortened away, reordered or repeated, and a caller is told a tx once, and
\* only after it is durable.
THEOREM ImplementsLogWhenSerial ==
    ASSUME Serial
    PROVE  Spec => ImplementsLog
<1> DEFINE Inv == ChainInv /\ TypeOK /\ LaneInv /\ ~readOnly /\ AckInv
<1>1. Init => Inv
  <2>1. Init => AckInv
    BY DEF Init, AckInv
  <2> QED
    BY <2>1, InitChain, InitTypeOK, InitLanes
<1>2. Inv /\ [Next]_vars => Inv'
  BY NextChain, NextTypeOK, NextLanes, NextWritable, NextAck
<1>3. Init => Log!Init
  <2> SUFFICES ASSUME Init PROVE Log!Init
    OBVIOUS
  <2>1. acked = {} /\ TypeOK /\ OpsIncrease
    BY <1>1 DEF Init, LaneInv
  <2> QED
    BY <2>1, DurableLogLines DEF LogLines, Log!Init, DurableLog
<1>4. Inv /\ Inv' /\ [Next]_vars => [Log!Next]_(Log!vars)
  BY StepOfLog
<1> QED
  BY <1>1, <1>2, <1>3, <1>4, PTL DEF Spec, ImplementsLog, Log!Spec

=============================================================================
