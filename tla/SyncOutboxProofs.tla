-------------------------- MODULE SyncOutboxProofs --------------------------
(***************************************************************************)
(* Two facts about the outbox, for any number of items, streams, stages    *)
(* and destinations.                                                       *)
(*                                                                         *)
(* No item is imported twice, across restarts too.  A stage can only be    *)
(* committed while a row that may still be sent, or a send, names it; such *)
(* a stage is called live.  A stage is made for rows that have none, so    *)
(* no live stage holds them; and a stage whose rows were not all journaled *)
(* when a write failed or the process stopped is dead, since the rows that *)
(* name it stay IN_FLIGHT with no send.                                    *)
(*                                                                         *)
(* In one process ACKED means delivered: the rows of a batch name the same *)
(* stage, since itemBatch keeps the rows that were sent together together; *)
(* a row it keeps with them although its write failed names none, but the  *)
(* rows that were written are stuck and are never sent with it.            *)
(***************************************************************************)
EXTENDS SyncOutbox, TLAPS

-----------------------------------------------------------------------------
(* The inductive invariant of ImportedOnce. *)

Phases == {"none", "prepare", "sending", "found", "committed"}
Rows   == [state : States, dest : Destinations \cup {"none"}, stage : Nat, attempts : Nat]
Sends  == [phase : Phases, members : SUBSET Items, dest : Destinations \cup {"none"},
           stage : Nat]
Stages == [items : SUBSET Items, dest : Destinations \cup {"none"}, committed : BOOLEAN]

\* The types of the rows, the sends and the stages.
Types ==
    /\ consent \in [Streams -> [enabled : BOOLEAN, dest : Destinations]]
    /\ box \in [Items -> Rows]
    /\ send \in [Streams -> Sends]
    /\ stage \in Seq(Stages)
    /\ \A i \in Items : box[i].stage <= Len(stage)
    /\ \A s \in Streams : send[s].stage <= Len(stage)

\* An item that was never enqueued has no stage.
NewRows == \A i \in Items : box[i].state = "NONE" => box[i].stage = 0

\* A send works on rows of its stream: before the request they are sendable,
\* and have no stage unless the batch took one over; afterwards they are
\* IN_FLIGHT with the stage of the send.
SendRows ==
    \A s \in Streams : send[s].phase # "none" => \A k \in send[s].members :
        /\ StreamOf[k] = s
        /\ send[s].phase = "prepare" => /\ box[k].state \in {"PENDING", "RETRY"}
                                        /\ send[s].stage = 0 => box[k].stage = 0
        /\ send[s].phase # "prepare" => /\ box[k].state = "IN_FLIGHT"
                                        /\ box[k].stage = send[s].stage

\* A request is out for a stage.
SentStaged ==
    \A s \in Streams : send[s].phase \in {"sending", "found", "committed"} => send[s].stage # 0

\* Stage g is committed, or can still be.
Live(g) ==
    \/ stage[g].committed
    \/ \E s \in Streams : send[s].phase # "none" /\ send[s].stage = g
    \/ \E k \in Items : box[k].stage = g /\ box[k].state # "IN_FLIGHT"

\* The items of a live stage have a stage.
LiveStaged ==
    \A g \in 1..Len(stage) : Live(g) => \A k \in stage[g].items : box[k].stage # 0

\* An item is in one live stage at most.
LiveOnce ==
    \A g, h \in 1..Len(stage) :
        Live(g) /\ Live(h) /\ g # h => stage[g].items \cap stage[h].items = {}

ImportInv == Types /\ NewRows /\ SendRows /\ SentStaged /\ LiveStaged /\ LiveOnce

-----------------------------------------------------------------------------
(* The inductive invariant of AckedDelivered, in one process. *)

\* The rows a send left behind: IN_FLIGHT, and in no send.
StuckRows ==
    \A k \in stuck :
        /\ k \in Items
        /\ box[k].state = "IN_FLIGHT"
        /\ \A s \in Streams : send[s].phase # "none" => k \notin send[s].members

\* What OutboxEngine.itemBatch knows: the rows that have a stage, each in the
\* batch it was last sent with; those that can be sent name one stage.
BatchInv ==
    /\ \A k \in Items : batchOf[k] # {} => k \in batchOf[k]
    /\ \A k \in Items : box[k].stage # 0 => batchOf[k] # {}
    /\ \A j, k \in Items \ stuck : batchOf[j] = batchOf[k] => box[j].stage = box[k].stage

\* A row is in the stage it names.
RowInStage ==
    \A k \in Items : box[k].stage # 0 => k \in stage[box[k].stage].items

\* A batch has the stage of each of its rows.
OneStage ==
    \A s \in Streams : send[s].phase = "prepare" =>
        \A k \in send[s].members : box[k].stage = send[s].stage

\* The sink answers for a stage that is committed.
AnswerTrue ==
    \A s \in Streams : send[s].phase \in {"found", "committed"} => stage[send[s].stage].committed

\* The stage of a row that is ACKED is committed.
AckedCommitted ==
    \A k \in Items : box[k].state = "ACKED" => /\ box[k].stage # 0
                                               /\ stage[box[k].stage].committed

Delivery ==
    /\ BatchInv /\ RowInStage /\ OneStage /\ AnswerTrue /\ AckedCommitted
    /\ batchOf \in [Items -> SUBSET Items]

DeliveryInv == ImportInv /\ StuckRows /\ Delivery /\ restarts = 0

-----------------------------------------------------------------------------
(* Lemmas about the helpers. *)

\* Moved writes the state of the rows m and nothing else.
LEMMA MovedRows ==
    ASSUME Types, NEW m, NEW st \in States
    PROVE  /\ Moved(m, st) \in [Items -> Rows]
           /\ \A k \in Items :
                 /\ Moved(m, st)[k].state = (IF k \in m THEN st ELSE box[k].state)
                 /\ Moved(m, st)[k].stage = box[k].stage
<1>1. \A k \in Items : box[k] \in Rows
  BY DEF Types
<1>2. ASSUME NEW k \in Items
      PROVE  /\ Moved(m, st)[k] \in Rows
             /\ Moved(m, st)[k].state = (IF k \in m THEN st ELSE box[k].state)
             /\ Moved(m, st)[k].stage = box[k].stage
  <2>1. Moved(m, st)[k] = IF k \in m THEN [box[k] EXCEPT !.state = st] ELSE box[k]
    BY DEF Moved
  <2>2. box[k] \in Rows
    BY <1>1
  <2> QED
    BY <2>1, <2>2 DEF Rows
<1>3. Moved(m, st) = [k \in Items |-> Moved(m, st)[k]]
  BY DEF Moved
<1> QED
  BY <1>2, <1>3

\* Journaled writes IN_FLIGHT and the stage of the send.
LEMMA JournaledRows ==
    ASSUME Types, NEW s \in Streams, NEW m
    PROVE  /\ StageId(s) \in Nat
           /\ Journaled(s, m) \in [Items -> Rows]
           /\ \A k \in Items :
                 /\ Journaled(s, m)[k].state = (IF k \in m THEN "IN_FLIGHT" ELSE box[k].state)
                 /\ Journaled(s, m)[k].stage = (IF k \in m THEN StageId(s) ELSE box[k].stage)
<1>1. \A k \in Items : box[k] \in Rows
  BY DEF Types
<1>2. StageId(s) \in Nat
  BY DEF StageId, Types, Sends
<1>3. ASSUME NEW k \in Items
      PROVE  /\ Journaled(s, m)[k] \in Rows
             /\ Journaled(s, m)[k].state = (IF k \in m THEN "IN_FLIGHT" ELSE box[k].state)
             /\ Journaled(s, m)[k].stage = (IF k \in m THEN StageId(s) ELSE box[k].stage)
  <2>1. Journaled(s, m)[k] =
           IF k \in m
           THEN [box[k] EXCEPT !.state = "IN_FLIGHT", !.stage = StageId(s), !.attempts = @ + 1]
           ELSE box[k]
    BY DEF Journaled
  <2>2. box[k] \in Rows /\ box[k].attempts + 1 \in Nat
    BY <1>1 DEF Rows
  <2> QED
    BY <1>2, <2>1, <2>2 DEF Rows, States
<1>4. Journaled(s, m) = [k \in Items |-> Journaled(s, m)[k]]
  BY DEF Journaled
<1> QED
  BY <1>2, <1>3, <1>4

\* ResolveStage keeps the stages there are; a stage it makes is the batch's.
LEMMA ResolvedStages ==
    ASSUME Types, NEW s \in Streams, ResolveStage(s)
    PROVE  /\ stage' \in Seq(Stages)
           /\ Len(stage') \in {Len(stage), Len(stage) + 1}
           /\ \A g \in 1..Len(stage) : stage'[g] = stage[g]
           /\ StageId(s) \in 1..Len(stage')
           /\ send[s].stage # 0 => stage' = stage /\ StageId(s) = send[s].stage
           /\ send[s].stage = 0 => /\ StageId(s) = Len(stage) + 1
                                   /\ Len(stage') = Len(stage) + 1
                                   /\ stage'[Len(stage) + 1].items = send[s].members
                                   /\ ~stage'[Len(stage) + 1].committed
<1>1. send[s] \in Sends /\ stage \in Seq(Stages) /\ Len(stage) \in Nat
      /\ send[s].stage <= Len(stage)
  BY DEF Types
<1>2. CASE send[s].stage # 0
  BY <1>1, <1>2 DEF ResolveStage, StageId, Sends
<1>3. CASE send[s].stage = 0
  <2> DEFINE new == [items |-> send[s].members, dest |-> send[s].dest, committed |-> FALSE]
  <2>1. stage' = Append(stage, new)
    BY <1>3 DEF ResolveStage, ImportStage
  <2>2. new \in Stages /\ new.items = send[s].members /\ ~new.committed
    BY <1>1 DEF Stages, Sends
  <2> HIDE DEF new
  <2> QED
    BY <1>1, <1>3, <2>1, <2>2 DEF StageId
<1> QED
  BY <1>2, <1>3

\* The facts about live stages are kept when no dead stage comes alive, no
\* row loses its stage, and a new stage that is live is of rows that had none.
LEMMA LiveStep ==
    ASSUME Types, LiveStaged, LiveOnce,
           NEW n \in Nat, n = Len(stage), Len(stage') \in {n, n + 1},
           \A g \in 1..n : stage'[g].items = stage[g].items,
           \A g \in 1..n : Live(g)' => Live(g),
           \A k \in Items : box[k].stage # 0 => box'[k].stage # 0,
           \/ Len(stage') = n
           \/ ~Live(n + 1)'
           \/ \A k \in stage'[n + 1].items :
                  k \in Items /\ box[k].stage = 0 /\ box'[k].stage # 0
    PROVE  LiveStaged' /\ LiveOnce'
<1>1. \A g \in 1..n : stage[g].items \subseteq Items
  <2> SUFFICES ASSUME NEW g \in 1..n PROVE stage[g].items \subseteq Items
    OBVIOUS
  <2>1. stage[g] \in Stages
    BY DEF Types
  <2> QED
    BY <2>1 DEF Stages
<1>2. \A g : g \in 1..Len(stage') => g \in 1..n \/ (g = n + 1 /\ Len(stage') # n)
  BY <1>1
<1>3. ASSUME NEW g \in 1..Len(stage'), Live(g)', NEW k \in stage'[g].items
      PROVE  box'[k].stage # 0
  <2>1. CASE g \in 1..n
    <3>1. Live(g) /\ k \in stage[g].items /\ k \in Items
      BY <1>1, <1>3, <2>1
    <3>2. box[k].stage # 0
      BY <2>1, <3>1 DEF LiveStaged
    <3> QED
      BY <3>1, <3>2
  <2>2. CASE g = n + 1 /\ Len(stage') # n
    BY <1>3, <2>2
  <2> QED
    BY <1>2, <2>1, <2>2
<1>4. ASSUME NEW g \in 1..n, NEW h \in 1..Len(stage'), Live(g)', Live(h)', g # h
      PROVE  stage'[g].items \cap stage'[h].items = {}
  <2>1. Live(g) /\ stage'[g].items = stage[g].items /\ stage[g].items \subseteq Items
    BY <1>1, <1>4
  <2>2. CASE h \in 1..n
    <3>1. Live(h) /\ stage'[h].items = stage[h].items
      BY <1>4, <2>2
    <3> QED
      BY <1>4, <2>1, <2>2, <3>1 DEF LiveOnce
  <2>3. CASE h = n + 1 /\ Len(stage') # n
    <3>1. \A k \in stage'[h].items : box[k].stage = 0
      BY <1>4, <2>3
    <3>2. \A k \in stage[g].items : box[k].stage # 0
      BY <2>1 DEF LiveStaged
    <3> QED
      BY <2>1, <3>1, <3>2
  <2> QED
    BY <1>2, <2>2, <2>3
<1>5. LiveStaged'
  BY <1>3 DEF LiveStaged
<1>6. LiveOnce'
  <2> SUFFICES ASSUME NEW g \in 1..Len(stage'), NEW h \in 1..Len(stage'), Live(g)', Live(h)', g # h
               PROVE  stage'[g].items \cap stage'[h].items = {}
    BY DEF LiveOnce
  <2>1. g \in 1..n \/ h \in 1..n
    BY <1>2
  <2>2. CASE g \in 1..n
    BY <1>4, <2>2
  <2>3. CASE h \in 1..n
    <3>1. stage'[h].items \cap stage'[g].items = {}
      BY <1>4, <2>3
    <3> QED
      BY <3>1
  <2> QED
    BY <2>1, <2>2, <2>3
<1> QED
  BY <1>5, <1>6

-----------------------------------------------------------------------------
(* No item is imported twice: the invariant is inductive. *)

LEMMA InitImport == Init => ImportInv
<1> SUFFICES ASSUME Init PROVE ImportInv
  OBVIOUS
<1> USE OutboxAssumption DEF Init
<1>1. box \in [Items -> Rows] /\ \A i \in Items : box[i].stage = 0
  BY DEF NoItem, Rows, States
<1>2. send \in [Streams -> Sends]
      /\ \A s \in Streams : send[s].phase = "none" /\ send[s].stage = 0
  BY DEF NoSend, Sends, Phases
<1>3. stage \in Seq(Stages) /\ Len(stage) = 0
  OBVIOUS
<1>4. consent \in [Streams -> [enabled : BOOLEAN, dest : Destinations]]
  OBVIOUS
<1> QED
  BY <1>1, <1>2, <1>3, <1>4 DEF ImportInv, Types, NewRows, SendRows, SentStaged, LiveStaged, LiveOnce

\* The steps that touch no row, no send and no stage.
LEMMA QuietImport ==
    ASSUME ImportInv, UNCHANGED <<box, send, stage>>,
           consent' \in [Streams -> [enabled : BOOLEAN, dest : Destinations]]
    PROVE  ImportInv'
<1>1. \A g : Live(g)' <=> Live(g)
  BY DEF Live
<1> QED
  BY <1>1 DEF ImportInv, Types, NewRows, SendRows, SentStaged, LiveStaged, LiveOnce

LEMMA EnqueueImport ==
    ASSUME ImportInv, NEW i \in Items, Enqueue(i) PROVE ImportInv'
<1> DEFINE row == [NoItem EXCEPT !.state = "PENDING", !.dest = consent[StreamOf[i]].dest]
           n == Len(stage)
<1>1. /\ row \in Rows /\ row.state = "PENDING" /\ row.stage = 0
      /\ box[i].state = "NONE" /\ box[i].stage = 0
  BY OutboxAssumption DEF Enqueue, NoItem, Rows, States, ImportInv, Types, NewRows
<1>2. box' = [box EXCEPT ![i] = row] /\ UNCHANGED <<consent, send, stage>>
  BY DEF Enqueue
<1> HIDE DEF row
<1>3. box' \in [Items -> Rows] /\ box'[i] = row /\ \A k \in Items : k # i => box'[k] = box[k]
  BY <1>1, <1>2 DEF ImportInv, Types
<1>4. n \in Nat /\ \A g \in 1..n : Live(g)' => Live(g)
  BY <1>1, <1>2, <1>3 DEF Live, ImportInv, Types
<1>5. Types' /\ NewRows'
  BY <1>1, <1>2, <1>3 DEF ImportInv, Types, NewRows
<1>6. SendRows' /\ SentStaged'
  BY <1>1, <1>2, <1>3 DEF ImportInv, Types, Sends, SendRows, SentStaged
<1>7. LiveStaged' /\ LiveOnce'
  BY <1>1, <1>2, <1>3, <1>4, LiveStep DEF ImportInv
<1> QED
  BY <1>5, <1>6, <1>7 DEF ImportInv

\* Rows that no send works on change their state, and are not IN_FLIGHT
\* before or after.
LEMMA RowsImport ==
    ASSUME ImportInv, NEW m \in SUBSET Items, NEW st \in States \ {"NONE", "IN_FLIGHT"},
           \A k \in m : box[k].state \notin {"NONE", "IN_FLIGHT"},
           \A s \in Streams : send[s].phase # "none" => send[s].members \cap m = {},
           box' = Moved(m, st), UNCHANGED <<consent, send, stage>>
    PROVE  ImportInv'
<1>1. /\ box' \in [Items -> Rows]
      /\ \A k \in Items : /\ box'[k].state = (IF k \in m THEN st ELSE box[k].state)
                          /\ box'[k].stage = box[k].stage
  BY MovedRows DEF ImportInv
<1>2. Len(stage) \in Nat /\ \A g \in 1..Len(stage) : Live(g)' => Live(g)
  BY <1>1 DEF Live, ImportInv, Types
<1>3. Types' /\ NewRows'
  BY <1>1 DEF ImportInv, Types, NewRows
<1>4. SendRows' /\ SentStaged'
  <2>1. ASSUME NEW s \in Streams, send[s].phase # "none", NEW k \in send[s].members
        PROVE  k \in Items /\ k \notin m /\ box'[k].state = box[k].state /\ box'[k].stage = box[k].stage
    BY <1>1, <2>1 DEF ImportInv, Types, Sends
  <2> QED
    BY <2>1 DEF ImportInv, SendRows, SentStaged
<1>5. LiveStaged' /\ LiveOnce'
  BY <1>1, <1>2, LiveStep DEF ImportInv
<1> QED
  BY <1>3, <1>4, <1>5 DEF ImportInv

LEMMA RepairImport ==
    ASSUME ImportInv, NEW i \in Items, Repair(i) PROVE ImportInv'
<1>1. box[i].state = "BLOCKED" /\ box' = Moved({i}, "PENDING") /\ UNCHANGED <<consent, send, stage>>
  BY DEF Repair, memory
<1>2. \A s \in Streams : send[s].phase # "none" => send[s].members \cap {i} = {}
  BY <1>1 DEF ImportInv, SendRows
<1> QED
  BY <1>1, <1>2, RowsImport DEF States

\* What StartSend may pick: rows of its stream that are sendable.
LEMMA BatchReady ==
    ASSUME NEW s, NEW m \in NextBatches(s)
    PROVE  m \subseteq Ready(s)
  BY DEF NextBatches

\* Of the rows of a batch that are being blocked some are.
LEMMA BlockFailsImport ==
    ASSUME ImportInv, NEW s \in Streams, BlockFails(s) PROVE ImportInv'
<1>0. PICK m \in NextBatches(s) : \E n \in SUBSET m : box' = Moved(n, "BLOCKED")
  BY DEF BlockFails
<1>1. PICK n \in SUBSET m : box' = Moved(n, "BLOCKED")
  BY <1>0
<1>2. send[s].phase = "none" /\ UNCHANGED <<consent, send, stage>>
  BY DEF BlockFails, memory
<1>3. \A k \in n : k \in Items /\ StreamOf[k] = s /\ box[k].state \in {"PENDING", "RETRY"}
  BY BatchReady DEF Ready, Sendable
<1>4. \A t \in Streams : send[t].phase # "none" => send[t].members \cap n = {}
  BY <1>2, <1>3 DEF ImportInv, SendRows
<1> QED
  BY <1>1, <1>2, <1>3, <1>4, RowsImport DEF States

\* The stage a batch takes over is one of a row of it, or none has one.
LEMMA BatchStage ==
    ASSUME Types, NEW m \in SUBSET Items, NEW i \in m, NEW g \in StagesOf(m, i)
    PROVE  /\ g \in Nat
           /\ g # 0 => \E k \in m : box[k].stage = g
           /\ g = 0 => \A k \in m : box[k].stage = 0
<1>1. \A k \in m : box[k].stage \in Nat
  BY DEF Types, Rows
<1>2. CASE box[i].stage # 0
  BY <1>1, <1>2 DEF StagesOf
<1>3. CASE box[i].stage = 0
  <2>1. CASE \A k \in m : box[k].stage = 0
    BY <1>3, <2>1 DEF StagesOf
  <2>2. CASE \E k \in m : box[k].stage # 0
    BY <1>1, <1>3, <2>2 DEF StagesOf
  <2> QED
    BY <2>1, <2>2
<1> QED
  BY <1>2, <1>3

LEMMA StartImport ==
    ASSUME ImportInv, NEW s \in Streams, StartSend(s) PROVE ImportInv'
<1>1. PICK m \in NextBatches(s) : \E i \in m :
         \/ /\ \E g \in StagesOf(m, i) : send' = [send EXCEPT ![s] = OutboxBatch(m, i, g)]
            /\ UNCHANGED box
         \/ /\ box' = Moved(m, "BLOCKED")
            /\ UNCHANGED send
  BY DEF StartSend
<1>i. PICK i \in m :
         \/ /\ \E g \in StagesOf(m, i) : send' = [send EXCEPT ![s] = OutboxBatch(m, i, g)]
            /\ UNCHANGED box
         \/ /\ box' = Moved(m, "BLOCKED")
            /\ UNCHANGED send
  BY <1>1
<1>2. /\ send[s].phase = "none" /\ UNCHANGED <<consent, stage>>
  BY DEF StartSend
<1>3. /\ m \in SUBSET Items /\ i \in Items
      /\ \A k \in m : StreamOf[k] = s /\ box[k].state \in {"PENDING", "RETRY"}
  BY BatchReady DEF Ready, Sendable
<1>4. CASE box' = Moved(m, "BLOCKED") /\ UNCHANGED send
  <2>1. \A t \in Streams : send[t].phase # "none" => send[t].members \cap m = {}
    BY <1>2, <1>3 DEF ImportInv, SendRows
  <2> QED
    BY <1>2, <1>3, <1>4, <2>1, RowsImport DEF States
<1>5. CASE UNCHANGED box /\ \E g \in StagesOf(m, i) : send' = [send EXCEPT ![s] = OutboxBatch(m, i, g)]
  <2>1. PICK g \in StagesOf(m, i) : send' = [send EXCEPT ![s] = OutboxBatch(m, i, g)]
    BY <1>5
  <2>2. /\ g \in Nat
        /\ g # 0 => \E k \in m : box[k].stage = g
        /\ g = 0 => \A k \in m : box[k].stage = 0
    BY <1>3, BatchStage DEF ImportInv
  <2>3. g <= Len(stage) /\ Len(stage) \in Nat
    BY <1>3, <2>2 DEF ImportInv, Types
  <2> DEFINE b == OutboxBatch(m, i, g)
  <2>4. b \in Sends /\ b.phase = "prepare" /\ b.members = m /\ b.stage = g
    BY <1>3, <2>2 DEF OutboxBatch, Sends, Phases, ImportInv, Types, Rows
  <2> HIDE DEF b
  <2>5. send' \in [Streams -> Sends] /\ send'[s] = b /\ \A t \in Streams : t # s => send'[t] = send[t]
    BY <2>1, <2>4 DEF ImportInv, Types, b
  <2>6. Types' /\ NewRows'
    BY <1>2, <1>5, <2>3, <2>4, <2>5 DEF ImportInv, Types, NewRows
  <2>7. SendRows' /\ SentStaged'
    BY <1>2, <1>3, <1>5, <2>2, <2>4, <2>5 DEF ImportInv, SendRows, SentStaged
  <2>8. ASSUME NEW h \in 1..Len(stage), Live(h)' PROVE Live(h)
    <3>1. CASE \E t \in Streams : send'[t].phase # "none" /\ send'[t].stage = h
      <4>1. PICK t \in Streams : send'[t].phase # "none" /\ send'[t].stage = h
        BY <3>1
      <4>2. CASE t # s
        BY <2>5, <4>1, <4>2 DEF Live
      <4>3. CASE t = s
        <5>1. g = h /\ g # 0
          BY <2>3, <2>4, <2>5, <4>1, <4>3
        <5> QED
          BY <1>3, <2>2, <5>1 DEF Live
      <4> QED
        BY <4>2, <4>3
    <3> QED
      BY <1>2, <1>5, <2>8, <3>1 DEF Live
  <2>9. LiveStaged' /\ LiveOnce'
    BY <1>2, <1>5, <2>3, <2>8, LiveStep DEF ImportInv
  <2> QED
    BY <2>6, <2>7, <2>9 DEF ImportInv
<1> QED
  BY <1>i, <1>4, <1>5

LEMMA PrepareImport ==
    ASSUME ImportInv, NEW s \in Streams, Prepare(s) PROVE ImportInv'
<1> DEFINE m == send[s].members
           g == StageId(s)
           n == Len(stage)
<1>1. /\ send[s].phase = "prepare" /\ ResolveStage(s) /\ UNCHANGED consent
      /\ send' = [send EXCEPT ![s].phase = "sending", ![s].stage = g]
      /\ box' = Journaled(s, m)
  BY DEF Prepare
<1>2. /\ stage' \in Seq(Stages) /\ n \in Nat /\ Len(stage') \in {n, n + 1}
      /\ \A h \in 1..n : stage'[h] = stage[h]
      /\ g \in 1..Len(stage')
      /\ send[s].stage # 0 => stage' = stage /\ g = send[s].stage
      /\ send[s].stage = 0 => /\ g = n + 1 /\ Len(stage') = n + 1
                              /\ stage'[n + 1].items = m
  BY <1>1, ResolvedStages DEF ImportInv, Types
<1>3. /\ box' \in [Items -> Rows]
      /\ \A k \in Items :
            /\ box'[k].state = (IF k \in m THEN "IN_FLIGHT" ELSE box[k].state)
            /\ box'[k].stage = (IF k \in m THEN g ELSE box[k].stage)
  BY <1>1, JournaledRows DEF ImportInv
<1>4. /\ m \subseteq Items
      /\ \A k \in m : StreamOf[k] = s /\ (send[s].stage = 0 => box[k].stage = 0)
      /\ \A t \in Streams : send[t].phase # "none" =>
            \A k \in send[t].members : k \in Items /\ StreamOf[k] = t
  BY <1>1 DEF ImportInv, Types, Sends, SendRows
<1>5. /\ send' \in [Streams -> Sends]
      /\ send'[s].phase = "sending" /\ send'[s].stage = g /\ send'[s].members = m
      /\ \A t \in Streams : t # s => send'[t] = send[t]
  <2>1. send[s] \in Sends /\ g \in Nat
    BY <1>2 DEF ImportInv, Types
  <2>2. send' = [send EXCEPT ![s] = [send[s] EXCEPT !.phase = "sending", !.stage = g]]
    BY <1>1
  <2>3. [send[s] EXCEPT !.phase = "sending", !.stage = g] \in Sends
    BY <2>1 DEF Sends, Phases
  <2> QED
    BY <2>1, <2>2, <2>3 DEF ImportInv, Types, Sends
<1> HIDE DEF m, g
<1>6. Types'
  <2>1. \A k \in Items : box'[k].stage <= Len(stage')
    <3>1. \A k \in Items : box[k].stage \in Nat /\ box[k].stage <= n
      BY DEF ImportInv, Types, Rows
    <3> QED
      BY <1>2, <1>3, <3>1
  <2>2. \A t \in Streams : send'[t].stage <= Len(stage')
    <3>1. \A t \in Streams : send[t].stage \in Nat /\ send[t].stage <= n
      BY DEF ImportInv, Types, Sends
    <3> QED
      BY <1>2, <1>5, <3>1
  <2> QED
    BY <1>1, <1>2, <1>3, <1>5, <2>1, <2>2 DEF ImportInv, Types
<1>7. NewRows'
  BY <1>3 DEF ImportInv, NewRows
<1>8. SendRows'
  <2> SUFFICES ASSUME NEW t \in Streams, send'[t].phase # "none", NEW k \in send'[t].members
               PROVE  /\ StreamOf[k] = t
                      /\ send'[t].phase = "prepare" => /\ box'[k].state \in {"PENDING", "RETRY"}
                                                       /\ send'[t].stage = 0 => box'[k].stage = 0
                      /\ send'[t].phase # "prepare" => /\ box'[k].state = "IN_FLIGHT"
                                                       /\ box'[k].stage = send'[t].stage
    BY DEF SendRows
  <2>1. CASE t = s
    BY <1>3, <1>4, <1>5, <2>1
  <2>2. CASE t # s
    <3>1. k \in Items /\ k \notin m /\ StreamOf[k] = t /\ send'[t] = send[t]
      BY <1>4, <1>5, <2>2
    <3> QED
      BY <1>3, <3>1 DEF ImportInv, SendRows
  <2> QED
    BY <2>1, <2>2
<1>9. SentStaged'
  BY <1>2, <1>5 DEF ImportInv, SentStaged
<1>10. ASSUME NEW h \in 1..n, Live(h)' PROVE Live(h)
  <2>1. CASE \E t \in Streams : send'[t].phase # "none" /\ send'[t].stage = h
    <3>1. PICK t \in Streams : send'[t].phase # "none" /\ send'[t].stage = h
      BY <2>1
    <3>2. CASE t # s
      BY <1>5, <3>1, <3>2 DEF Live
    <3>3. CASE t = s
      <4>1. send[s].stage = h
        BY <1>2, <1>5, <3>1, <3>3
      <4> QED
        BY <1>1, <4>1 DEF Live
    <3> QED
      BY <3>2, <3>3
  <2>2. CASE stage'[h].committed
    BY <1>2, <2>2 DEF Live
  <2>3. CASE \E k \in Items : box'[k].stage = h /\ box'[k].state # "IN_FLIGHT"
    <3>1. PICK k \in Items : box'[k].stage = h /\ box'[k].state # "IN_FLIGHT"
      BY <2>3
    <3> QED
      BY <1>3, <3>1 DEF Live
  <2> QED
    BY <1>10, <2>1, <2>2, <2>3 DEF Live
<1>11. \A k \in Items : box[k].stage # 0 => box'[k].stage # 0
  BY <1>2, <1>3
<1>12. \/ Len(stage') = n
       \/ \A k \in stage'[n + 1].items : k \in Items /\ box[k].stage = 0 /\ box'[k].stage # 0
  BY <1>2, <1>3, <1>4
<1>13. LiveStaged' /\ LiveOnce'
  BY <1>2, <1>10, <1>11, <1>12, LiveStep DEF ImportInv
<1> QED
  BY <1>6, <1>7, <1>8, <1>9, <1>13 DEF ImportInv

\* A send that ends: its rows stay as they were.
LEMMA SendEnds ==
    ASSUME Types, NEW s \in Streams, send' = [send EXCEPT ![s] = NoSend]
    PROVE  /\ send' \in [Streams -> Sends]
           /\ send'[s].phase = "none" /\ send'[s].stage = 0
           /\ \A t \in Streams : t # s => send'[t] = send[t]
<1>1. NoSend \in Sends /\ NoSend.phase = "none" /\ NoSend.stage = 0
  BY DEF NoSend, Sends, Phases
<1> QED
  BY <1>1 DEF Types

LEMMA PrepareFailsImport ==
    ASSUME ImportInv, NEW s \in Streams, PrepareFails(s) PROVE ImportInv'
<1>0. PICK n \in Nat : n = Len(stage)
  BY DEF ImportInv, Types
<1>1. /\ (send[s].stage = 0 /\ UNCHANGED stage) \/ ResolveStage(s)
      /\ send' = [send EXCEPT ![s] = NoSend] /\ UNCHANGED <<consent, box>>
  BY DEF PrepareFails, rows
<1>2. /\ n \in Nat /\ stage' \in Seq(Stages) /\ Len(stage') \in {n, n + 1}
      /\ \A h \in 1..n : stage'[h] = stage[h]
      /\ Len(stage') = n \/ ~stage'[n + 1].committed
  <2>1. CASE UNCHANGED stage
    BY <1>0, <2>1 DEF ImportInv, Types
  <2>2. CASE ResolveStage(s)
    BY <1>0, <1>1, <2>2, ResolvedStages DEF ImportInv, Types
  <2> QED
    BY <1>1, <2>1, <2>2
<1>3. /\ send' \in [Streams -> Sends]
      /\ send'[s].phase = "none" /\ send'[s].stage = 0
      /\ \A t \in Streams : t # s => send'[t] = send[t]
  BY <1>1, SendEnds DEF ImportInv
<1>4. /\ \A k \in Items : box[k].stage \in Nat /\ box[k].stage <= n
      /\ \A t \in Streams : send'[t].stage \in Nat /\ send'[t].stage <= n
  <2>1. \A t \in Streams : send[t].stage \in Nat /\ send[t].stage <= n
    BY <1>0 DEF ImportInv, Types, Sends
  <2>2. \A k \in Items : box[k].stage \in Nat /\ box[k].stage <= n
    BY <1>0 DEF ImportInv, Types, Rows
  <2> QED
    BY <1>0, <1>3, <2>1, <2>2
<1>5. Types' /\ NewRows'
  BY <1>0, <1>1, <1>2, <1>3, <1>4 DEF ImportInv, Types, NewRows
<1>6. SendRows' /\ SentStaged'
  BY <1>1, <1>3 DEF ImportInv, SendRows, SentStaged
<1>7. \A h \in 1..n : Live(h)' => Live(h)
  BY <1>1, <1>2, <1>3 DEF Live
<1>8. Len(stage') = n \/ ~Live(n + 1)'
  BY <1>1, <1>2, <1>4 DEF Live
<1>9. LiveStaged' /\ LiveOnce'
  BY <1>0, <1>1, <1>2, <1>7, <1>8, LiveStep DEF ImportInv
<1> QED
  BY <1>5, <1>6, <1>9 DEF ImportInv

\* Of a send that is out only the phase changes.
LEMMA PhaseStep ==
    ASSUME Types, NEW s \in Streams, NEW ph \in Phases \ {"none"},
           send[s].phase \notin {"none", "prepare"}, ph # "prepare",
           send' = [send EXCEPT ![s].phase = ph]
    PROVE  /\ send' \in [Streams -> Sends]
           /\ \A t \in Streams :
                 /\ send'[t].members = send[t].members /\ send'[t].stage = send[t].stage
                 /\ send'[t].phase = (IF t = s THEN ph ELSE send[t].phase)
<1>1. send[s] \in Sends
  BY DEF Types
<1> QED
  BY <1>1 DEF Types, Sends

LEMMA FindImport ==
    ASSUME ImportInv, NEW s \in Streams, FindCommitted(s) PROVE ImportInv'
<1>1. /\ send[s].phase = "sending" /\ send' = [send EXCEPT ![s].phase = "found"]
      /\ UNCHANGED <<consent, box, stage>>
  BY DEF FindCommitted, rows
<1>2. /\ send' \in [Streams -> Sends]
      /\ \A t \in Streams :
            /\ send'[t].members = send[t].members /\ send'[t].stage = send[t].stage
            /\ send'[t].phase = (IF t = s THEN "found" ELSE send[t].phase)
  BY <1>1, PhaseStep DEF ImportInv, Phases
<1>3. \A g : Live(g)' <=> Live(g)
  BY <1>1, <1>2 DEF Live
<1>4. Types' /\ NewRows' /\ SentStaged'
  BY <1>1, <1>2 DEF ImportInv, Types, NewRows, SentStaged
<1>5. SendRows'
  BY <1>1, <1>2 DEF ImportInv, SendRows
<1>6. LiveStaged' /\ LiveOnce'
  BY <1>1, <1>3 DEF ImportInv, LiveStaged, LiveOnce
<1> QED
  BY <1>4, <1>5, <1>6 DEF ImportInv

LEMMA CommitImport ==
    ASSUME ImportInv, NEW s \in Streams, CommitStage(s) PROVE ImportInv'
<1> DEFINE g == send[s].stage
           n == Len(stage)
<1>1. /\ send[s].phase = "sending" /\ send' = [send EXCEPT ![s].phase = "committed"]
      /\ stage' = [stage EXCEPT ![g].committed = TRUE] /\ UNCHANGED <<consent, box>>
  BY DEF CommitStage, rows
<1>2. /\ send' \in [Streams -> Sends]
      /\ \A t \in Streams :
            /\ send'[t].members = send[t].members /\ send'[t].stage = send[t].stage
            /\ send'[t].phase = (IF t = s THEN "committed" ELSE send[t].phase)
  BY <1>1, PhaseStep DEF ImportInv, Phases
<1>3. n \in Nat /\ g \in 1..n /\ stage \in Seq(Stages) /\ stage[g] \in Stages
  <2>1. g \in Nat /\ g <= n /\ g # 0 /\ n \in Nat /\ stage \in Seq(Stages)
    BY <1>1 DEF ImportInv, Types, Sends, SentStaged
  <2> QED
    BY <2>1
<1>4. /\ stage' \in Seq(Stages) /\ Len(stage') = n
      /\ \A h \in 1..n : stage'[h].items = stage[h].items
      /\ \A h \in 1..n : h # g => stage'[h] = stage[h]
  <2> DEFINE c == [stage[g] EXCEPT !.committed = TRUE]
  <2>1. c \in Stages /\ c.items = stage[g].items
    BY <1>3 DEF Stages
  <2>2. stage' = [stage EXCEPT ![g] = c]
    BY <1>1
  <2> HIDE DEF c
  <2> QED
    BY <1>3, <2>1, <2>2
<1> HIDE DEF g
<1>5. Types' /\ NewRows' /\ SentStaged'
  BY <1>1, <1>2, <1>4 DEF ImportInv, Types, NewRows, SentStaged
<1>6. SendRows'
  BY <1>1, <1>2 DEF ImportInv, SendRows
<1>7. Live(g)
  BY <1>1 DEF Live, g
<1>8. \A h \in 1..n : Live(h)' => Live(h)
  <2> SUFFICES ASSUME NEW h \in 1..n, h # g, Live(h)' PROVE Live(h)
    BY <1>7
  <2> QED
    BY <1>1, <1>2, <1>4 DEF Live
<1>9. LiveStaged' /\ LiveOnce'
  BY <1>1, <1>3, <1>4, <1>8, LiveStep DEF ImportInv
<1> QED
  BY <1>5, <1>6, <1>9 DEF ImportInv

LEMMA SettleImport ==
    ASSUME ImportInv, NEW s \in Streams, NEW st \in {"ACKED", "RETRY", "BLOCKED"}, Settle(s, st)
    PROVE  ImportInv'
<1> DEFINE m == send[s].members
<1>1. /\ send[s].phase \in {"sending", "found", "committed"} /\ box' = Moved(m, st)
      /\ send' = [send EXCEPT ![s] = NoSend] /\ UNCHANGED <<consent, stage>>
  BY DEF Settle
<1>2. /\ m \subseteq Items
      /\ \A k \in m : StreamOf[k] = s /\ box[k].stage = send[s].stage
      /\ \A t \in Streams : send[t].phase # "none" =>
            \A k \in send[t].members : k \in Items /\ StreamOf[k] = t
  BY <1>1 DEF ImportInv, Types, Sends, SendRows
<1>3. /\ box' \in [Items -> Rows]
      /\ \A k \in Items : /\ box'[k].state = (IF k \in m THEN st ELSE box[k].state)
                          /\ box'[k].stage = box[k].stage
  BY <1>1, MovedRows DEF ImportInv, States
<1>4. /\ send' \in [Streams -> Sends]
      /\ send'[s].phase = "none" /\ send'[s].stage = 0
      /\ \A t \in Streams : t # s => send'[t] = send[t]
  BY <1>1, SendEnds DEF ImportInv
<1> HIDE DEF m
<1>5. Types' /\ NewRows'
  BY <1>1, <1>3, <1>4 DEF ImportInv, Types, NewRows
<1>6. SentStaged'
  BY <1>4 DEF ImportInv, SentStaged
<1>7. SendRows'
  <2>1. ASSUME NEW t \in Streams, send'[t].phase # "none", NEW k \in send'[t].members
        PROVE  /\ t # s /\ send'[t] = send[t] /\ k \in send[t].members
               /\ box'[k].state = box[k].state /\ box'[k].stage = box[k].stage
    BY <1>2, <1>3, <1>4, <2>1
  <2> QED
    BY <2>1 DEF ImportInv, SendRows
<1>8. ASSUME NEW h \in 1..Len(stage), Live(h)' PROVE Live(h)
  <2>1. CASE \E k \in Items : box'[k].stage = h /\ box'[k].state # "IN_FLIGHT"
    <3>1. PICK k \in Items : box'[k].stage = h /\ box'[k].state # "IN_FLIGHT"
      BY <2>1
    <3>2. CASE k \in m
      BY <1>1, <1>2, <1>3, <3>1, <3>2 DEF Live
    <3>3. CASE k \notin m
      BY <1>3, <3>1, <3>3 DEF Live
    <3> QED
      BY <3>2, <3>3
  <2> QED
    BY <1>1, <1>4, <1>8, <2>1 DEF Live
<1>9. LiveStaged' /\ LiveOnce'
  <2>1. Len(stage) \in Nat
    BY DEF ImportInv, Types
  <2> QED
    BY <1>1, <1>3, <1>8, <2>1, LiveStep DEF ImportInv
<1> QED
  BY <1>5, <1>6, <1>7, <1>9 DEF ImportInv

\* The sends that a cut leaves: the one of s is over, and each other goes on
\* or is over.
SendsCut(s) ==
    /\ send' \in [Streams -> Sends]
    /\ send'[s].phase = "none" /\ send'[s].stage = 0
    /\ \A t \in Streams : send'[t] = send[t] \/ (send'[t].phase = "none" /\ send'[t].stage = 0)

\* The batch of s is cut off while it is journaled: a stage it was given is
\* dead, since the rows that name it are IN_FLIGHT.
LEMMA JournalCutImport ==
    ASSUME ImportInv, NEW s \in Streams, NEW m \in SUBSET send[s].members, JournalCut(s, m),
           UNCHANGED consent, SendsCut(s)
    PROVE  ImportInv'
<1>0. PICK n \in Nat : n = Len(stage)
  BY DEF ImportInv, Types
<1>1. send[s].phase = "prepare" /\ ResolveStage(s) /\ box' = Journaled(s, m)
  BY DEF JournalCut
<1>2. /\ send' \in [Streams -> Sends]
      /\ send'[s].phase = "none" /\ send'[s].stage = 0
      /\ \A t \in Streams : send'[t] = send[t] \/ (send'[t].phase = "none" /\ send'[t].stage = 0)
  BY DEF SendsCut
<1>3. /\ \A k \in Items : box[k].stage \in Nat /\ box[k].stage <= n
      /\ \A t \in Streams : send[t].stage \in Nat /\ send[t].stage <= n
      /\ stage \in Seq(Stages) /\ box \in [Items -> Rows]
  BY <1>0 DEF ImportInv, Types, Rows, Sends
<1>4. /\ stage' \in Seq(Stages) /\ Len(stage') \in {n, n + 1}
      /\ \A h \in 1..n : stage'[h] = stage[h]
      /\ StageId(s) \in 1..Len(stage')
      /\ Len(stage') = n \/ ~stage'[n + 1].committed
  BY <1>0, <1>1, ResolvedStages DEF ImportInv, Types
<1>5. /\ box' \in [Items -> Rows]
      /\ \A k \in Items :
            /\ box'[k].state = (IF k \in m THEN "IN_FLIGHT" ELSE box[k].state)
            /\ box'[k].stage = (IF k \in m THEN StageId(s) ELSE box[k].stage)
  BY <1>1, JournaledRows DEF ImportInv
<1>6. Types' /\ NewRows'
  <2>1. \A k \in Items : box'[k].stage <= Len(stage')
    BY <1>0, <1>3, <1>4, <1>5
  <2>2. \A t \in Streams : send'[t].stage <= Len(stage')
    BY <1>0, <1>2, <1>3, <1>4
  <2> QED
    BY <1>2, <1>4, <1>5, <2>1, <2>2 DEF ImportInv, Types, NewRows
<1>7. SendRows' /\ SentStaged'
  <2>1. \A t \in Streams : send[t].phase # "none" =>
            \A k \in send[t].members : k \in Items /\ StreamOf[k] = t
    BY DEF ImportInv, Types, Sends, SendRows
  <2>2. ASSUME NEW t \in Streams, send'[t].phase # "none", NEW k \in send'[t].members
        PROVE  /\ t # s /\ send'[t] = send[t] /\ k \in send[t].members
               /\ box'[k].state = box[k].state /\ box'[k].stage = box[k].stage
    <3>1. t # s /\ send'[t] = send[t] /\ k \in Items /\ k \notin m
      BY <1>1, <1>2, <2>1, <2>2
    <3> QED
      BY <1>5, <2>2, <3>1
  <2>3. SendRows'
    BY <2>2 DEF ImportInv, SendRows
  <2>4. SentStaged'
    BY <1>2 DEF ImportInv, SentStaged
  <2> QED
    BY <2>3, <2>4
<1>8. ASSUME NEW h \in 1..n, Live(h)' PROVE Live(h)
  <2>1. CASE \E k \in Items : box'[k].stage = h /\ box'[k].state # "IN_FLIGHT"
    BY <1>5, <2>1 DEF Live
  <2>2. CASE \E t \in Streams : send'[t].phase # "none" /\ send'[t].stage = h
    BY <1>2, <2>2 DEF Live
  <2> QED
    BY <1>4, <1>8, <2>1, <2>2 DEF Live
<1>9. Len(stage') = n \/ ~Live(n + 1)'
  <2>1. ASSUME NEW k \in Items, box'[k].stage = n + 1 PROVE box'[k].state = "IN_FLIGHT"
    BY <1>0, <1>3, <1>5, <2>1
  <2>2. \A t \in Streams : send'[t].stage # n + 1
    BY <1>0, <1>2, <1>3
  <2> QED
    BY <1>4, <2>1, <2>2 DEF Live
<1>10. \A k \in Items : box[k].stage # 0 => box'[k].stage # 0
  BY <1>4, <1>5
<1>11. LiveStaged' /\ LiveOnce'
  BY <1>0, <1>4, <1>8, <1>9, <1>10, LiveStep DEF ImportInv
<1> QED
  BY <1>6, <1>7, <1>11 DEF ImportInv

\* The batch of s is cut off while it is settled: no stage comes to life.
LEMMA SettleCutImport ==
    ASSUME ImportInv, NEW s \in Streams, NEW m \in SUBSET send[s].members, SettleCut(s, m),
           UNCHANGED consent, SendsCut(s)
    PROVE  ImportInv'
<1>1. PICK st \in {"RETRY", "BLOCKED", "ACKED"} : box' = Moved(m, st)
  BY DEF SettleCut, Outcomes
<1>2. /\ send' \in [Streams -> Sends]
      /\ send'[s].phase = "none" /\ send'[s].stage = 0
      /\ \A t \in Streams : send'[t] = send[t] \/ (send'[t].phase = "none" /\ send'[t].stage = 0)
  BY DEF SendsCut
<1>3. send[s].phase \in {"sending", "found", "committed"} /\ UNCHANGED stage
  BY DEF SettleCut
<1>4. /\ m \subseteq Items
      /\ \A k \in m : StreamOf[k] = s /\ box[k].stage = send[s].stage /\ box[k].state = "IN_FLIGHT"
      /\ \A t \in Streams : send[t].phase # "none" =>
            \A k \in send[t].members : k \in Items /\ StreamOf[k] = t
  BY <1>3 DEF ImportInv, Types, Sends, SendRows
<1>5. /\ box' \in [Items -> Rows]
      /\ \A k \in Items : /\ box'[k].state = (IF k \in m THEN st ELSE box[k].state)
                          /\ box'[k].stage = box[k].stage
  BY <1>1, MovedRows DEF ImportInv, States
<1>6. Types' /\ NewRows'
  <2>1. Types'
    BY <1>2, <1>3, <1>5 DEF ImportInv, Types
  <2>2. NewRows'
    BY <1>4, <1>5 DEF ImportInv, NewRows
  <2> QED
    BY <2>1, <2>2
<1>7. SentStaged'
  BY <1>2 DEF ImportInv, SentStaged
<1>8. SendRows'
  <2>1. ASSUME NEW t \in Streams, send'[t].phase # "none", NEW k \in send'[t].members
        PROVE  /\ t # s /\ send'[t] = send[t] /\ k \in send[t].members
               /\ box'[k].state = box[k].state /\ box'[k].stage = box[k].stage
    BY <1>2, <1>4, <1>5, <2>1
  <2> QED
    BY <2>1 DEF ImportInv, SendRows
<1>9. ASSUME NEW h \in 1..Len(stage), Live(h)' PROVE Live(h)
  <2>1. CASE \E k \in Items : box'[k].stage = h /\ box'[k].state # "IN_FLIGHT"
    <3>1. PICK k \in Items : box'[k].stage = h /\ box'[k].state # "IN_FLIGHT"
      BY <2>1
    <3>2. CASE k \in m
      BY <1>3, <1>4, <1>5, <3>1, <3>2 DEF Live
    <3>3. CASE k \notin m
      BY <1>5, <3>1, <3>3 DEF Live
    <3> QED
      BY <3>2, <3>3
  <2>2. CASE \E t \in Streams : send'[t].phase # "none" /\ send'[t].stage = h
    BY <1>2, <2>2 DEF Live
  <2> QED
    BY <1>3, <1>9, <2>1, <2>2 DEF Live
<1>10. LiveStaged' /\ LiveOnce'
  <2>1. Len(stage) \in Nat
    BY DEF ImportInv, Types
  <2> QED
    BY <1>3, <1>5, <1>9, <2>1, LiveStep DEF ImportInv
<1> QED
  BY <1>6, <1>7, <1>8, <1>10 DEF ImportInv

\* A row write fails in a living process: the one send is over.
LEMMA WriteFailsImport ==
    ASSUME ImportInv, NEW s \in Streams, WriteFails(s) PROVE ImportInv'
<1>1. send' = [send EXCEPT ![s] = NoSend] /\ UNCHANGED consent
  BY DEF WriteFails
<1>2. SendsCut(s)
  BY <1>1, SendEnds DEF ImportInv, SendsCut
<1>3. PICK m \in SUBSET send[s].members : JournalCut(s, m) \/ SettleCut(s, m)
  BY DEF WriteFails
<1> QED
  BY <1>1, <1>2, <1>3, JournalCutImport, SettleCutImport

\* The process stops: no send is left, and of an interrupted batch some rows
\* are written.
LEMMA RestartImport ==
    ASSUME ImportInv, Restart PROVE ImportInv'
<1>0. PICK n \in Nat : n = Len(stage)
  BY DEF ImportInv, Types
<1>1. /\ UNCHANGED consent
      /\ send' = [s \in Streams |-> NoSend]
  BY DEF Restart
<1>2. /\ send' \in [Streams -> Sends]
      /\ \A s \in Streams : send'[s].phase = "none" /\ send'[s].stage = 0
  BY <1>1 DEF NoSend, Sends, Phases
<1>3. CASE UNCHANGED <<box, stage>>
  <2>1. Types' /\ NewRows'
    BY <1>0, <1>1, <1>2, <1>3 DEF ImportInv, Types, NewRows
  <2>2. \A h \in 1..n : Live(h)' => Live(h)
    BY <1>2, <1>3 DEF Live
  <2>3. LiveStaged' /\ LiveOnce'
    BY <1>0, <1>3, <2>2, LiveStep DEF ImportInv
  <2>4. SendRows' /\ SentStaged'
    BY <1>2 DEF SendRows, SentStaged
  <2> QED
    BY <2>1, <2>3, <2>4 DEF ImportInv
<1>4. ASSUME NEW s \in Sending, NEW m \in SUBSET send[s].members,
             JournalCut(s, m) \/ SettleCut(s, m)
      PROVE  ImportInv'
  <2>1. s \in Streams /\ SendsCut(s)
    BY <1>2 DEF Sending, SendsCut
  <2> QED
    BY <1>1, <1>4, <2>1, JournalCutImport, SettleCutImport
<1> QED
  BY <1>3, <1>4 DEF Restart

\* One step of Next, by the part of the state it is about.
LEMMA NextImport ==
    ASSUME ImportInv, [Next]_vars PROVE ImportInv'
<1>1. ASSUME NEW i \in Items, Enqueue(i) \/ BackoffEnds(i) \/ Repair(i) PROVE ImportInv'
  <2>1. CASE Enqueue(i)
    BY <2>1, EnqueueImport
  <2>2. CASE BackoffEnds(i)
    <3>1. UNCHANGED <<consent, box, send, stage>>
      BY <2>2 DEF BackoffEnds, memory
    <3> QED
      BY <3>1, QuietImport DEF ImportInv, Types
  <2>3. CASE Repair(i)
    BY <2>3, RepairImport
  <2> QED
    BY <1>1, <2>1, <2>2, <2>3
<1>2. ASSUME NEW s \in Streams,
             \/ StartSend(s) \/ BlockFails(s) \/ SendStep(s) \/ WriteFails(s)
             \/ Pause(s) \/ Resume(s)
      PROVE  ImportInv'
  <2>1. CASE StartSend(s)
    BY <2>1, StartImport
  <2>2. CASE SendStep(s)
    BY <2>2, PrepareImport, PrepareFailsImport, FindImport, CommitImport, SettleImport DEF SendStep
  <2>3. CASE Pause(s) \/ Resume(s)
    <3>1. UNCHANGED <<consent, box, send, stage>>
      BY <2>3 DEF Pause, Resume, rows, memory
    <3> QED
      BY <3>1, QuietImport DEF ImportInv, Types
  <2>4. CASE WriteFails(s)
    BY <2>4, WriteFailsImport
  <2> QED
    BY <1>2, <2>1, <2>2, <2>3, <2>4, BlockFailsImport
<1>3. ASSUME NEW s \in Streams, NEW d \in Destinations, NEW e \in BOOLEAN,
             Configure(s, [enabled |-> e, dest |-> d])
      PROVE  ImportInv'
  <2>1. /\ consent' \in [Streams -> [enabled : BOOLEAN, dest : Destinations]]
        /\ UNCHANGED <<box, send, stage>>
    BY <1>3 DEF Configure, rows, memory, ImportInv, Types
  <2> QED
    BY <2>1, QuietImport
<1>4. CASE FlushStart \/ FlushEnd
  <2>1. UNCHANGED <<consent, box, send, stage>>
    BY <1>4 DEF FlushStart, FlushEnd, rows
  <2> QED
    BY <2>1, QuietImport DEF ImportInv, Types
<1>5. CASE Restart
  BY <1>5, RestartImport
<1>6. CASE UNCHANGED vars
  <2>1. UNCHANGED <<consent, box, send, stage>>
    BY <1>6 DEF vars, rows, memory
  <2> QED
    BY <2>1, QuietImport DEF ImportInv, Types
<1> QED
  BY <1>1, <1>2, <1>3, <1>4, <1>5, <1>6 DEF Next

\* A committed stage is live, so no two of them hold an item.
LEMMA LiveImported == ImportInv => ImportedOnce
  BY DEF ImportInv, LiveOnce, Live, ImportedOnce, Committed

\* No item is part of two committed stages, whatever the restarts, time-outs,
\* lost answers and failed calls: a resend finds the stage of the first
\* attempt in the row (runSend of outbox.ts and the sink of sinks.ts).
THEOREM OneImport == Spec => []ImportedOnce
<1>1. ImportInv /\ [Next]_vars => ImportInv'
  BY NextImport
<1> QED
  BY InitImport, LiveImported, <1>1, PTL DEF Spec

-----------------------------------------------------------------------------
(* ACKED means delivered, in one process: the invariant is inductive. *)

LEMMA InitDelivery == Init => Delivery
<1> SUFFICES ASSUME Init PROVE Delivery
  OBVIOUS
<1>1. \A k \in Items : box[k].state = "NONE" /\ box[k].stage = 0 /\ batchOf[k] = {}
  BY DEF Init, NoItem
<1>2. \A s \in Streams : send[s].phase = "none"
  BY DEF Init, NoSend
<1>3. batchOf \in [Items -> SUBSET Items]
  BY DEF Init
<1> QED
  BY <1>1, <1>2, <1>3
     DEF Delivery, BatchInv, RowInStage, OneStage, AnswerTrue, AckedCommitted

\* The steps that move no row to another stage: rows that become ACKED have a
\* committed one, a send that begins takes the stage of its rows, and an
\* answer is for a committed stage.
LEMMA KeptStages ==
    ASSUME ImportInv, Delivery, UNCHANGED batchOf, stuck \subseteq stuck',
           \A k \in Items : box'[k].stage = box[k].stage,
           \A g \in 1..Len(stage) : /\ stage'[g].items = stage[g].items
                                    /\ stage[g].committed => stage'[g].committed,
           \A k \in Items : box'[k].state = "ACKED" =>
               \/ box[k].state = "ACKED"
               \/ box[k].stage # 0 /\ stage'[box[k].stage].committed,
           \A s \in Streams : send'[s].phase = "prepare" =>
               \/ send'[s] = send[s]
               \/ \A k \in send'[s].members : k \in Items /\ box[k].stage = send'[s].stage,
           \A s \in Streams : send'[s].phase \in {"found", "committed"} =>
               send'[s] = send[s] \/ stage'[send'[s].stage].committed
    PROVE  Delivery'
<1>1. /\ Len(stage) \in Nat
      /\ \A k \in Items : box[k].stage \in Nat /\ box[k].stage <= Len(stage)
      /\ \A s \in Streams : /\ send[s].stage \in Nat /\ send[s].stage <= Len(stage)
                            /\ send[s].members \subseteq Items
  BY DEF ImportInv, Types, Rows, Sends
<1>2. BatchInv' /\ (batchOf \in [Items -> SUBSET Items])'
  BY DEF Delivery, BatchInv
<1>3. RowInStage'
  <2> SUFFICES ASSUME NEW k \in Items, box'[k].stage # 0
               PROVE  k \in stage'[box'[k].stage].items
    BY DEF RowInStage
  <2>1. box'[k].stage = box[k].stage
    OBVIOUS
  <2>2. box[k].stage \in 1..Len(stage) /\ k \in stage[box[k].stage].items
    BY <1>1, <2>1 DEF Delivery, RowInStage
  <2> QED
    BY <2>1, <2>2
<1>4. OneStage'
  BY <1>1 DEF Delivery, OneStage
<1>5. AnswerTrue'
  <2> SUFFICES ASSUME NEW s \in Streams, send'[s].phase \in {"found", "committed"}
               PROVE  stage'[send'[s].stage].committed
    BY DEF AnswerTrue
  <2>1. CASE send'[s] = send[s]
    <3>1. send[s].stage \in 1..Len(stage) /\ stage[send[s].stage].committed
      BY <1>1, <2>1 DEF ImportInv, SentStaged, Delivery, AnswerTrue
    <3>2. stage'[send[s].stage].committed
      BY <3>1
    <3> QED
      BY <2>1, <3>2
  <2> QED
    BY <2>1
<1>6. AckedCommitted'
  <2> SUFFICES ASSUME NEW k \in Items, box'[k].state = "ACKED"
               PROVE  box'[k].stage # 0 /\ stage'[box'[k].stage].committed
    BY DEF AckedCommitted
  <2>1. CASE box[k].state = "ACKED"
    <3>1. box[k].stage \in 1..Len(stage) /\ stage[box[k].stage].committed
      BY <1>1, <2>1 DEF Delivery, AckedCommitted
    <3>2. box[k].stage # 0 /\ stage'[box[k].stage].committed
      BY <3>1
    <3>3. box'[k].stage = box[k].stage
      OBVIOUS
    <3> QED
      BY <3>2, <3>3
  <2> QED
    BY <2>1
<1> QED
  BY <1>2, <1>3, <1>4, <1>5, <1>6 DEF Delivery

LEMMA EnqueueDelivery ==
    ASSUME ImportInv, Delivery, NEW i \in Items, Enqueue(i) PROVE Delivery'
<1>1. /\ UNCHANGED <<batchOf, send, stage, stuck>>
      /\ box' = [box EXCEPT ![i] = [NoItem EXCEPT !.state = "PENDING",
                                       !.dest = consent[StreamOf[i]].dest]]
      /\ box[i].stage = 0 /\ box \in [Items -> Rows]
  BY DEF Enqueue, ImportInv, NewRows, Types, bounds
<1>2. box'[i].stage = 0 /\ box'[i].state = "PENDING" /\ \A k \in Items : k # i => box'[k] = box[k]
  BY <1>1 DEF NoItem
<1> QED
  BY <1>1, <1>2, KeptStages

\* The rows of a batch name one stage, and the send takes it over.
LEMMA BatchOneStage ==
    ASSUME ImportInv, StuckRows, Delivery,
           NEW s, NEW m \in NextBatches(s), NEW i \in m, NEW g \in StagesOf(m, i)
    PROVE  \A k \in m : k \in Items /\ box[k].stage = g
<1>1. m \subseteq Items \ stuck
  BY BatchReady DEF Ready, Sendable, StuckRows
<1>2. \A j, k \in m : batchOf[j] = batchOf[k]
  <2> DEFINE prior == {batchOf[k] : k \in Ready(s)} \ {{}}
  <2>1. CASE prior # {}
    BY <2>1 DEF NextBatches
  <2>2. CASE prior = {}
    <3>1. \A k \in Ready(s) : batchOf[k] = {}
      BY <2>2
    <3> QED
      BY <3>1, BatchReady
  <2> QED
    BY <2>1, <2>2
<1>3. \A k \in m : box[k].stage = box[i].stage
  BY <1>1, <1>2 DEF Delivery, BatchInv
<1>4. g = box[i].stage
  <2>1. CASE box[i].stage # 0
    BY <2>1 DEF StagesOf
  <2>2. CASE box[i].stage = 0
    BY <1>1, <1>3, <2>2, BatchStage DEF ImportInv
  <2> QED
    BY <2>1, <2>2
<1> QED
  BY <1>1, <1>3, <1>4

LEMMA StartDelivery ==
    ASSUME ImportInv, StuckRows, Delivery, NEW s \in Streams, StartSend(s) PROVE Delivery'
<1>1. PICK m \in NextBatches(s) : \E i \in m :
         \/ /\ \E g \in StagesOf(m, i) : send' = [send EXCEPT ![s] = OutboxBatch(m, i, g)]
            /\ UNCHANGED box
         \/ /\ box' = Moved(m, "BLOCKED")
            /\ UNCHANGED send
  BY DEF StartSend
<1>2. UNCHANGED <<batchOf, stage, stuck>> /\ m \subseteq Items
  BY BatchReady DEF StartSend, Ready, bounds
<1>3. CASE box' = Moved(m, "BLOCKED") /\ UNCHANGED send
  <2>1. \A k \in Items : /\ box'[k].state = (IF k \in m THEN "BLOCKED" ELSE box[k].state)
                         /\ box'[k].stage = box[k].stage
    BY <1>3, MovedRows DEF ImportInv, States
  <2> QED
    BY <1>2, <1>3, <2>1, KeptStages
<1>4. ASSUME UNCHANGED box, NEW i \in m, NEW g \in StagesOf(m, i),
             send' = [send EXCEPT ![s] = OutboxBatch(m, i, g)]
      PROVE  Delivery'
  <2>1. \A k \in m : k \in Items /\ box[k].stage = g
    BY <1>4, BatchOneStage
  <2> DEFINE b == OutboxBatch(m, i, g)
  <2>2. b.phase = "prepare" /\ b.members = m /\ b.stage = g
    BY DEF OutboxBatch
  <2>3. send'[s] = b /\ \A t \in Streams : t # s => send'[t] = send[t]
    BY <1>4 DEF ImportInv, Types
  <2> HIDE DEF b
  <2> QED
    BY <1>2, <1>4, <2>1, <2>2, <2>3, KeptStages
<1> QED
  BY <1>1, <1>3, <1>4

\* A batch that is blocked in part moves no row that is in a send or stuck.
LEMMA BlockFailsDelivery ==
    ASSUME ImportInv, StuckRows, Delivery, NEW s \in Streams, BlockFails(s)
    PROVE  StuckRows' /\ Delivery'
<1>0. PICK m \in NextBatches(s) : \E n \in SUBSET m : box' = Moved(n, "BLOCKED")
  BY DEF BlockFails
<1>1. PICK n \in SUBSET m : box' = Moved(n, "BLOCKED")
  BY <1>0
<1>2. UNCHANGED <<batchOf, send, stage, stuck>>
  BY DEF BlockFails, memory
<1>3. \A k \in n : k \in Items /\ box[k].state # "IN_FLIGHT"
  BY BatchReady DEF Ready, Sendable
<1>4. \A k \in Items : /\ box'[k].state = (IF k \in n THEN "BLOCKED" ELSE box[k].state)
                       /\ box'[k].stage = box[k].stage
  BY <1>1, <1>3, MovedRows DEF ImportInv, States
<1>5. Delivery'
  BY <1>2, <1>3, <1>4, KeptStages
<1>6. StuckRows'
  BY <1>2, <1>3, <1>4 DEF StuckRows
<1> QED BY <1>5, <1>6

LEMMA PrepareDelivery ==
    ASSUME ImportInv, Delivery, NEW s \in Streams, Prepare(s) PROVE Delivery'
<1>0. PICK n \in Nat : n = Len(stage)
  BY DEF ImportInv, Types
<1> DEFINE m == send[s].members
           g == StageId(s)
<1>1. /\ send[s].phase = "prepare" /\ ResolveStage(s)
      /\ send' = [send EXCEPT ![s].phase = "sending", ![s].stage = g]
      /\ box' = Journaled(s, m)
      /\ batchOf' = [k \in Items |-> IF k \in m THEN m ELSE batchOf[k]]
      /\ UNCHANGED stuck
  BY DEF Prepare, bounds
<1>2. /\ \A h \in 1..n : stage'[h] = stage[h]
      /\ g \in Nat /\ g # 0
      /\ send[s].stage # 0 => stage' = stage /\ g = send[s].stage
      /\ send[s].stage = 0 => g = n + 1 /\ stage'[n + 1].items = m
  BY <1>0, <1>1, ResolvedStages DEF ImportInv, Types
<1>3. \A k \in Items :
         /\ box'[k].state = (IF k \in m THEN "IN_FLIGHT" ELSE box[k].state)
         /\ box'[k].stage = (IF k \in m THEN g ELSE box[k].stage)
  BY <1>1, JournaledRows DEF ImportInv
<1>4. /\ m \subseteq Items
      /\ \A t \in Streams : send[t].phase # "none" =>
            \A k \in send[t].members : k \in Items /\ StreamOf[k] = t
  BY <1>1 DEF ImportInv, Types, Sends, SendRows
<1>5. /\ send'[s].phase = "sending"
      /\ \A t \in Streams : t # s => send'[t] = send[t]
  <2>1. send' = [send EXCEPT ![s] = [send[s] EXCEPT !.phase = "sending", !.stage = g]]
    BY <1>1
  <2>2. [send[s] EXCEPT !.phase = "sending", !.stage = g].phase = "sending"
    BY DEF ImportInv, Types, Sends
  <2> QED
    BY <2>1, <2>2 DEF ImportInv, Types
<1>6. \A k \in m : box[k].stage = send[s].stage
  BY <1>1 DEF Delivery, OneStage
<1>7. /\ \A k \in Items : box[k].stage \in Nat /\ box[k].stage <= n
      /\ \A t \in Streams : send[t].stage \in Nat /\ send[t].stage <= n
  BY <1>0 DEF ImportInv, Types, Rows, Sends
<1> HIDE DEF m, g
<1>8. \A k \in Items : batchOf'[k] = (IF k \in m THEN m ELSE batchOf[k])
  BY <1>1
<1>9. (batchOf \in [Items -> SUBSET Items])'
  BY <1>1, <1>4 DEF Delivery
<1>10. BatchInv'
  <2>1. ASSUME NEW k \in Items
        PROVE  /\ batchOf'[k] # {} => k \in batchOf'[k]
               /\ box'[k].stage # 0 => batchOf'[k] # {}
    <3>1. CASE k \in m
      BY <1>8, <3>1
    <3>2. CASE k \notin m
      BY <1>3, <1>8, <3>2 DEF Delivery, BatchInv
    <3> QED
      BY <3>1, <3>2
  <2>2. ASSUME NEW j \in Items, j \notin m PROVE batchOf[j] # m \/ m = {}
    BY <2>2 DEF Delivery, BatchInv
  <2>3. ASSUME NEW j \in Items \ stuck, NEW k \in Items \ stuck, batchOf'[j] = batchOf'[k]
        PROVE  box'[j].stage = box'[k].stage
    <3>1. CASE j \in m /\ k \in m
      BY <1>3, <3>1
    <3>2. CASE j \notin m /\ k \notin m
      BY <1>3, <1>8, <2>3, <3>2 DEF Delivery, BatchInv
    <3>3. CASE j \notin m /\ k \in m
      BY <1>8, <2>2, <2>3, <3>3
    <3>4. CASE j \in m /\ k \notin m
      BY <1>8, <2>2, <2>3, <3>4
    <3> QED
      BY <3>1, <3>2, <3>3, <3>4
  <2> QED
    BY <1>1, <2>1, <2>3 DEF BatchInv
<1>11. RowInStage'
  <2> SUFFICES ASSUME NEW k \in Items, box'[k].stage # 0
               PROVE  k \in stage'[box'[k].stage].items
    BY DEF RowInStage
  <2>1. CASE k \in m /\ send[s].stage = 0
    BY <1>2, <1>3, <2>1
  <2>2. CASE k \in m /\ send[s].stage # 0
    BY <1>2, <1>3, <1>6, <2>2 DEF Delivery, RowInStage
  <2>3. CASE k \notin m
    <3>1. box[k].stage \in 1..n /\ box'[k].stage = box[k].stage
      BY <1>3, <1>7, <2>3
    <3> QED
      BY <1>2, <3>1 DEF Delivery, RowInStage
  <2> QED
    BY <2>1, <2>2, <2>3
<1>12. OneStage'
  <2> SUFFICES ASSUME NEW t \in Streams, send'[t].phase = "prepare", NEW k \in send'[t].members
               PROVE  box'[k].stage = send'[t].stage
    BY DEF OneStage
  <2>1. t # s /\ send'[t] = send[t]
    BY <1>5
  <2>2. k \in Items /\ k \notin m
    BY <1>1, <1>4, <2>1 DEF m
  <2> QED
    BY <1>3, <2>1, <2>2 DEF Delivery, OneStage
<1>13. AnswerTrue'
  <2> SUFFICES ASSUME NEW t \in Streams, send'[t].phase \in {"found", "committed"}
               PROVE  stage'[send'[t].stage].committed
    BY DEF AnswerTrue
  <2>1. send'[t] = send[t] /\ send[t].stage \in 1..n /\ stage[send[t].stage].committed
    BY <1>5, <1>7 DEF ImportInv, SentStaged, Delivery, AnswerTrue
  <2> QED
    BY <1>2, <2>1
<1>14. AckedCommitted'
  <2> SUFFICES ASSUME NEW k \in Items, box'[k].state = "ACKED"
               PROVE  box'[k].stage # 0 /\ stage'[box'[k].stage].committed
    BY DEF AckedCommitted
  <2>1. k \notin m /\ box[k].stage \in 1..n /\ stage[box[k].stage].committed
    BY <1>3, <1>7 DEF Delivery, AckedCommitted
  <2> QED
    BY <1>2, <1>3, <2>1
<1> QED
  BY <1>9, <1>10, <1>11, <1>12, <1>13, <1>14 DEF Delivery

LEMMA PrepareFailsDelivery ==
    ASSUME ImportInv, Delivery, NEW s \in Streams, PrepareFails(s) PROVE Delivery'
<1>1. /\ UNCHANGED stage \/ ResolveStage(s)
      /\ send' = [send EXCEPT ![s] = NoSend] /\ UNCHANGED <<box, batchOf, stuck>>
  BY DEF PrepareFails, rows, bounds
<1>2. \A g \in 1..Len(stage) : stage'[g] = stage[g]
  BY <1>1, ResolvedStages DEF ImportInv
<1>3. send'[s].phase = "none" /\ \A t \in Streams : t # s => send'[t] = send[t]
  BY <1>1, SendEnds DEF ImportInv
<1> QED
  BY <1>1, <1>2, <1>3, KeptStages

LEMMA FindDelivery ==
    ASSUME ImportInv, Delivery, NEW s \in Streams, FindCommitted(s) PROVE Delivery'
<1>1. /\ send[s].phase = "sending" /\ send' = [send EXCEPT ![s].phase = "found"]
      /\ stage[send[s].stage].committed /\ UNCHANGED <<box, batchOf, stage, stuck>>
  BY DEF FindCommitted, rows, bounds
<1>2. /\ send'[s].phase = "found" /\ send'[s].stage = send[s].stage
      /\ \A t \in Streams : t # s => send'[t] = send[t]
  BY <1>1 DEF ImportInv, Types, Sends
<1> QED
  BY <1>1, <1>2, KeptStages

LEMMA CommitDelivery ==
    ASSUME ImportInv, Delivery, NEW s \in Streams, CommitStage(s) PROVE Delivery'
<1> DEFINE g == send[s].stage
<1>1. /\ send[s].phase = "sending" /\ send' = [send EXCEPT ![s].phase = "committed"]
      /\ stage' = [stage EXCEPT ![g].committed = TRUE] /\ UNCHANGED <<box, batchOf, stuck>>
  BY DEF CommitStage, rows, bounds
<1>2. /\ send'[s].phase = "committed" /\ send'[s].stage = g
      /\ \A t \in Streams : t # s => send'[t] = send[t]
  BY <1>1 DEF ImportInv, Types, Sends
<1>3. Len(stage) \in Nat /\ g \in 1..Len(stage) /\ stage \in Seq(Stages) /\ stage[g] \in Stages
  <2>1. g \in Nat /\ g <= Len(stage) /\ g # 0 /\ Len(stage) \in Nat /\ stage \in Seq(Stages)
    BY <1>1 DEF ImportInv, Types, Sends, SentStaged
  <2> QED
    BY <2>1
<1>4. /\ stage'[g].committed
      /\ \A h \in 1..Len(stage) : /\ stage'[h].items = stage[h].items
                                  /\ stage[h].committed => stage'[h].committed
  <2> DEFINE c == [stage[g] EXCEPT !.committed = TRUE]
  <2>1. c.items = stage[g].items /\ c.committed
    BY <1>3 DEF Stages
  <2>2. stage' = [stage EXCEPT ![g] = c]
    BY <1>1
  <2> HIDE DEF c
  <2> QED
    BY <1>3, <2>1, <2>2
<1> QED
  BY <1>1, <1>2, <1>4, KeptStages

LEMMA SettleDelivery ==
    ASSUME ImportInv, Delivery, NEW s \in Streams, NEW st \in {"ACKED", "RETRY", "BLOCKED"}, Settle(s, st)
    PROVE  Delivery'
<1> DEFINE m == send[s].members
<1>1. /\ send[s].phase \in {"sending", "found", "committed"} /\ box' = Moved(m, st)
      /\ st \in Outcomes(s)
      /\ send' = [send EXCEPT ![s] = NoSend] /\ UNCHANGED <<batchOf, stage, stuck>>
  BY DEF Settle, bounds
<1>2. send'[s].phase = "none" /\ \A t \in Streams : t # s => send'[t] = send[t]
  BY <1>1, SendEnds DEF ImportInv
<1>3. \A k \in Items : /\ box'[k].state = (IF k \in m THEN st ELSE box[k].state)
                       /\ box'[k].stage = box[k].stage
  BY <1>1, MovedRows DEF ImportInv, States
<1>4. ASSUME st = "ACKED", NEW k \in m
      PROVE  box[k].stage # 0 /\ stage[box[k].stage].committed
  <2>1. box[k].stage = send[s].stage /\ send[s].stage # 0
    BY <1>1 DEF ImportInv, SendRows, SentStaged
  <2>2. send[s].phase \in {"found", "committed"}
    BY <1>1, <1>4 DEF Outcomes, AnswersStored
  <2> QED
    BY <2>1, <2>2 DEF Delivery, AnswerTrue
<1> HIDE DEF m
<1> QED
  BY <1>1, <1>2, <1>3, <1>4, KeptStages

\* The send of s is cut off while its batch is journaled.  The rows that are
\* written are stuck; the one whose write failed, and those after it, name
\* what the batch named.
LEMMA JournalCutDelivery ==
    ASSUME ImportInv, Delivery, NEW s \in Streams, WriteFails(s),
           NEW m \in SUBSET send[s].members, NEW f \in send[s].members \ m, JournalCut(s, m),
           batchOf' = [i \in Items |-> IF i \in m \cup {f} THEN send[s].members ELSE batchOf[i]]
    PROVE  Delivery'
<1>0. PICK n \in Nat : n = Len(stage)
  BY DEF ImportInv, Types
<1> DEFINE w == send[s].members
           g == StageId(s)
<1>1. /\ send[s].phase = "prepare" /\ ResolveStage(s) /\ box' = Journaled(s, m)
      /\ send' = [send EXCEPT ![s] = NoSend]
      /\ stuck' = stuck \cup {i \in w : box'[i].state = "IN_FLIGHT"}
  BY DEF JournalCut, WriteFails
<1>2. /\ \A h \in 1..n : stage'[h] = stage[h]
      /\ g \in Nat /\ g # 0
      /\ send[s].stage # 0 => stage' = stage /\ g = send[s].stage
      /\ send[s].stage = 0 => g = n + 1 /\ stage'[n + 1].items = w
  BY <1>0, <1>1, ResolvedStages DEF ImportInv, Types
<1>3. \A k \in Items :
         /\ box'[k].state = (IF k \in m THEN "IN_FLIGHT" ELSE box[k].state)
         /\ box'[k].stage = (IF k \in m THEN g ELSE box[k].stage)
  BY <1>1, JournaledRows DEF ImportInv
<1>4. /\ w \subseteq Items /\ m \subseteq w /\ f \in w
      /\ \A t \in Streams : send[t].phase # "none" =>
            \A k \in send[t].members : k \in Items /\ StreamOf[k] = t
  BY <1>1 DEF ImportInv, Types, Sends, SendRows
<1>5. /\ send'[s].phase = "none"
      /\ \A t \in Streams : t # s => send'[t] = send[t]
  BY <1>1, SendEnds DEF ImportInv
<1>6. \A k \in w : box[k].stage = send[s].stage
  BY <1>1 DEF Delivery, OneStage
<1>7. /\ \A k \in Items : box[k].stage \in Nat /\ box[k].stage <= n
      /\ \A t \in Streams : send[t].stage \in Nat /\ send[t].stage <= n
  BY <1>0 DEF ImportInv, Types, Rows, Sends
<1>8. \A k \in Items : batchOf'[k] = (IF k \in m \cup {f} THEN w ELSE batchOf[k])
  OBVIOUS
<1>9. (batchOf \in [Items -> SUBSET Items])'
  BY <1>4 DEF Delivery
<1>10. \A k \in Items \ stuck' : k \in Items \ stuck /\ k \notin m
  BY <1>1, <1>3, <1>4
<1> HIDE DEF w, g
<1>11. BatchInv'
  <2>1. ASSUME NEW k \in Items
        PROVE  /\ batchOf'[k] # {} => k \in batchOf'[k]
               /\ box'[k].stage # 0 => batchOf'[k] # {}
    <3>1. CASE k \in m \cup {f}
      BY <1>4, <1>8, <3>1
    <3>2. CASE k \notin m \cup {f}
      BY <1>3, <1>8, <3>2 DEF Delivery, BatchInv
    <3> QED
      BY <3>1, <3>2
  <2>2. ASSUME NEW j \in Items, batchOf[j] = w PROVE box[j].stage = send[s].stage
    BY <1>4, <1>6, <2>2 DEF Delivery, BatchInv
  <2>3. ASSUME NEW j \in Items \ stuck', NEW k \in Items \ stuck', batchOf'[j] = batchOf'[k]
        PROVE  box'[j].stage = box'[k].stage
    <3>1. /\ j \in Items \ stuck /\ k \in Items \ stuck /\ j \notin m /\ k \notin m
          /\ box'[j].stage = box[j].stage /\ box'[k].stage = box[k].stage
      BY <1>3, <1>10
    <3>2. CASE j = f
      BY <1>4, <1>6, <1>8, <2>2, <2>3, <3>1, <3>2
    <3>3. CASE k = f
      BY <1>4, <1>6, <1>8, <2>2, <2>3, <3>1, <3>3
    <3>4. CASE j # f /\ k # f
      BY <1>8, <2>3, <3>1, <3>4 DEF Delivery, BatchInv
    <3> QED
      BY <3>2, <3>3, <3>4
  <2> QED
    BY <2>1, <2>3 DEF BatchInv
<1>12. RowInStage'
  <2> SUFFICES ASSUME NEW k \in Items, box'[k].stage # 0
               PROVE  k \in stage'[box'[k].stage].items
    BY DEF RowInStage
  <2>1. CASE k \in m /\ send[s].stage = 0
    BY <1>2, <1>3, <1>4, <2>1
  <2>2. CASE k \in m /\ send[s].stage # 0
    BY <1>2, <1>3, <1>4, <1>6, <2>2 DEF Delivery, RowInStage
  <2>3. CASE k \notin m
    <3>1. box[k].stage \in 1..n /\ box'[k].stage = box[k].stage
      BY <1>3, <1>7, <2>3
    <3> QED
      BY <1>2, <3>1 DEF Delivery, RowInStage
  <2> QED
    BY <2>1, <2>2, <2>3
<1>13. OneStage'
  <2> SUFFICES ASSUME NEW t \in Streams, send'[t].phase = "prepare", NEW k \in send'[t].members
               PROVE  box'[k].stage = send'[t].stage
    BY DEF OneStage
  <2>1. t # s /\ send'[t] = send[t]
    BY <1>5
  <2>2. k \in Items /\ k \notin m
    BY <1>1, <1>4, <2>1 DEF w
  <2> QED
    BY <1>3, <2>1, <2>2 DEF Delivery, OneStage
<1>14. AnswerTrue'
  <2> SUFFICES ASSUME NEW t \in Streams, send'[t].phase \in {"found", "committed"}
               PROVE  stage'[send'[t].stage].committed
    BY DEF AnswerTrue
  <2>1. send'[t] = send[t] /\ send[t].stage \in 1..n /\ stage[send[t].stage].committed
    BY <1>5, <1>7 DEF ImportInv, SentStaged, Delivery, AnswerTrue
  <2> QED
    BY <1>2, <2>1
<1>15. AckedCommitted'
  <2> SUFFICES ASSUME NEW k \in Items, box'[k].state = "ACKED"
               PROVE  box'[k].stage # 0 /\ stage'[box'[k].stage].committed
    BY DEF AckedCommitted
  <2>1. k \notin m /\ box[k].stage \in 1..n /\ stage[box[k].stage].committed
    BY <1>3, <1>7 DEF Delivery, AckedCommitted
  <2> QED
    BY <1>2, <1>3, <2>1
<1> QED
  BY <1>9, <1>11, <1>12, <1>13, <1>14, <1>15 DEF Delivery

\* The send of s is cut off while its rows are settled: those that say ACKED
\* are in the committed stage, as if all were.
LEMMA SettleCutDelivery ==
    ASSUME ImportInv, Delivery, NEW s \in Streams, WriteFails(s),
           NEW m \in SUBSET send[s].members, SettleCut(s, m), UNCHANGED batchOf
    PROVE  Delivery'
<1>1. /\ send[s].phase \in {"sending", "found", "committed"} /\ UNCHANGED stage
      /\ send' = [send EXCEPT ![s] = NoSend] /\ stuck \subseteq stuck'
  BY DEF SettleCut, WriteFails
<1>2. PICK st \in Outcomes(s) : box' = Moved(m, st)
  BY DEF SettleCut
<1>3. send'[s].phase = "none" /\ \A t \in Streams : t # s => send'[t] = send[t]
  BY <1>1, SendEnds DEF ImportInv
<1>4. \A k \in Items : /\ box'[k].state = (IF k \in m THEN st ELSE box[k].state)
                       /\ box'[k].stage = box[k].stage
  <2>1. st \in States
    BY DEF Outcomes, States
  <2> QED
    BY <1>2, <2>1, MovedRows DEF ImportInv
<1>5. ASSUME st = "ACKED", NEW k \in m
      PROVE  box[k].stage # 0 /\ stage[box[k].stage].committed
  <2>1. box[k].stage = send[s].stage /\ send[s].stage # 0
    BY <1>1 DEF ImportInv, SendRows, SentStaged
  <2>2. send[s].phase \in {"found", "committed"}
    BY <1>5 DEF Outcomes, AnswersStored
  <2> QED
    BY <2>1, <2>2 DEF Delivery, AnswerTrue
<1> QED
  BY <1>1, <1>3, <1>4, <1>5, KeptStages

LEMMA WriteFailsDelivery ==
    ASSUME ImportInv, Delivery, NEW s \in Streams, WriteFails(s) PROVE Delivery'
<1>1. PICK m \in SUBSET send[s].members : \E f \in send[s].members \ m :
         \/ /\ JournalCut(s, m)
            /\ batchOf' = [i \in Items |-> IF i \in m \cup {f} THEN send[s].members
                                           ELSE batchOf[i]]
         \/ SettleCut(s, m) /\ UNCHANGED batchOf
  BY DEF WriteFails
<1> QED
  BY <1>1, JournalCutDelivery, SettleCutDelivery

\* A row that is stuck stays so: it is IN_FLIGHT, which no send begins with.
LEMMA StuckStep ==
    ASSUME StuckRows, UNCHANGED stuck,
           \A k \in stuck : box'[k].state = "IN_FLIGHT",
           \A t \in Streams : send'[t].phase # "none" =>
               \/ send[t].phase # "none" /\ send'[t].members = send[t].members
               \/ \A k \in send'[t].members : box[k].state # "IN_FLIGHT"
    PROVE  StuckRows'
  BY DEF StuckRows

LEMMA SendStuck ==
    ASSUME ImportInv, StuckRows, NEW s \in Streams, StartSend(s) \/ SendStep(s) PROVE StuckRows'
<1>1. UNCHANGED stuck
  BY DEF StartSend, SendStep, Prepare, PrepareFails, FindCommitted, CommitStage, Settle, bounds
<1>2. ASSUME NEW k \in stuck PROVE k \in Items /\ box[k].state = "IN_FLIGHT"
  BY DEF StuckRows
<1>3. ASSUME send[s].phase # "none", NEW k \in stuck PROVE k \notin send[s].members
  BY <1>3 DEF StuckRows
<1>4. CASE StartSend(s)
  <2>1. PICK m \in NextBatches(s) : \E i \in m :
           \/ /\ \E g \in StagesOf(m, i) : send' = [send EXCEPT ![s] = OutboxBatch(m, i, g)]
              /\ UNCHANGED box
           \/ /\ box' = Moved(m, "BLOCKED")
              /\ UNCHANGED send
    BY <1>4 DEF StartSend
  <2>2. \A k \in m : k \in Items /\ box[k].state # "IN_FLIGHT"
    BY BatchReady DEF Ready, Sendable
  <2>3. CASE box' = Moved(m, "BLOCKED") /\ UNCHANGED send
    <3>1. \A k \in Items : box'[k].state = (IF k \in m THEN "BLOCKED" ELSE box[k].state)
      BY <2>3, MovedRows DEF ImportInv, States
    <3> QED
      BY <1>1, <1>2, <2>2, <2>3, <3>1, StuckStep
  <2>4. ASSUME UNCHANGED box, NEW i \in m, NEW g \in StagesOf(m, i),
               send' = [send EXCEPT ![s] = OutboxBatch(m, i, g)]
        PROVE  StuckRows'
    <3>1. \A t \in Streams : send'[t] = send[t] \/ send'[t].members = m
      BY <2>4 DEF OutboxBatch, ImportInv, Types
    <3> QED
      BY <1>1, <1>2, <2>2, <2>4, <3>1, StuckStep
  <2> QED
    BY <2>1, <2>3, <2>4
<1>5. CASE SendStep(s)
  <2>1. \A t \in Streams : send'[t].phase # "none" =>
            send[t].phase # "none" /\ send'[t].members = send[t].members
    <3>1. CASE PrepareFails(s) \/ \E st \in {"ACKED", "RETRY", "BLOCKED"} : Settle(s, st)
      <4>1. send' = [send EXCEPT ![s] = NoSend]
        BY <3>1 DEF PrepareFails, Settle
      <4> QED
        BY <4>1, SendEnds DEF ImportInv
    <3>2. CASE FindCommitted(s) \/ CommitStage(s)
      <4>1. send[s].phase = "sending" /\ \E ph \in {"found", "committed"} : send' = [send EXCEPT ![s].phase = ph]
        BY <3>2 DEF FindCommitted, CommitStage
      <4>2. PICK ph \in {"found", "committed"} : send' = [send EXCEPT ![s].phase = ph]
        BY <4>1
      <4> QED
        BY <4>1, <4>2, PhaseStep DEF ImportInv, Phases
    <3>3. CASE Prepare(s)
      <4> DEFINE b == [send[s] EXCEPT !.phase = "sending", !.stage = StageId(s)]
      <4>1. send[s].phase = "prepare" /\ send' = [send EXCEPT ![s] = b]
        BY <3>3 DEF Prepare
      <4>2. b.members = send[s].members
        BY DEF ImportInv, Types, Sends
      <4> HIDE DEF b
      <4>3. send'[s] = b /\ \A t \in Streams : t # s => send'[t] = send[t]
        BY <4>1 DEF ImportInv, Types
      <4> QED
        BY <4>1, <4>2, <4>3
    <3> QED
      BY <1>5, <3>1, <3>2, <3>3 DEF SendStep
  <2>2. \A k \in stuck : box'[k].state = "IN_FLIGHT"
    <3>1. CASE Prepare(s)
      <4>1. \A k \in Items : box'[k].state \in {"IN_FLIGHT", box[k].state}
        BY <3>1, JournaledRows DEF Prepare, ImportInv
      <4> QED
        BY <1>2, <4>1
    <3>2. CASE PrepareFails(s) \/ FindCommitted(s) \/ CommitStage(s)
      BY <1>2, <3>2 DEF PrepareFails, FindCommitted, CommitStage, rows
    <3>3. ASSUME NEW st \in {"ACKED", "RETRY", "BLOCKED"}, Settle(s, st)
          PROVE  \A k \in stuck : box'[k].state = "IN_FLIGHT"
      <4>1. send[s].phase # "none" /\ box' = Moved(send[s].members, st)
        BY <3>3 DEF Settle
      <4>2. \A k \in Items : box'[k].state = (IF k \in send[s].members THEN st ELSE box[k].state)
        BY <4>1, MovedRows DEF ImportInv, States
      <4> QED
        BY <1>2, <1>3, <4>1, <4>2
    <3> QED
      BY <1>5, <3>1, <3>2, <3>3 DEF SendStep
  <2> QED
    BY <1>1, <2>1, <2>2, StuckStep
<1> QED
  BY <1>4, <1>5

LEMMA CutStuck ==
    ASSUME ImportInv, StuckRows, NEW s \in Streams, WriteFails(s) PROVE StuckRows'
<1>1. /\ send' = [send EXCEPT ![s] = NoSend]
      /\ stuck' = stuck \cup {i \in send[s].members : box'[i].state = "IN_FLIGHT"}
  BY DEF WriteFails
<1>2. /\ send'[s].phase = "none" /\ \A t \in Streams : t # s => send'[t] = send[t]
  BY <1>1, SendEnds DEF ImportInv
<1>3. PICK m \in SUBSET send[s].members : JournalCut(s, m) \/ SettleCut(s, m)
  BY DEF WriteFails
<1>4. send[s].phase # "none"
  BY <1>3 DEF JournalCut, SettleCut
<1>5. \A t \in Streams : send[t].phase # "none" =>
         \A k \in send[t].members : k \in Items /\ StreamOf[k] = t
  BY DEF ImportInv, Types, Sends, SendRows
<1>6. ASSUME NEW k \in Items PROVE box'[k].state = box[k].state \/ k \in send[s].members
  <2>1. CASE JournalCut(s, m)
    BY <2>1, JournaledRows DEF JournalCut, ImportInv
  <2>2. CASE SettleCut(s, m)
    <3>1. PICK st \in States : box' = Moved(m, st)
      BY <2>2 DEF SettleCut, Outcomes, States
    <3> QED
      BY <3>1, MovedRows DEF ImportInv
  <2> QED
    BY <1>3, <2>1, <2>2
<1>7. ASSUME NEW k \in stuck'
      PROVE  /\ k \in Items /\ box'[k].state = "IN_FLIGHT"
             /\ \A t \in Streams : send'[t].phase # "none" => k \notin send'[t].members
  <2>1. CASE k \in stuck
    <3>1. k \in Items /\ box[k].state = "IN_FLIGHT"
          /\ \A t \in Streams : send[t].phase # "none" => k \notin send[t].members
      BY <2>1 DEF StuckRows
    <3> QED
      BY <1>2, <1>4, <1>6, <3>1
  <2>2. CASE k \in send[s].members /\ box'[k].state = "IN_FLIGHT"
    BY <1>2, <1>4, <1>5, <2>2
  <2> QED
    BY <1>1, <1>7, <2>1, <2>2
<1> QED
  BY <1>7 DEF StuckRows

\* The steps about neither a send nor a stop.
LEMMA QuietDelivery ==
    ASSUME ImportInv, StuckRows, Delivery, UNCHANGED <<batchOf, send, stage, stuck>>,
           \A k \in Items : /\ box'[k].stage = box[k].stage
                            /\ box'[k].state = "ACKED" => box[k].state = "ACKED"
                            /\ box[k].state = "IN_FLIGHT" => box'[k].state = "IN_FLIGHT"
    PROVE  StuckRows' /\ Delivery'
<1>1. Delivery'
  BY KeptStages
<1>2. \A k \in stuck : box'[k].state = "IN_FLIGHT"
  BY DEF StuckRows
<1> QED
  BY <1>1, <1>2, StuckStep

LEMMA NextDelivery ==
    ASSUME MaxRestarts = 0, DeliveryInv, [Next]_vars
    PROVE  StuckRows' /\ Delivery' /\ restarts' = 0
<1> USE DEF DeliveryInv
<1>1. ASSUME NEW i \in Items, Enqueue(i) \/ BackoffEnds(i) \/ Repair(i)
      PROVE  StuckRows' /\ Delivery' /\ restarts' = 0
  <2>1. CASE Enqueue(i)
    <3>1. UNCHANGED <<batchOf, send, stage, stuck, restarts>>
      BY <2>1 DEF Enqueue, bounds
    <3>2. \A k \in stuck : box'[k].state = "IN_FLIGHT"
      BY <2>1 DEF Enqueue, StuckRows, ImportInv, Types
    <3>3. StuckRows'
      BY <3>1, <3>2, StuckStep
    <3> QED
      BY <2>1, <3>1, <3>3, EnqueueDelivery
  <2>2. CASE BackoffEnds(i)
    BY <2>2, QuietDelivery DEF BackoffEnds, memory, bounds
  <2>3. CASE Repair(i)
    <3>1. \A k \in Items : /\ box'[k].state = (IF k \in {i} THEN "PENDING" ELSE box[k].state)
                           /\ box'[k].stage = box[k].stage
      BY <2>3, MovedRows DEF Repair, ImportInv, States
    <3> QED
      BY <2>3, <3>1, QuietDelivery DEF Repair, memory, bounds
  <2> QED
    BY <1>1, <2>1, <2>2, <2>3
<1>2. ASSUME NEW s \in Streams,
             \/ StartSend(s) \/ BlockFails(s) \/ SendStep(s) \/ WriteFails(s)
             \/ Pause(s) \/ Resume(s)
      PROVE  StuckRows' /\ Delivery' /\ restarts' = 0
  <2>1. CASE StartSend(s)
    BY <2>1, StartDelivery, SendStuck DEF StartSend, bounds
  <2>2. CASE SendStep(s)
    <3>1. restarts' = 0
      BY <2>2 DEF SendStep, Prepare, PrepareFails, FindCommitted, CommitStage, Settle, bounds
    <3>2. StuckRows'
      BY <2>2, SendStuck
    <3> QED
      BY <2>2, <3>1, <3>2, PrepareDelivery, PrepareFailsDelivery, FindDelivery, CommitDelivery,
         SettleDelivery DEF SendStep
  <2>3. CASE WriteFails(s)
    <3>1. restarts' = 0
      BY <2>3 DEF WriteFails
    <3> QED
      BY <2>3, <3>1, WriteFailsDelivery, CutStuck
  <2>4. CASE Pause(s) \/ Resume(s)
    BY <2>4, QuietDelivery DEF Pause, Resume, rows, memory, bounds
  <2>5. CASE BlockFails(s)
    BY <2>5, BlockFailsDelivery DEF BlockFails
  <2> QED
    BY <1>2, <2>1, <2>2, <2>3, <2>4, <2>5
<1>3. ASSUME NEW s \in Streams, NEW d \in Destinations, NEW e \in BOOLEAN,
             Configure(s, [enabled |-> e, dest |-> d])
      PROVE  StuckRows' /\ Delivery' /\ restarts' = 0
  BY <1>3, QuietDelivery DEF Configure, rows, memory
<1>4. CASE FlushStart \/ FlushEnd
  BY <1>4, QuietDelivery DEF FlushStart, FlushEnd, rows, bounds
<1>5. ~Restart
  BY DEF Restart
<1>6. CASE UNCHANGED vars
  <2>1. UNCHANGED <<box, batchOf, send, stage, stuck, restarts>>
    BY <1>6 DEF vars, rows, memory, bounds
  <2> QED
    BY <2>1, QuietDelivery
<1> QED
  BY <1>1, <1>2, <1>3, <1>4, <1>5, <1>6 DEF Next

LEMMA DeliveredAcked == DeliveryInv => AckedDelivered
<1> SUFFICES ASSUME DeliveryInv, NEW k \in Items, box[k].state = "ACKED"
             PROVE  \E g \in Committed : k \in stage[g].items
  BY DEF AckedDelivered, InState
<1>1. /\ box[k].stage # 0 /\ stage[box[k].stage].committed
      /\ k \in stage[box[k].stage].items
  BY DEF DeliveryInv, Delivery, AckedCommitted, RowInStage
<1>2. box[k].stage \in 1..Len(stage)
  BY <1>1 DEF DeliveryInv, ImportInv, Types, Rows
<1> QED
  BY <1>1, <1>2 DEF Committed

\* A row says ACKED only when a destination committed a stage with its item,
\* as long as the process does not restart.  It is itemBatch, kept in memory,
\* that makes it so (nextBatchMembers and runSend of outbox.ts): after a
\* restart a row with a stage may be sent with rows the stage does not hold,
\* and the runs of TLC show that these are marked ACKED with it.
THEOREM DeliveredInOneProcess ==
    ASSUME MaxRestarts = 0 PROVE Spec => []AckedDelivered
<1>1. Init => DeliveryInv
  BY InitImport, InitDelivery DEF Init, DeliveryInv, StuckRows
<1>2. DeliveryInv /\ [Next]_vars => DeliveryInv'
  BY NextImport, NextDelivery DEF DeliveryInv
<1> QED
  BY DeliveredAcked, <1>1, <1>2, PTL DEF Spec

=============================================================================
