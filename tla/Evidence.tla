------------------------------ MODULE Evidence ------------------------------
(* The gateway's own evidence: every mutating method commits a five-event    *)
(* audit history, lineage queries walk the histories back from an action,    *)
(* receipts and objects are served by the references of an action's lane.    *)
(* A hash is the value it is taken of, so two hashes are equal exactly when  *)
(* what they commit to is.                                                   *)
EXTENDS PlatformStore

CONSTANTS
    Requests,     \* requests of a behaviour: the id the client chose, the caller
    Principals,   \* callers
    MaxNodes,     \* the max_nodes and max_depth a lineage query asks for
    MaxDepth

VARIABLES
    objects,      \* the objects the store still has
    lastAction    \* the writer's memory: the object id of the last action

evidence == <<objects, lastAction>>

Workspace == "audit1"
Source == "gateway1"
RunOf(stream) == <<"op", stream>>

(* --------------------------- the audit history --------------------------- *)

Intent(a) == <<"intent", a.method>>
Payload(a) == <<"payload", a.method, a.principal, a.request, a.previous>>

Ref(e) == [source |-> Source, stream |-> e.stream, seq |-> e.seq, hash |-> e.hash]

(* A hash commits to its body, whose prev commits to what came before: the   *)
(* first two events hold the request and the method, the payload the rest.   *)
Hash(a, seq) ==
    <<a.request, seq, a.method>> \o (IF seq < 3 THEN <<>> ELSE <<a.principal, a.previous>>)

Topics == <<"RunOpened", "StepOpened", "ObservationRecorded", "StepClosed", "RunClosed">>
Data(a, seq) ==
    <<Topics[seq], RunOf(a.request)>>
    \o (CASE seq = 1 -> <<Intent(a)>> [] seq = 3 -> <<Payload(a)>> [] seq = 4 -> <<Hash(a, 3)>> [] OTHER -> <<>>)

Sealed(a, seq) ==
    [stream |-> a.request, seq |-> seq, hash |-> Hash(a, seq), data |-> Data(a, seq),
     prev |-> IF seq = 1 THEN <<>> ELSE Hash(a, seq - 1),
     parents |-> IF seq = 4 THEN {Ref([stream |-> a.request, seq |-> 3, hash |-> Hash(a, 3)])} ELSE {}]

History(a) == [seq \in 1..5 |-> Sealed(a, seq)]

Anchor(a) == History(a)[4]
PointerOf(ref) == <<Workspace, ref>>

(* One commit: the five records, the two objects, the event index entries,   *)
(* the action index entry.                                                   *)
AuditMutation(a) ==
    LET chain == History(a) IN
    Batch(<<[kind |-> "events",
             events |-> [i \in 1..5 |->
                 [workspace |-> Workspace, source |-> Source, stream |-> a.request, seq |-> i,
                  hash |-> chain[i].hash, raw_sha256 |-> chain[i].hash, topic |-> "gateway.action",
                  record |-> i]]],
            [kind |-> "actions",
             actions |-> <<[pointer |-> PointerOf(Ref(Anchor(a))),
                            nativeRef |-> [object_id |-> RunOf(a.request), commitment |-> Anchor(a).hash],
                            previous |-> a.previous, principal |-> a.principal, method |-> a.method]>>]>>)

(* The writer links the action to the last one whose commit it saw.          *)
EmitAuditReceipt(request, principal) ==
    LET a == [method |-> "config.apply", request |-> request, principal |-> principal, previous |-> lastAction] IN
    /\ Await(<<"audit", a>>, AuditMutation(a), History(a))
    /\ UNCHANGED evidence

AuditLands(c) ==
    /\ c.call[1] = "audit"
    /\ Lands(c)
    /\ lastAction' = RunOf(c.call[2].request)
    /\ objects' = objects \union {Intent(c.call[2]), Payload(c.call[2])}

(* Ids are alike: a new one is the next.                                     *)
Fresh == 1 + Cardinality({a.pointer[2].stream : a \in Rows(db, "actions")}
                         \union {c.call[2].request : c \in calls})

(* ------------------------------ addressing ------------------------------- *)

EntryForRef(workspace, ref) ==
    LET rows == {row \in EventSlotV2(db, workspace, ref) : row.hash = ref.hash} IN
    IF rows = {} THEN NoValue ELSE CHOOSE row \in rows : TRUE

EntryPointer(row) ==
    PointerOf([source |-> row.source, stream |-> row.stream, seq |-> row.seq, hash |-> row.hash])

(* An address is a receipt pointer, or the object id of a native reference,  *)
(* which the action index resolves.                                          *)
ResolvePointer(pointer) == EntryForRef(pointer[1], pointer[2])
ActionByNativeId(object) == ActionByObjectId(db, object)
ResolveNative(object) ==
    LET action == ActionByNativeId(object) IN
    IF action = NoValue THEN NoValue ELSE ResolvePointer(action.pointer)

CallerOwnsAction(principal, entry) ==
    \/ principal = "local"
    \/ LET action == Get(db, "actions", EntryPointer(entry)) IN
       action # NoValue /\ action.principal = principal
    \/ LET source == Get(db, "sources", entry.source) IN
       source # NoValue /\ source.owner = principal

(* The references in the data of the action's lane up to its own place.      *)
ObjectRefsOf(data) == IF data[1] \in {"RunOpened", "ObservationRecorded"} THEN {data[3]} ELSE {}
CollectActionObjectRefs(entry) ==
    UNION {ObjectRefsOf(GetRecord(row.cursor).data) :
           row \in {e \in Range(EventLane(db, entry.workspace, entry.source, entry.stream)) :
                      e.seq <= entry.seq /\ GetRecord(e.cursor) # NoValue}}

(* object.put: bytes the store lost come back from whoever holds them, when  *)
(* a committed action of that caller refers to them.                         *)
ObjectPut(principal, pointer, object) ==
    LET entry == ResolvePointer(pointer) IN
    /\ entry # NoValue
    /\ CallerOwnsAction(principal, entry)
    /\ object \in CollectActionObjectRefs(entry)
    /\ objects' = objects \union {object}
    /\ UNCHANGED <<store, lastAction>>

(* External: a file of the object store is damaged, one at a time.           *)
Actions == Rows(db, "actions")
Lost == UNION {{Intent(a), Payload(a @@ [request |-> a.pointer[2].stream])} : a \in Actions} \ objects
LoseObject(object) ==
    /\ object \in objects /\ Lost = {}
    /\ objects' = objects \ {object}
    /\ UNCHANGED <<store, lastAction>>

(* receipt.get: what an auditor is shown of an action.                       *)
Inventory(pointer) == CollectActionObjectRefs(ResolvePointer(pointer))

(* -------------------------------- lineage -------------------------------- *)

IsAction(entry) == Get(db, "actions", EntryPointer(entry)) # NoValue

(* The payload behind a StepClosed anchor: its observation event, that       *)
(* event's object, the bytes.                                                *)
ObservationOf(entry) ==
    LET closed == GetRecord(entry.cursor).data
        at == [source |-> entry.source, stream |-> entry.stream, seq |-> 3, hash |-> closed[Len(closed)]] IN
    IF closed[1] = "StepClosed" THEN EntryForRef(entry.workspace, at) ELSE entry

Readable(value) ==
    IF value[1] # "ObservationRecorded" THEN [payload |-> NoValue, missing |-> FALSE]
    ELSE IF value[3] \in objects THEN [payload |-> value[3], missing |-> FALSE]
    ELSE [payload |-> NoValue, missing |-> TRUE]

PayloadAt(observation) ==
    IF observation = NoValue THEN [payload |-> NoValue, missing |-> TRUE]
    ELSE Readable(GetRecord(observation.cursor).data)

ActionPayload(entry) == PayloadAt(ObservationOf(entry))

(* What one visited entry adds: edges to other anchors, gaps where a         *)
(* reference does not resolve.                                               *)
Followed(target) == [to |-> {target} \ {NoValue}, gap |-> target = NoValue]

PreviousOf(read) ==
    IF read.payload = NoValue \/ read.payload[5] = NoValue THEN [to |-> {}, gap |-> read.missing]
    ELSE Followed(ResolveNative(read.payload[5]))

\* Mutant: a payload that cannot be read is no gap.
PreviousStepSilent(entry) == PreviousOf([ActionPayload(entry) EXCEPT !.missing = FALSE])
PreviousStep(entry) == PreviousOf(ActionPayload(entry))

(* Array.find over the lane: the first row of the preceding place.           *)
Before(entry) ==
    SelectSeq(EventLane(db, entry.workspace, entry.source, entry.stream), LAMBDA row : row.seq = entry.seq - 1)

ParentsOf(body, before, parents) ==
    LET broken == body.seq # 1 /\ (before = <<>> \/ before[1].hash # body.prev)
        linked == (parents \ {NoValue}) \union (IF body.seq # 1 /\ ~broken THEN {before[1]} ELSE {}) IN
    [to |-> {row \in linked : IsAction(row)}, gap |-> broken \/ NoValue \in parents]

ParentStep(entry) ==
    LET body == GetRecord(entry.cursor) IN
    ParentsOf(body, Before(entry), {EntryForRef(entry.workspace, ref) : ref \in body.parents})

Merged(a, b) == [to |-> a.to \union b.to, gap |-> a.gap \/ b.gap]
Links(entry) == Merged(PreviousStep(entry), ParentStep(entry))

(* A breadth-first walk; that no native adapter is bound is left out of its  *)
(* gaps, and a walk cut by depth has none.                                   *)
RECURSIVE Walk(_, _, _, _)
Walk(queue, seen, gaps, nodes) ==
    IF queue = <<>> \/ Len(nodes) >= MaxNodes
    THEN [nodes |-> nodes,
          gaps |-> IF queue # <<>> THEN gaps \union {"TRUNCATED"} ELSE gaps]
    ELSE LET entry == Head(queue).entry
             depth == Head(queue).depth
             links == Links(entry) IN
         IF EntryPointer(entry) \in seen THEN Walk(Tail(queue), seen, gaps, nodes)
         ELSE IF depth >= MaxDepth
              THEN Walk(Tail(queue), seen \union {EntryPointer(entry)}, gaps, Append(nodes, EntryPointer(entry)))
              ELSE Walk(Tail(queue) \o SetToSeq({[entry |-> next, depth |-> depth + 1] : next \in links.to}),
                        seen \union {EntryPointer(entry)},
                        gaps \union (IF links.gap THEN {"MISSING_REFERENCE"} ELSE {}),
                        Append(nodes, EntryPointer(entry)))

Lineage(entry) == Walk(<<[entry |-> entry, depth |-> 0]>>, {}, {}, <<>>)

(* ------------------------------- properties ------------------------------ *)

(* A request id two callers chose names one object id, one stream and one    *)
(* set of slots for both of them.                                            *)
Unshared(action) == \A other \in Actions : other.object_id = action.object_id => other = action

(* The actions an action was linked to, over at most d links.                *)
RECURSIVE LinkedTo(_, _)
LinkedTo(action, d) ==
    LET previous == {other \in Actions : other.object_id = action.previous} IN
    IF d = 0 THEN {} ELSE previous \union UNION {LinkedTo(other, d - 1) : other \in previous}

Honest(action, answer) ==
    answer.gaps = {}
    => {other.pointer : other \in LinkedTo(action, MaxDepth)} \subseteq Range(answer.nodes)

(* A lineage query over histories whose request ids are their own shows      *)
(* every action the asked one was linked to, or says that something is       *)
(* missing: commits that overlap, a restart, a rebuilt index, an object that *)
(* was lost and put back, and a walk cut by its node bound included.         *)
LineageHonest ==
    (\A action \in Actions : Unshared(action)) =>
        \A action \in Actions : Honest(action, Lineage(ResolvePointer(action.pointer)))
=============================================================================
