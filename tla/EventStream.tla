---------------------------- MODULE EventStream -----------------------------
(***************************************************************************)
(* The event channel of the daemon, from publisher to browser: publish,    *)
(* subscribe and ack (core/src/v2/platform/events-svc.ts), the bridge's    *)
(* sessions (platform/sessions.ts, gateway-daemon/src/adapters/            *)
(* bridge-state.ts), the SSE stream (net/sse.ts, net/bridge.ts) and the    *)
(* events view of the web client (gateway-web/src/routes/events.ts,        *)
(* lib/sse.ts).                                                            *)
(*                                                                         *)
(* A service call reads the registry, decides, and awaits store.commit:    *)
(* calls[k] is a call that has decided and whose commit has not been       *)
(* applied, so other calls, streams and commits fall between the two.  The *)
(* commit itself is the atomic step GatewayStore describes.  The calls of  *)
(* commitSync and the reads of a stream are not interrupted.               *)
(*                                                                         *)
(* A record's order is its place in log; its cursor is the ordinal of its  *)
(* lane and its number among the lines written to that lane.               *)
(***************************************************************************)
EXTENDS Integers, Sequences, FiniteSets, SequencesExt, TLC

CONSTANTS
    MaxCalls,       \* RPC calls under way at once
    Views,          \* events views of the web client
    Contents,       \* what events.publish is called with
    ReceiptLane,    \* the lane of the receipt writer's workspace
    Enrolled,       \* producers enrolled to their callers
    CapOf,          \* CapOf[l]: the record size cap of lane l
    ViewTopics,     \* the topics a view subscribes to
    AckOrders,      \* the records whose cursors events.ack is called with
    Batch,          \* frames a stream reads at a time (64)
    ScanMax,        \* index rows a stream looks at in one read (4096)
    Lease,          \* SUBSCRIPTION_LEASE_MS
    BootstrapTtl, SessionTtl, IdleTtl,
    Absent,         \* null
    MaxLog, MaxSubs, MaxSessions, MaxClock,
    MaxDisruptions  \* bound on restarts, dropped connections, failed commits

ASSUME StreamAssumption == Absent \notin Nat /\ Batch \in Nat /\ ScanMax \in Nat

VARIABLES
    log,       \* committed lane records in commit order, with their index rows
    lanes,     \* lane directories in the order they were made
    lines,     \* lines[l]: lines written to the l-th lane, committed or not
    subs,      \* the subscriptions table
    calls,     \* the commits under way
    boots,     \* the bootstraps table
    sessions,  \* the ui:session documents
    seen,      \* lastSeen of this boot, by session
    streams,   \* what serveSse holds for a view's connection, or Absent
    wire,      \* frames written to a view's connection and not yet parsed
    views,     \* the web client's views
    clock, bootEpoch, disruptions,
    written,   \* (history) highest order a lease began at or a stream of it wrote
    bought     \* (history) sessions issued for a bootstrap

server == <<streams, wire>>
tables == <<log, lanes, lines, subs>>
auth == <<boots, sessions, seen, bought>>
streamVars == <<tables, calls, auth, server, views, clock, bootEpoch, disruptions, written>>

ZeroCursor == <<0, 0>>

----------------------------------------------------------------------------
(* The store as the services see it.                                       *)

LaneOrdinal(lane) == IF Contains(lanes, lane) THEN CHOOSE l \in DOMAIN lanes : lanes[l] = lane ELSE Len(lanes) + 1

Cursor(i) == <<LaneOrdinal(log[i].lane), log[i].line>>

\* store.resolveCursor: the order of a committed position; 0 before the first
\* record of a lane, -1 for a line that was never committed, Absent otherwise.
ResolveCursor(c) ==
    LET at == {i \in DOMAIN log : Cursor(i) = c}
        lane == {i \in DOMAIN log : Cursor(i)[1] = c[1]} IN
    IF at # {} THEN CHOOSE i \in at : TRUE
    ELSE IF lane = {} THEN Absent
    ELSE IF c[2] = 0 THEN 0
    ELSE IF \E i \in lane : c[2] < log[i].line THEN -1
    ELSE Absent

\* The committed record of highest order.
GlobalHead == IF log = <<>> THEN [order |-> 0, cursor |-> ZeroCursor]
              ELSE [order |-> Len(log), cursor |-> Cursor(Len(log))]

\* Index rows: a record whose bytes the slot had already has none.
Indexed(i) == log[i].row
EventSlot(content) == {i \in DOMAIN log : Indexed(i) /\ log[i].slot = content.slot}
EventsAfter(order) == {i \in DOMAIN log : i > order /\ Indexed(i)}

\* The first n of a set of orders, and the set in ascending order.
Rank(i, S) == Cardinality({j \in S : j <= i})
FirstOf(n, S) == {i \in S : Rank(i, S) <= n}
Ascending(S) == [n \in 1..Cardinality(S) |-> CHOOSE i \in S : Rank(i, S) = n]

\* A commit of one record: a line of its lane, an order, and an index row
\* unless the slot holds the same bytes.
Append1(content) ==
    LET l == LaneOrdinal(content.lane)
        n == IF l > Len(lanes) THEN 1 ELSE lines[l] + 1 IN
    /\ lanes' = IF l > Len(lanes) THEN Append(lanes, content.lane) ELSE lanes
    /\ lines' = IF l > Len(lanes) THEN Append(lines, 1) ELSE [lines EXCEPT ![l] = n]
    /\ log' = Append(log, [lane |-> content.lane, topic |-> content.topic, slot |-> content.slot, raw |-> content.raw,
                           line |-> n, row |-> ~\E i \in EventSlot(content) : log[i].raw = content.raw])

\* A line whose commit failed or never came: the next one has a later number.
Orphan(content) ==
    LET l == LaneOrdinal(content.lane) IN
    /\ lanes' = IF l > Len(lanes) THEN Append(lanes, content.lane) ELSE lanes
    /\ lines' = IF l > Len(lanes) THEN Append(lines, 1) ELSE [lines EXCEPT ![l] = @ + 1]
    /\ UNCHANGED log

----------------------------------------------------------------------------
(* Sessions of the bridge.                                                 *)

\* DurableBridgeSessions.peek: a document of this boot, not revoked, inside
\* the expiry, the idle expiry it was stored with, and the idle window.
SessionLive(s) ==
    /\ s \in DOMAIN sessions
    /\ LET doc == sessions[s] IN
       /\ doc.epoch = bootEpoch /\ doc.state = "ACTIVE"
       /\ clock < doc.created + SessionTtl /\ clock < doc.created + IdleTtl
       /\ clock - seen[s] < IdleTtl

\* resolve: as peek, and the window slides.
Resolve(s) == SessionLive(s) /\ seen' = [seen EXCEPT ![s] = clock]

\* ui.session.create, on the local socket.
SessionCreate ==
    /\ Len(boots) < MaxSessions
    /\ boots' = Append(boots, [expires |-> clock + BootstrapTtl, consumed |-> FALSE, epoch |-> bootEpoch])
    /\ bought' = Append(bought, 0)
    /\ UNCHANGED <<tables, calls, sessions, seen, server, views, clock, bootEpoch, disruptions, written>>

\* bootstrap_take changes a row.
Taken(b) == ~boots[b].consumed /\ boots[b].epoch = bootEpoch

\* ui.session.exchange with bootstrap b, by a browser without a session or
\* (held) with one: the take is committed first, then the expiry is looked
\* at, then the session put.  The answer may be lost; a crash between the two
\* commits leaves what a lost answer and a restart leave.
SessionExchange(b, v, held) ==
    /\ boots[b].consumed \/ Len(sessions) < MaxSessions
    /\ held # 0 => SessionLive(held)
    /\ boots' = IF Taken(b) THEN [boots EXCEPT ![b].consumed = TRUE] ELSE boots
    /\ IF Taken(b) /\ clock < boots[b].expires
       THEN /\ sessions' = Append(sessions, [owner |-> held, created |-> clock, state |-> "ACTIVE", epoch |-> bootEpoch])
            /\ seen' = Append(seen, clock)
            /\ bought' = [bought EXCEPT ![b] = @ + 1]
            /\ views' = IF v = Absent THEN views ELSE [views EXCEPT ![v].sess = Len(sessions) + 1]
       ELSE UNCHANGED <<sessions, seen, bought, views>>
    /\ UNCHANGED <<tables, calls, server, clock, bootEpoch, disruptions, written>>

----------------------------------------------------------------------------
(* The calls of the event service.                                         *)

Calls == 1..MaxCalls
SubIds == DOMAIN subs
NewSubId == 1 + Cardinality(SubIds \union {calls[k].id : k \in {j \in Calls : calls[j].op = "subscribe"}})

\* The call has decided and awaits its commit, in the first free place.
Free == [op |-> "idle"]
Await(k, call) ==
    /\ calls[k] = Free /\ \A j \in 1..(k - 1) : calls[j] # Free
    /\ calls' = [calls EXCEPT ![k] = call]

CoreTopic == "gateway.action"

\* decodeRecord: the size is under the lane's cap, and a digest the caller
\* declares (a Blob's ref) is that of the bytes.
Decoded(call) == call.size <= CapOf[call.lane] /\ call.declared \in {Absent, call.raw}

\* assertProofBody: the first event of a lane and only it has the genesis prev,
\* and a parent in the same lane is an earlier one.
Genesis == 0
ProofBody(body) ==
    /\ body.seq = 1 <=> body.prev = Genesis
    /\ \A parent \in body.parents : parent < body.seq

\* verifyProofEvent: a body of that form, signed with the producer's key.
VerifyProofEvent(call) == ProofBody(call.body) /\ call.signer = call.producer

\* admit: a topic of the registry that is not the core writer's, an enrolled
\* producer, a record that decodes, and a Proof record names the slot of the
\* call and verifies.
Admit(call) ==
    /\ call.topic # CoreTopic
    /\ call.producer \in Enrolled
    /\ Decoded(call)
    /\ call.lane = "proof" => call.body.seq = call.slot /\ VerifyProofEvent(call)

Record(lane, topic, slot, raw) == [lane |-> lane, topic |-> topic, slot |-> slot, raw |-> raw]

\* events.publish: the same bytes in the slot are answered as a duplicate and
\* commit nothing.
Publish(k, call) ==
    LET content == Record(call.lane, call.topic, <<call.producer, call.slot>>, call.raw) IN
    /\ Admit(call)
    /\ Len(log) + Cardinality({j \in Calls : calls[j].op = "publish"}) < MaxLog
    /\ ~\E i \in EventSlot(content) : log[i].raw = content.raw
    /\ Await(k, [op |-> "publish", content |-> content])
    /\ UNCHANGED <<tables, auth, server, views, clock, bootEpoch, disruptions, written>>

\* The receipt writer commits the receipt of some other call.
WriteReceipt(k, n) ==
    LET content == Record(ReceiptLane, CoreTopic, <<"core", n>>, n) IN
    /\ n = 1 + Cardinality({i \in DOMAIN log : log[i].topic = CoreTopic})
    /\ Len(log) + Cardinality({j \in Calls : calls[j].op = "publish"}) < MaxLog
    /\ Await(k, [op |-> "publish", content |-> content])
    /\ UNCHANGED <<tables, auth, server, views, clock, bootEpoch, disruptions, written>>

\* events.subscribe of a view, from the head; the stream it had is dropped and
\* its rows are cleared.
Subscribe(k, v) ==
    /\ views[v].phase \in {"idle", "gap"}
    /\ Cardinality(SubIds) < MaxSubs
    /\ Resolve(views[v].sess)
    /\ Await(k, [op |-> "subscribe", id |-> NewSubId, view |-> v,
                 row |-> [owner |-> views[v].sess, topics |-> ViewTopics,
                          position |-> GlobalHead.order, cursor |-> GlobalHead.cursor,
                          delivered |-> GlobalHead.order, expires |-> clock + Lease, state |-> "OPEN"]])
    /\ views' = [views EXCEPT ![v].phase = "subscribing", ![v].sub = Absent, ![v].rows = <<>>]
    /\ UNCHANGED <<tables, boots, sessions, bought, server, clock, bootEpoch, disruptions, written>>

\* What events.ack checks of a lease and a cursor.
Ackable(sub, c) ==
    /\ sub.state = "OPEN" /\ clock < sub.expires
    /\ \E i \in DOMAIN log :
          /\ Cursor(i) = c /\ Indexed(i) /\ log[i].topic \in sub.topics
          /\ i <= sub.delivered

\* events.ack by the lease's owner: the whole row is written back, as it was
\* read, with the position moved on and the cursor replaced.
Ack(k, id, c) ==
    LET sub == subs[id]
        order == ResolveCursor(c) IN
    /\ Ackable(sub, c)
    /\ Resolve(sub.owner)
    /\ Await(k, [op |-> "ack", id |-> id,
                 row |-> [sub EXCEPT !.position = IF order > @ THEN order ELSE @, !.cursor = c]])
    /\ UNCHANGED <<tables, boots, sessions, bought, server, views, clock, bootEpoch, disruptions, written>>

\* ui.session.revoke: the document is revoked at once; the OPEN leases of the
\* session record's owner are then closed in one commit.
SessionRevoke(k, s) ==
    LET open == {id \in SubIds : subs[id].owner = sessions[s].owner /\ subs[id].state = "OPEN"} IN
    /\ sessions[s].epoch = bootEpoch /\ sessions[s].state = "ACTIVE"
    /\ sessions' = [sessions EXCEPT ![s].state = "REVOKED"]
    /\ IF open = {} THEN k = 1 /\ UNCHANGED calls
       ELSE Await(k, [op |-> "revoke", rows |-> [id \in open |-> [subs[id] EXCEPT !.state = "CLOSED"]]])
    /\ UNCHANGED <<tables, boots, seen, bought, server, views, clock, bootEpoch, disruptions, written>>

\* The commit of call k is applied and the call answered.
Commit(k) ==
    LET call == calls[k] IN
    /\ call.op # "idle"
    /\ calls' = [calls EXCEPT ![k] = Free]
    /\ CASE call.op = "publish"   -> Append1(call.content) /\ UNCHANGED <<subs, views>>
         [] call.op = "subscribe" -> /\ subs' = [id \in SubIds \union {call.id} |-> IF id = call.id THEN call.row ELSE subs[id]]
                                     /\ views' = [views EXCEPT
                                            ![call.view].phase = "connecting", ![call.view].sub = call.id,
                                            ![call.view].start = call.row.position,
                                            ![call.view].lastId = call.row.cursor]
                                     /\ UNCHANGED <<log, lanes, lines>>
         [] call.op = "ack"       -> subs' = [subs EXCEPT ![call.id] = call.row] /\ UNCHANGED <<log, lanes, lines, views>>
         [] call.op = "revoke"    -> subs' = [id \in SubIds |-> IF id \in DOMAIN call.rows THEN call.rows[id] ELSE subs[id]]
                                     /\ UNCHANGED <<log, lanes, lines, views>>
    /\ written' = IF call.op = "subscribe" THEN [written EXCEPT ![call.id] = call.row.position] ELSE written
    /\ UNCHANGED <<auth, server, clock, bootEpoch, disruptions>>

\* The commit of call k fails: a publish leaves a line nobody committed, a
\* subscribe leaves its view without a stream.
CommitLost(k) ==
    LET call == calls[k] IN
    /\ disruptions < MaxDisruptions /\ disruptions' = disruptions + 1
    /\ call.op # "idle"
    /\ calls' = [calls EXCEPT ![k] = Free]
    /\ IF call.op = "publish" THEN Orphan(call.content) /\ UNCHANGED subs ELSE UNCHANGED tables
    /\ views' = IF call.op = "subscribe" THEN [views EXCEPT ![call.view].phase = "error"] ELSE views
    /\ UNCHANGED <<auth, server, clock, bootEpoch, written>>

----------------------------------------------------------------------------
(* The stream of a view: bridge, serveSse and the durable source.          *)

\* cursorPrecedes: by lane ordinal, then by record ordinal.
CursorPrecedes(a, b) == a[1] < b[1] \/ (a[1] = b[1] /\ a[2] < b[2])

\* The lease DurableSseRegistry.lookup finds.
LeaseFound(id) == subs[id].state = "OPEN" /\ clock < subs[id].expires

\* GET /v2/events: 401, 403 and 404 put the client in its retry loop, 410 in
\* its gap; the stream starts from Last-Event-ID.
Connect(v) ==
    LET view == views[v]
        earliest == FirstOf(1, EventsAfter(0)) IN
    /\ view.phase \in {"connecting", "retry"}
    /\ IF ~SessionLive(view.sess) \/ ~LeaseFound(view.sub)
       THEN /\ view.phase # "retry"
            /\ views' = [views EXCEPT ![v].phase = "retry"]
            /\ UNCHANGED server
       ELSE IF \E i \in earliest : CursorPrecedes(view.lastId, Cursor(i))
       THEN views' = [views EXCEPT ![v].phase = "gap"] /\ UNCHANGED server
       ELSE /\ views' = [views EXCEPT ![v].phase = "open"]
            /\ streams' = [streams EXCEPT ![v] = [sub |-> view.sub, cursor |-> view.lastId]]
            /\ wire' = [wire EXCEPT ![v] = <<>>]
    /\ UNCHANGED <<tables, calls, auth, clock, bootEpoch, disruptions, written>>

\* orderOf: a cursor of no lane is read from the start.
OrderOf(c) == IF ResolveCursor(c) = Absent THEN 0 ELSE ResolveCursor(c)

Wanted(sub, i) == log[i].topic \in sub.topics

\* Mutant: the filter is applied after the batch is cut.
FramesCut(sub, order) ==
    Ascending({i \in FirstOf(Batch, FirstOf(ScanMax, EventsAfter(order))) : Wanted(sub, i)})

\* readAfter: of the first ScanMax index rows, the first Batch of the lease's
\* topics.
Frames(sub, order) ==
    Ascending(FirstOf(Batch, {i \in FirstOf(ScanMax, EventsAfter(order)) : Wanted(sub, i)}))

\* One turn of serveSse's loop: read, move the delivered mark of the lease,
\* write the frames and move the stream's cursor.
StreamRead(v) ==
    LET st == streams[v]
        sub == subs[st.sub] IN
    /\ st # Absent
    /\ \E out \in {Frames(sub, OrderOf(st.cursor))} :
          /\ out # <<>>
          /\ subs' = IF Last(out) > sub.delivered THEN [subs EXCEPT ![st.sub].delivered = Last(out)] ELSE subs
          /\ wire' = [wire EXCEPT ![v] = @ \o out]
          /\ streams' = [streams EXCEPT ![v].cursor = Cursor(Last(out))]
          /\ written' = [written EXCEPT ![st.sub] = IF Last(out) > @ THEN Last(out) ELSE @]
    /\ UNCHANGED <<log, lanes, lines, calls, auth, views, clock, bootEpoch, disruptions>>

\* Mutant: the view counts a frame for resume when it arrives, before it is
\* parsed and shown.
ReceiveEarly(v) ==
    /\ views[v].phase = "open" /\ wire[v] # <<>>
    /\ wire' = [wire EXCEPT ![v] = Tail(@)]
    /\ views' = [views EXCEPT ![v].lastId = Cursor(Last(wire[v])), ![v].rows = Append(@, Head(wire[v]))]
    /\ UNCHANGED <<tables, calls, auth, streams, clock, bootEpoch, disruptions, written>>

\* readBody: the next frame is parsed, counted for resume and shown.
Receive(v) ==
    /\ views[v].phase = "open" /\ wire[v] # <<>>
    /\ wire' = [wire EXCEPT ![v] = Tail(@)]
    /\ views' = [views EXCEPT ![v].lastId = Cursor(Head(wire[v])), ![v].rows = Append(@, Head(wire[v]))]
    /\ UNCHANGED <<tables, calls, auth, streams, clock, bootEpoch, disruptions, written>>

\* The connection ends: dropped, or closed on a slow consumer.
Drop(v) ==
    /\ disruptions < MaxDisruptions /\ disruptions' = disruptions + 1
    /\ streams[v] # Absent
    /\ streams' = [streams EXCEPT ![v] = Absent]
    /\ wire' = [wire EXCEPT ![v] = <<>>]
    /\ views' = [views EXCEPT ![v].phase = "connecting"]
    /\ UNCHANGED <<tables, calls, auth, clock, bootEpoch, written>>

\* The view is left.
Leave(v) ==
    /\ views[v].phase \notin {"closed", "subscribing"}
    /\ views' = [views EXCEPT ![v].phase = "closed"]
    /\ streams' = [streams EXCEPT ![v] = Absent]
    /\ wire' = [wire EXCEPT ![v] = <<>>]
    /\ UNCHANGED <<tables, calls, auth, clock, bootEpoch, disruptions, written>>

----------------------------------------------------------------------------
(* Time and restarts.                                                      *)

ClockTick == clock < MaxClock /\ clock' = clock + 1
        /\ UNCHANGED <<tables, calls, auth, server, views, bootEpoch, disruptions, written>>

\* The daemon restarts: calls, streams and the last-seen map are gone, the
\* session documents are of another epoch.
Restart ==
    /\ disruptions < MaxDisruptions /\ disruptions' = disruptions + 1
    /\ bootEpoch' = bootEpoch + 1
    /\ calls' = [k \in Calls |-> Free]
    /\ streams' = [v \in Views |-> Absent]
    /\ wire' = [v \in Views |-> <<>>]
    /\ views' = [v \in Views |-> [views[v] EXCEPT !.phase =
          IF @ = "open" THEN "connecting" ELSE IF @ = "subscribing" THEN "error" ELSE @]]
    /\ UNCHANGED <<tables, auth, clock, written>>

NewView == [phase |-> "idle", sess |-> Absent, sub |-> Absent, start |-> 0, lastId |-> ZeroCursor, rows |-> <<>>]

StreamInit ==
    /\ log = <<>> /\ lanes = <<>> /\ lines = <<>>
    /\ subs = [id \in {} |-> Absent]
    /\ calls = [k \in Calls |-> Free]
    /\ boots = <<>> /\ sessions = <<>> /\ seen = <<>> /\ bought = <<>>
    /\ streams = [v \in Views |-> Absent]
    /\ wire = [v \in Views |-> <<>>]
    /\ views = [v \in Views |-> NewView]
    /\ clock = 0 /\ bootEpoch = 0 /\ disruptions = 0
    /\ written = [id \in 1..MaxSubs |-> 0]

ServiceCall(k) ==
    \/ \E call \in Contents : Publish(k, call)
    \/ \E n \in 1..MaxLog : WriteReceipt(k, n)
    \/ \E v \in Views : Subscribe(k, v)
    \/ \E id \in SubIds, i \in DOMAIN log \intersect AckOrders : Ack(k, id, Cursor(i))
    \/ \E s \in DOMAIN sessions : SessionRevoke(k, s)
    \/ Commit(k)
    \/ CommitLost(k)

View(v) == Connect(v) \/ StreamRead(v) \/ Receive(v) \/ Drop(v) \/ Leave(v)

StreamNext ==
    \/ SessionCreate
    \/ \E b \in DOMAIN boots, v \in Views \union {Absent}, held \in 0..Len(sessions) : SessionExchange(b, v, held)
    \/ \E k \in Calls : ServiceCall(k)
    \/ \E v \in Views : View(v)
    \/ ClockTick
    \/ Restart

\* The commits, the reads of a stream, the client's reads and its retries go
\* on as long as the process does; nothing else is owed.
StreamFairness ==
    /\ \A k \in Calls : WF_streamVars(Commit(k))
    /\ \A v \in Views : WF_streamVars(StreamRead(v)) /\ WF_streamVars(Receive(v)) /\ WF_streamVars(Connect(v))

StreamSpec == StreamInit /\ [][StreamNext]_streamVars /\ StreamFairness

----------------------------------------------------------------------------
(* Properties.                                                             *)

\* What a view of a lease starting at order `start` is owed up to order n.
Owed(v, n) == {i \in 1..n : i > views[v].start /\ Indexed(i) /\ log[i].topic \in ViewTopics}

\* A view shows the committed events of its topics in commit order, none
\* missing and none twice, across dropped connections, resumes from
\* Last-Event-ID, restarts, and acknowledgements written back late.
ShownInOrder ==
    \A v \in Views : views[v].sub # Absent =>
        /\ \A a, b \in DOMAIN views[v].rows : a < b => views[v].rows[a] < views[v].rows[b]
        /\ Range(views[v].rows) = Owed(v, OrderOf(views[v].lastId))

\* A lease is never acknowledged past what a stream of it has written, even
\* when an ack's row is written back over a newer one.
AckedWritten == \A id \in SubIds : subs[id].position <= written[id]

\* A bootstrap token buys one session at most: repeated exchanges, lost
\* answers, expiry and restarts included.
BootstrapOnce == \A b \in DOMAIN bought : bought[b] <= 1

\* After ui.session.revoke nothing more is written to the session's streams:
\* "streaming connections die with the session" (platform/sessions.ts).
RevokeEndsStreams ==
    [][\A v \in Views : Len(wire'[v]) > Len(wire[v]) => sessions[views[v].sess].state = "ACTIVE"]_streamVars

\* The rows a stream looks at after what the view has shown are all of other
\* topics: readAfter has no frame, and only a frame moves the stream's cursor.
Starved(v) ==
    LET window == FirstOf(ScanMax, EventsAfter(OrderOf(views[v].lastId))) IN
    Cardinality(window) = ScanMax /\ \A i \in window : log[i].topic \notin ViewTopics

\* A view whose stream stays open comes to show every committed event of its
\* topics, whatever the frames read at a time and the rows of other topics
\* between; unless ScanMax rows of other topics follow one another, which
\* hold it up for ever.
CaughtUp ==
    \A v \in Views :
        <>[](views[v].phase = "open") => <>[](Range(views[v].rows) = Owed(v, Len(log)) \/ Starved(v))
====
