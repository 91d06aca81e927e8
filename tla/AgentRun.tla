------------------------------ MODULE AgentRun ------------------------------
(***************************************************************************)
(* latticeag run: the parent process of an agent (cli/src/commands/run.ts) *)
(* with its bus, its ingest server (cli/src/ingest.ts), the adapters it    *)
(* starts (cli/src/start-adapters.ts, adapters/*/src/index.ts) and the     *)
(* child it waits for.                                                     *)
(*                                                                         *)
(* An adapter's handler runs until it awaits: the network answers a task   *)
(* of the set tasks, a session file changes, a request arrives at ingest.  *)
(* What it does next is decided by the adapter's ctx as it is then, which  *)
(* stop() has cleared for an adapter outside live.  A rejection nobody     *)
(* handles (a handler started with void) ends the process.                 *)
(*                                                                         *)
(* An emit carries: on, who holds its promise; ctx, the adapter whose ctx  *)
(* the owner reads when it resolves, or None; next, what it emits then.    *)
(***************************************************************************)
EXTENDS EventBus

CONSTANTS
    Configs,     \* [axion, fixtures, auto, failOnSync, persist, extra, inputs]: a
                 \* run's configuration and flags, and how much of what arrives in it
    FixtureRows, \* approved rows of an approvals fixture
    Files,       \* session files of the recorder
    BatchItems,  \* what an Axion batch holds: [id, name], beliefs first, no id twice
    None

Adapters == <<"axion", "visreplay", "lexverdict", "vekinbox", "viscompile">>

ASSUME AgentRunAssumption == FixtureRows \in Nat /\ BatchItems \in Seq(Range(BatchItems))

VARIABLES
    cfg,      \* the configuration and flags of this run
    phase,    \* how far startLatticeRun, executeRun and finishLatticeRun are
    todo,     \* adapters still to start, or to stop
    live,     \* adapters whose ctx is set
    ingest,   \* is the ingest server listening
    pid,      \* is bus.pid this run's
    child,    \* None, "up", or how the child ended: "zero", "fail", "signal"
    exit,     \* the exit code of the process, or None
    tasks,    \* handlers awaiting the network, a process or a timer
    mem,      \* the adapters' sets: verified, created, resolved, beliefs, recorded
    rows,     \* unused approved rows of the approvals fixture
    timer,    \* the file visreplay's debounce timer is for, or None
    proj,     \* viscompile's projecting: "no", "busy", "done", "failed"
    inputs    \* inputs so far

runVars == <<cfg, phase, todo, live, ingest, pid, child, exit>>
adapterVars == <<tasks, mem, rows, timer, proj>>
vars == <<busVars, runVars, adapterVars, inputs>>

Alive == phase \notin {"gone", "crashed"}

Event(name, cause, data) == [name |-> name, cause |-> cause, data |-> data,
                             on |-> "void", ctx |-> None, next |-> <<>>]
AdapterError(cause, on) == <<[Event("adapter_error", cause, None) EXCEPT !.on = on]>>

\* The events es, one after the other, for the owner on.
Plan(es, on, ctx) ==
    IF es = <<>> THEN <<>> ELSE <<[Head(es) EXCEPT !.on = on, !.ctx = ctx, !.next = Tail(es)]>>

InFlight(on) == \E e \in Range(queue) \union {j.emit : j \in cur} : e.on = on

Init ==
    /\ BusInit
    /\ cfg \in Configs /\ persistFail = cfg.persist
    /\ phase = "boot" /\ todo = Adapters /\ live = {} /\ ingest = FALSE /\ pid = TRUE
    /\ child = None /\ exit = None
    /\ tasks = {} /\ timer = None /\ proj = "no"
    /\ mem = [created |-> {}, resolved |-> {}, beliefs |-> {}, recorded |-> {}]
    /\ rows = IF cfg.fixtures THEN FixtureRows ELSE 0
    /\ inputs = [post |-> 0, hook |-> 0, save |-> 0, batch |-> 0]

Input(kind) == inputs[kind] < cfg.inputs[kind] /\ inputs' = [inputs EXCEPT ![kind] = @ + 1]

\* An unhandled rejection: nothing is stopped, closed or removed.
Crash == /\ phase' = "crashed" /\ exit' = 1
         /\ UNCHANGED <<busVars, cfg, todo, live, ingest, pid, child, adapterVars>>

(***************************************************************************)
(* Start: ingest, the adapters in order, the child.                        *)
(***************************************************************************)
Started == {a \in Range(Adapters) : a \notin Range(todo)}

\* The catch of startLatticeRun, after startAdapters stopped those it had started.
FailStart == /\ phase' = "stopping"
             /\ todo' = Reverse(SelectSeq(Adapters, LAMBDA a : a \in Started))
             /\ UNCHANGED <<busVars, cfg, live, ingest, pid, child, exit, adapterVars, inputs>>

StartIngest ==
    /\ phase = "boot" /\ ~ingest
    /\ \/ ingest' = TRUE /\ UNCHANGED <<busVars, cfg, phase, todo, live, pid, child, exit, adapterVars, inputs>>
       \/ FailStart

\* The events of a batch: all are caused by its first belief, whose id is
\* minted before any of them is emitted.
Caused(items) ==
    LET cause == IF items # <<>> /\ items[1].name = "belief_extracted" THEN Own ELSE None
    IN  [i \in DOMAIN items |-> Event(items[i].name, cause, items[i].id)]

\* emitFixture: the batch of the fixture file, not noted in the seen sets.
FixtureBatch == Caused(BatchItems)

StartAdapter ==
    /\ phase = "boot" /\ ingest /\ todo # <<>> /\ ~InFlight("start")
    /\ \/ /\ live' = live \union {Head(todo)} /\ todo' = Tail(todo)
          /\ Emit(IF Head(todo) = "axion" /\ cfg.fixtures THEN Plan(FixtureBatch, "start", None) ELSE <<>>)
          /\ UNCHANGED <<cfg, phase, ingest, pid, child, exit, adapterVars, inputs>>
       \/ FailStart

Spawn ==
    /\ phase = "boot" /\ todo = <<>> /\ ~InFlight("start")
    /\ phase' = "running" /\ child' = "up"
    /\ UNCHANGED <<busVars, cfg, todo, live, ingest, pid, exit, adapterVars, inputs>>

(***************************************************************************)
(* What arrives: the child's posts to ingest, Axion's batches, VekInbox's  *)
(* webhooks, session files.                                                *)
(***************************************************************************)
\* POST /generic: emit, then answer.  A causation_id of the caller's, which is
\* Given, is passed on as it is.
Given == -2
Post(name, cause, data) ==
    /\ Alive /\ child = "up" /\ ingest /\ Input("post")
    /\ Emit(Plan(<<Event(name, cause, data)>>, "http", None))
    /\ UNCHANGED <<runVars, adapterVars>>

\* emitBeliefBatch: what was not seen is noted as seen, then emitted.
EmitBatch(items, on) ==
    LET fresh  == {i \in DOMAIN items : items[i].id \notin mem.beliefs}
        Nth(n) == items[CHOOSE i \in fresh : Cardinality({j \in fresh : j <= i}) = n] IN
    /\ mem' = [mem EXCEPT !.beliefs = @ \union {items[i].id : i \in fresh}]
    /\ Emit(Plan(Caused([n \in 1..Cardinality(fresh) |-> Nth(n)]), on, None))

Webhook ==
    /\ Alive /\ ingest /\ cfg.axion = "webhook" /\ "axion" \in live /\ Input("batch")
    /\ EmitBatch(BatchItems, "http")
    /\ UNCHANGED <<runVars, tasks, rows, timer, proj>>

PollAxion ==
    /\ phase = "running" /\ cfg.axion = "poll" /\ "axion" \in live /\ Input("batch")
    /\ tasks' = tasks \union {[k |-> "beliefs", ev |-> 0, on |-> "void"]}
    /\ UNCHANGED <<busVars, runVars, mem, rows, timer, proj>>

SaveSession(f) ==
    /\ child = "up" /\ Alive /\ "visreplay" \in live /\ Input("save")
    /\ timer' = f
    /\ UNCHANGED <<busVars, runVars, tasks, mem, rows, proj>>

\* The debounce timer: emitSessionRecorded, once for a path; nothing for a
\* file that does not parse.
SessionTimer ==
    /\ Alive /\ timer # None /\ timer' = None
    /\ \/ /\ "visreplay" \in live /\ timer \notin mem.recorded
          /\ mem' = [mem EXCEPT !.recorded = @ \union {timer}]
          /\ Emit(<<Event("session_recorded", None, timer)>>)
       \/ UNCHANGED <<busVars, mem>>
    /\ UNCHANGED <<runVars, tasks, rows, proj, inputs>>

(***************************************************************************)
(* VekInbox: one approval for a key, whoever learns of it first.           *)
(***************************************************************************)
Asks(e) == <<e.name, e.data>> \in {<<"verdict", "steer">>, <<"policy_decision", "CHALLENGE">>}

\* approval_granted, then the receipt and the compensation of the metadata.
Approval(v) == <<Event("approval_granted", v, None)>> \o
    IF cfg.extra THEN <<Event("receipt_issued", v, None), Event("compensation_executed", v, None)>> ELSE <<>>

\* resolveApproved: the key is taken before the first await.
ResolveApproved(v, on) ==
    \/ v \in mem.resolved /\ UNCHANGED <<busVars, mem>>
    \/ /\ v \notin mem.resolved
       /\ mem' = [mem EXCEPT !.resolved = @ \union {v}]
       /\ Emit(Plan(Approval(v), on, "vekinbox"))

\* handleIngest of vekinbox, for a request VekInbox was asked to create.
Hook(v) ==
    /\ Alive /\ ingest /\ "vekinbox" \in live /\ ~cfg.fixtures /\ v \in mem.created
    /\ Input("hook")
    /\ ResolveApproved(v, "http")
    /\ UNCHANGED <<runVars, tasks, rows, timer, proj>>

\* createFromEvent after POST /requests.
CreateAnswered(t, ok) ==
    /\ tasks' = (tasks \ {t}) \union
                (IF ok /\ ~cfg.auto THEN {[t EXCEPT !.k = "poll"]} ELSE {})
    /\ \/ ~cfg.auto /\ UNCHANGED <<busVars, mem>>
       \/ cfg.auto /\ ok /\ ResolveApproved(t.ev, "auto")
       \/ /\ cfg.auto /\ ~ok /\ t.ev \notin mem.resolved      \* emitSyntheticAutoApprove
          /\ mem' = [mem EXCEPT !.resolved = @ \union {t.ev}]
          /\ Emit(<<Event("approval_granted", t.ev, None)>>)
       \/ cfg.auto /\ ~ok /\ t.ev \in mem.resolved /\ UNCHANGED <<busVars, mem>>

\* waitForResolution: an answer that ends the polling.
PollAnswered(t, approved) ==
    /\ tasks' = tasks \ {t}
    /\ IF approved THEN ResolveApproved(t.ev, "poll") ELSE UNCHANGED <<busVars, mem>>

(***************************************************************************)
(* The tasks of the adapters come back.                                    *)
(***************************************************************************)
OwnerOf(t) == [verify |-> "lexverdict", create |-> "vekinbox", poll |-> "vekinbox",
               project |-> "viscompile", beliefs |-> "axion"][t.k]

\* onToolObserved after POST /v1/verify: the verdict, or the error.
VerifyAnswered(t, verdict) ==
    /\ tasks' = tasks \ {t} /\ mem' = mem
    /\ Emit(IF verdict = "fail" THEN AdapterError(t.ev, "void")
            ELSE Plan(<<Event("verdict", t.ev, verdict)>>, "verdict", None))

\* doProjection: the diff, or the error it ends in.
Projected(t, ok) ==
    /\ tasks' = tasks \ {t} /\ mem' = mem
    /\ Emit(IF ok THEN Plan(<<Event("diff_computed", None, None)>>, t.on, None)
            ELSE AdapterError(None, t.on))

\* A handler whose adapter has been stopped reads ctx.bus or ctx.env of
\* undefined, in its catch too; poll looks first.
TaskAnswered(t) ==
    /\ Alive
    /\ \/ /\ OwnerOf(t) \in live
          /\ \/ t.k = "verify" /\ \E v \in {"pass", "steer", "fail"} : VerifyAnswered(t, v)
             \/ t.k = "create" /\ \E ok \in BOOLEAN : CreateAnswered(t, ok)
             \/ t.k = "poll" /\ \E approved \in BOOLEAN : PollAnswered(t, approved)
             \/ t.k = "project" /\ \E ok \in BOOLEAN : Projected(t, ok)
             \/ t.k = "beliefs" /\ tasks' = tasks \ {t} /\ EmitBatch(BatchItems, "void")
          /\ UNCHANGED <<runVars, rows, timer, proj, inputs>>
       \/ OwnerOf(t) \notin live /\ t.k # "poll" /\ Crash /\ UNCHANGED inputs

(***************************************************************************)
(* An emit settles: its owner goes on, and the subscribers get the event.  *)
(***************************************************************************)
Continues(e, ok) == ok /\ (e.ctx = None \/ e.ctx \in live)

\* What was planned on the id of an event that now has the number n.
After(es, n) == [i \in DOMAIN es |-> [es[i] EXCEPT !.cause = Named(@, n)]]

\* The catch of an owner, where there is one.
Again == [session |-> "sessionAgain", stop |-> "stopAgain"]
\* Mutant: the catch of runProjection neither emits nor ends the projection.
OwnerEmitsQuiet(e, n, ok) ==
    CASE Continues(e, ok) -> Plan(After(e.next, n), e.on, None)
      [] ~ok /\ e.on = "verdict" -> AdapterError(e.cause, "void")
      [] OTHER -> <<>>
OwnerEmits(e, n, ok) ==
    CASE Continues(e, ok) -> Plan(After(e.next, n), e.on, None)
      [] ~ok /\ e.on = "verdict" -> AdapterError(e.cause, "void")
      [] ~ok /\ e.on \in DOMAIN Again -> AdapterError(None, Again[e.on])
      [] OTHER -> <<>>
OwnerDies(e, ok) ==
    /\ ~Continues(e, ok)
    /\ \/ e.on \in {"void", "sessionAgain"}
       \/ e.on = "verdict" /\ "lexverdict" \notin live
       \/ e.on = "auto" /\ "vekinbox" \notin live

\* runProjection keeps projecting set, whatever came of it.
ProjAfter(e, ok) ==
    IF e.on \in DOMAIN Again \union {"sessionAgain", "stopAgain"}
    THEN IF ok THEN "done" ELSE IF e.on \in DOMAIN Again THEN "busy" ELSE "failed"
    ELSE proj

\* createFromEvent from a fixture: the first unused approved row.
TakesRow(e) == cfg.fixtures /\ rows > 0 /\ Asks(e) /\ "vekinbox" \in live

\* The subscribers of an event that has been persisted with number n.
Subscribers(e, n, ok) ==
    LET asks == ok /\ Asks(e) /\ "vekinbox" \in live
        records == ok /\ e.name = "session_recorded" /\ "viscompile" \in live
    IN  /\ mem' = IF asks THEN [mem EXCEPT !.created = @ \union {n},
                                           !.resolved = @ \union (IF TakesRow(e) THEN {n} ELSE {})]
                  ELSE mem
        /\ rows' = IF asks /\ TakesRow(e) THEN rows - 1 ELSE rows
        /\ tasks' = tasks
             \union (IF ok /\ e.name = "tool_observed" /\ "lexverdict" \in live
                     THEN {[k |-> "verify", ev |-> n, on |-> "void"]} ELSE {})
             \union (IF asks /\ ~cfg.fixtures THEN {[k |-> "create", ev |-> n, on |-> "void"]} ELSE {})
             \union (IF records /\ proj = "no" THEN {[k |-> "project", ev |-> 0, on |-> "session"]} ELSE {})
        /\ proj' = IF records /\ proj = "no" THEN "busy" ELSE ProjAfter(e, ok)

SubscriberDies(e, ok) == ok /\ e.name = "session_recorded" /\ "viscompile" \in live /\ proj = "failed"
RowEmits(e, n, ok) ==
    IF ok /\ TakesRow(e) THEN Plan(Approval(n), "void", IF cfg.extra THEN "vekinbox" ELSE None) ELSE <<>>

\* start rejects: axion is not among the adapters startAdapters stops.
StartFails(e, ok) == e.on = "start" /\ ~ok
AfterStart(e, ok) ==
    /\ phase' = IF StartFails(e, ok) THEN "stopping" ELSE phase
    /\ todo' = IF StartFails(e, ok) THEN <<>> ELSE todo
    /\ UNCHANGED <<cfg, live, ingest, pid, child, exit, timer, inputs>>

EmitSettles(j) ==
    LET e == j.emit
        ok == j.step = "done"
    IN  /\ Alive
        /\ IF OwnerDies(e, ok) \/ SubscriberDies(e, ok)
           THEN j.step \in {"done", "failed"} /\ Crash /\ UNCHANGED inputs
           ELSE /\ Settle(j, OwnerEmits(e, j.seq, ok) \o RowEmits(e, j.seq, ok))
                /\ Subscribers(e, j.seq, ok)
                /\ AfterStart(e, ok)

EmitRefused ==
    /\ Alive /\ queue # <<>>
    /\ LET e == Head(queue) IN
       IF OwnerDies(e, FALSE)
       THEN TailFree /\ (closed \/ busFaults < MaxBusFaults) /\ Crash /\ UNCHANGED inputs
       ELSE /\ Refuse(OwnerEmits(e, None, FALSE))
            /\ proj' = ProjAfter(e, FALSE)
            /\ AfterStart(e, FALSE)
            /\ UNCHANGED <<tasks, mem, rows>>

\* The file system answers the bus.
BusRuns == Alive /\ BusStep /\ UNCHANGED <<runVars, adapterVars, inputs>>

(***************************************************************************)
(* The child ends; finishLatticeRun and shutdownRun.                       *)
(***************************************************************************)
ChildExits(how) ==
    /\ phase = "running" /\ child = "up"
    /\ child' = how /\ phase' = "finishing"
    /\ UNCHANGED <<busVars, cfg, todo, live, ingest, pid, exit, adapterVars, inputs>>

\* The daemon has answered sync.flush and run.finish, or has not.
Finish ==
    /\ phase = "finishing"
    /\ phase' = "stopping" /\ todo' = Reverse(Adapters)
    /\ UNCHANGED <<busVars, cfg, live, ingest, pid, child, exit, adapterVars, inputs>>

\* stopAdapters, last adapter first: viscompile's stop projects, or waits for
\* the projection.  The stops after it await nothing, nor does ingest.close
\* before it has stopped listening: they follow in one turn of the event loop.
StopProjects ==
    /\ phase = "stopping" /\ "viscompile" \in Range(todo) /\ proj = "no"
    /\ proj' = "busy" /\ tasks' = tasks \union {[k |-> "project", ev |-> 0, on |-> "stop"]}
    /\ UNCHANGED <<busVars, runVars, mem, rows, timer, inputs>>

StopRest ==
    /\ phase = "stopping" /\ (ingest \/ todo # <<>>)
    /\ "viscompile" \in Range(todo) => proj \in {"done", "failed"}
    /\ todo' = <<>> /\ ingest' = FALSE
    /\ live' = live \ (Range(todo) \ IF proj = "failed" THEN {"viscompile"} ELSE {})
    /\ timer' = IF "visreplay" \in Range(todo) THEN None ELSE timer
    /\ tasks' = IF "vekinbox" \in Range(todo) THEN {t \in tasks : t.k # "poll"} ELSE tasks
    /\ UNCHANGED <<busVars, cfg, phase, pid, child, exit, mem, rows, proj, inputs>>

\* ingest.close has answered the requests that were under way.
CloseRunBus ==
    /\ phase = "stopping" /\ todo = <<>> /\ ~ingest /\ ~InFlight("http")
    /\ phase' = "closing" /\ CloseBus
    /\ UNCHANGED <<cfg, todo, live, ingest, pid, child, exit, adapterVars, inputs>>

\* The exit code of a run that reached its end.
ExitCode(pending) ==
    CASE child = None -> 4
      [] child # None /\ cfg.failOnSync /\ pending -> 5
      [] OTHER -> IF child = "zero" THEN 0 ELSE 2

\* removeBusPid and the exit: process.exit, or the end of the event loop.
End ==
    /\ phase = "closing" /\ Drained
    /\ pid' = FALSE
    /\ \E pending \in BOOLEAN : exit' = ExitCode(pending)
    /\ phase' = IF exit' = 0 THEN "ended" ELSE "gone"
    /\ UNCHANGED <<busVars, cfg, todo, live, ingest, child, adapterVars, inputs>>

Next ==
    \/ StartIngest \/ StartAdapter \/ Spawn
    \/ \E cause \in {None, Given} :
          \/ Post("tool_observed", cause, None) \/ Post("verdict", cause, "steer")
          \/ Post("policy_decision", cause, "CHALLENGE")
    \/ Webhook \/ PollAxion \/ SessionTimer
    \/ \E f \in Files : SaveSession(f)
    \/ \E v \in mem.created : Hook(v)
    \/ \E t \in tasks : TaskAnswered(t)
    \/ BusRuns \/ EmitRefused \/ \E j \in cur : EmitSettles(j)
    \/ \E how \in {"zero", "fail", "signal"} : ChildExits(how)
    \/ Finish \/ StopProjects \/ StopRest \/ CloseRunBus \/ End

(***************************************************************************)
(* Fairness: the process runs what is ready; the file system answers; the  *)
(* lattice binary is run with a timeout of 60 s, so a projection comes     *)
(* back.  Nothing is assumed of the child, the products or the network.    *)
(***************************************************************************)
Fairness ==
    /\ WF_vars(BusRuns) /\ WF_vars(EmitRefused) /\ WF_vars(\E j \in cur : EmitSettles(j))
    /\ WF_vars(\E t \in tasks : t.k = "project" /\ TaskAnswered(t))
    /\ WF_vars(Finish) /\ WF_vars(StopProjects) /\ WF_vars(StopRest)
    /\ WF_vars(CloseRunBus) /\ WF_vars(End)

Spec == Init /\ [][Next]_vars /\ Fairness

(***************************************************************************)
(* Properties                                                              *)
(***************************************************************************)
\* The JSONL file and its rotated parts hold the events in the order of their
\* numbers, through rotation, overflow diagnostics and failed appends.
LogInOrder == \A a, b \in DOMAIN Written : a < b => Written[a].seq < Written[b].seq

\* With persist_fail "throw", what reacts to an event reacts to an event that
\* is in the file: every task, and every cause the run sets itself, is a
\* line's number, that of a batch too, which is named before it is emitted.
\* Of a causation_id the ingest server was given nothing is known: it is
\* written down unchecked.
CausesWritten ==
    persistFail = "throw" =>
        LET seqs == {x.seq : x \in Range(Written)} IN
        /\ \A x \in Range(Written) : x.cause \notin {None, Given} => x.cause \in seqs
        /\ \A t \in tasks : t.ev # 0 => t.ev \in seqs

\* A verdict that asks for a person is granted at most once, though the
\* webhook, the poller and automatic approval all learn of the answer.
ApprovedOnce ==
    \A v \in mem.created : Cardinality({i \in DOMAIN Written :
        Written[i].name = "approval_granted" /\ Written[i].cause = v}) <= 1

\* A run has one diff, however many sessions are recorded and whether one of
\* them or the stop asked for it.
OneDiff == Cardinality({i \in DOMAIN Written : Written[i].name = "diff_computed"}) <= 1

\* Once the child has ended, the run ends: adapters, ingest and bus do not
\* wait for each other for ever.
RunEnds == phase = "finishing" ~> phase \in {"ended", "gone", "crashed"}

\* The exit codes the comment in run.ts lists: 2 for a child that failed, 128
\* and its number for a signal.
ExitPolicy ==
    phase = "gone" /\ exit # 5 => (child = "fail" => exit = 2) /\ (child = "signal" => exit >= 128)
=============================================================================
