--------------------------- MODULE StagePipeline ---------------------------
(***************************************************************************)
(* The in-process SDK: class LatticeAG (core/src/lattice.ts) and its stages *)
(* (core/src/stages/*.ts) over the bus of one run.                         *)
(*                                                                         *)
(* A caller runs a pipeline, one stage after the other, while others run   *)
(* theirs.  A stage may call the next one itself: an observed tool is      *)
(* verified, a steer verdict asks for approval, an approval is followed by *)
(* a receipt.  frames holds the stages a caller is in, the innermost       *)
(* first; each of them has its own #guard, which reports an error before   *)
(* it passes it on.                                                        *)
(*                                                                         *)
(* An event is known by its seq (see EventBus); 0 is "no event".  Only the *)
(* owner's bus is modelled, and handlers of registerStage are not.         *)
(***************************************************************************)
EXTENDS EventBus

CONSTANTS
    Callers,
    Overlays,      \* the ways a run may be set up, see overlay
    VerdictRows,   \* rows of the verdict fixture: [tool, verdict]
    None,
    MaxFaults      \* bound on failed probes, posts and saves

VARIABLES
    overlay,   \* pipelines: the step lists each caller may run; auto: the
               \* stages that follow by themselves; fixtures: the stages whose
               \* fixture file parses; override: the backend asked for, or
               \* None; approval: the status of the fixture's row, or None;
               \* autoApproves: shouldAutoApprove(env);
               \* wraps: wrap() is called, before the first stage if at all;
               \* persist: the bus's persist_fail
    callers,   \* what each caller does
    cache,     \* #cache: stage -> backend kind, or None
    fixtures,  \* whether the fixture files are read: "no", "reading", "read"
    used,      \* rows of #verdictFixtures with used = true
    seen,      \* #seenBeliefIds
    tools,     \* #seenTools: key -> event
    verdicts,  \* #verdicts: cause -> event
    known,     \* #eventsById: the lines of the events delivered
    wrapped, recorded, shut,  \* #visReplay, #recorded, #closed
    faults

own == <<overlay, cache, fixtures, used, seen, tools, verdicts, known, wrapped, recorded, shut, faults>>
vars == <<callers, own, busVars>>

Idle == [frames |-> <<>>, step |-> "idle", todo |-> <<>>, kind |-> None]

Init ==
    /\ BusInit
    /\ callers = [c \in Callers |-> Idle]
    /\ overlay \in Overlays
    /\ cache = [s \in DOMAIN overlay.override |-> None] /\ fixtures = "no"
    /\ used = {} /\ seen = {} /\ tools = <<>> /\ verdicts = <<>> /\ known = {}
    /\ wrapped = overlay.wraps /\ persistFail = overlay.persist /\ recorded = FALSE /\ shut = FALSE /\ faults = 0

Stage(c) == Head(callers[c].frames)
At(c, stage, step) == callers[c].frames # <<>> /\ Stage(c).stage = stage /\ callers[c].step = step
Kinds == {"fixture", "local", "proxy", "hosted"}

Emission(c, name, cause, data) ==
    [name |-> name, cause |-> cause, data |-> data, call |-> c]

----------------------------------------------------------------------------
(* What a caller does when a stage returns or throws. *)

\* Mutant: a failed record() ends close().
AfterStepLost(k, ok) ==
    IF ok /\ Len(k.frames) > 1 /\ Last(k.frames).stage = "close"
    THEN [k EXCEPT !.frames = <<Last(k.frames)>>, !.step = "closing"]
    ELSE IF ok /\ k.todo # <<>>
    THEN [k EXCEPT !.frames = <<Head(k.todo)>>, !.todo = Tail(k.todo), !.step = "enter"]
    ELSE [Idle EXCEPT !.step = IF ok THEN "ok" ELSE "failed"]
\* close() goes on whatever record() did; a pipeline goes to its next step, and
\* the caller is done after the last.
AfterStep(k, ok) ==
    IF Len(k.frames) > 1 /\ Last(k.frames).stage = "close"
    THEN [k EXCEPT !.frames = <<Last(k.frames)>>, !.step = "closing"]
    ELSE IF ok /\ k.todo # <<>>
    THEN [k EXCEPT !.frames = <<Head(k.todo)>>, !.todo = Tail(k.todo), !.step = "enter"]
    ELSE [Idle EXCEPT !.step = IF ok THEN "ok" ELSE "failed"]

\* The error goes out of the innermost frame: its #guard reports it, unless
\* its code is one that is passed on as it is.
Throw(c) ==
    /\ callers' = [callers EXCEPT ![c].step = "report"]
    /\ Emit(<<Emission(c, "adapter_error", 0, Stage(c).stage)>>)

PassOn(c) == callers' = [callers EXCEPT ![c] = AfterStep(@, FALSE)]

\* The adapter_error settled, either way: the next guard reports it again.
Reported(c) ==
    LET k == [callers[c] EXCEPT !.frames = Tail(@)] IN
    IF k.frames = <<>> \/ Head(k.frames).stage = "close"
    THEN [emits |-> <<>>, caller |-> AfterStep(callers[c], FALSE)]
    ELSE [emits |-> <<Emission(c, "adapter_error", 0, Head(k.frames).stage)>>, caller |-> k]

\* The stage that follows the event by itself, or None.
Follows(stage, line) ==
    CASE stage = "observe" /\ "verify" \in overlay.auto ->
             [stage |-> "verify", cause |-> line.seq, arg |-> line.data, force |-> FALSE]
      [] stage = "verify" /\ "approve" \in overlay.auto /\ line.data = "steer" ->
             [stage |-> "approve", cause |-> line.seq, arg |-> "", force |-> FALSE]
      [] stage = "approve" /\ "receipt" \in overlay.auto ->
             [stage |-> "receipt", cause |-> line.seq, arg |-> "", force |-> FALSE]
      [] OTHER -> None

\* A stage has its event: the stage that follows, or the end of the step.
Continue(k, line) ==
    LET next == Follows(Head(k.frames).stage, line) IN
    IF next = None THEN AfterStep(k, TRUE)
    ELSE [k EXCEPT !.frames = <<next>> \o @, !.step = "enter"]

Fails(c) == faults < MaxFaults /\ faults' = faults + 1

----------------------------------------------------------------------------
(* Entering a stage: assertOpen, the fixtures, the backend. *)

Start(c) ==
    /\ callers[c].step = "idle"
    /\ \E p \in overlay.pipelines[c] :
          callers' = [callers EXCEPT ![c] = AfterStep([@ EXCEPT !.todo = p], TRUE)]
    /\ UNCHANGED <<own, busVars>>

EnterClosed(c) ==
    /\ callers[c].step = "enter" /\ shut
    /\ IF Stage(c).stage = "close"
       THEN callers' = [callers EXCEPT ![c] = AfterStep(@, TRUE)]
       ELSE PassOn(c)
    /\ UNCHANGED <<own, busVars>>

Enter(c) ==
    /\ callers[c].step = "enter" /\ ~shut /\ Stage(c).stage \in {"inspect", "record", "receipt"}
    /\ callers' = [callers EXCEPT ![c].step = "resolve"]
    /\ UNCHANGED <<own, busVars>>

\* #ensureFixtures: the first caller reads the files, and those who come while
\* it does go on without rows.
EnsureFixtures(c) ==
    /\ callers[c].step = "enter" /\ ~shut /\ Stage(c).stage \in {"verify", "approve"}
    /\ fixtures' = IF fixtures = "no" THEN "reading" ELSE fixtures
    /\ callers' = [callers EXCEPT ![c].step = IF fixtures = "no" THEN "read" ELSE "resolve"]
    /\ UNCHANGED <<overlay, cache, used, seen, tools, verdicts, known, wrapped, recorded, shut, faults, busVars>>

FixturesRead(c) ==
    /\ callers[c].step = "read"
    /\ fixtures' = "read"
    /\ callers' = [callers EXCEPT ![c].step = "resolve"]
    /\ UNCHANGED <<overlay, cache, used, seen, tools, verdicts, known, wrapped, recorded, shut, faults, busVars>>

\* probeKind: what the probe of a kind may say.
Probe(stage, kind) ==
    CASE kind = "fixture" -> {stage \in overlay.fixtures}
      [] stage = "record" -> {kind = "local"}
      [] OTHER -> BOOLEAN

\* The kind resolveBackend settles on: the override or nothing; else the
\* first kind in this order whose probe is good.
Resolved(stage, kind) ==
    IF overlay.override[stage] # None
    THEN kind \in (IF TRUE \in Probe(stage, overlay.override[stage]) THEN {overlay.override[stage]} ELSE {})
                  \union (IF FALSE \in Probe(stage, overlay.override[stage]) THEN {None} ELSE {})
    ELSE LET order == <<"fixture", "local", "proxy", "hosted">> IN
         \/ \E i \in 1..4 : /\ kind = order[i] /\ TRUE \in Probe(stage, kind)
                            /\ \A j \in 1..(i - 1) : FALSE \in Probe(stage, order[j])
         \/ kind = None /\ \A i \in 1..4 : FALSE \in Probe(stage, order[i])

Resolve(c) ==
    LET s == Stage(c).stage IN
    /\ callers[c].step = "resolve" /\ UNCHANGED <<overlay, fixtures, used, seen, tools, verdicts, known, wrapped, recorded, shut>>
    /\ \/ /\ cache[s] # None
          /\ callers' = [callers EXCEPT ![c].step = "execute", ![c].kind = cache[s]]
          /\ UNCHANGED <<overlay, cache, faults, busVars>>
       \/ /\ cache[s] = None
          /\ callers' = [callers EXCEPT ![c].step = "probe"]
          /\ UNCHANGED <<overlay, cache, faults, busVars>>

\* The probes have answered; another caller may have filled the cache meanwhile.
Probed(c) ==
    LET s == Stage(c).stage IN
    /\ callers[c].step = "probe" /\ UNCHANGED <<overlay, fixtures, used, seen, tools, verdicts, known, wrapped, recorded, shut>>
    /\ \E kind \in Kinds \union {None} :
          /\ Resolved(s, kind)
          /\ IF kind = None
             THEN Fails(c) /\ Throw(c) /\ UNCHANGED cache
             ELSE /\ cache' = [cache EXCEPT ![s] = kind]
                  /\ callers' = [callers EXCEPT ![c].step = "execute", ![c].kind = kind]
                  /\ UNCHANGED <<faults, busVars>>

----------------------------------------------------------------------------
(* The stages. *)

\* The stage's event goes to the bus.
Sends(c, name, cause, data) ==
    /\ callers' = [callers EXCEPT ![c].step = "emit"]
    /\ Emit(<<Emission(c, name, cause, data)>>)

\* The first unused row of the tool, else the first unused one, else 0.
MatchRow(tool) ==
    LET free == {i \in 1..Len(VerdictRows) : i \notin used /\ fixtures = "read"}
        named == {i \in free : VerdictRows[i].tool = tool}
    IN  IF named # {} THEN Min(named) ELSE IF free # {} THEN Min(free) ELSE 0

\* executeVerify: the verdict there is for the cause, a row of the fixture, or
\* a request to LexVerdict.
Verify(c) ==
    LET f == Stage(c) IN
    /\ At(c, "verify", "execute")
    /\ UNCHANGED <<overlay, cache, fixtures, seen, tools, verdicts, known, wrapped, recorded, shut, faults>>
    /\ IF f.cause \in DOMAIN verdicts /\ ~f.force
       THEN /\ callers' = [callers EXCEPT ![c] = Continue(@, verdicts[f.cause])]
            /\ UNCHANGED <<used, busVars>>
       ELSE IF callers[c].kind # "fixture"
       THEN callers' = [callers EXCEPT ![c].step = "post"] /\ UNCHANGED <<used, busVars>>
       ELSE LET row == MatchRow(f.arg) IN
            IF row = 0 THEN Throw(c) /\ UNCHANGED used
            ELSE /\ used' = used \union {row}
                 /\ Sends(c, "verdict", f.cause, VerdictRows[row].verdict)

\* LexVerdict answers, or the request fails or times out.
VerifyAnswered(c) ==
    /\ At(c, "verify", "post")
    /\ UNCHANGED <<overlay, cache, fixtures, used, seen, tools, verdicts, known, wrapped, recorded, shut>>
    /\ \/ \E v \in {"pass", "steer"} : Sends(c, "verdict", Stage(c).cause, v) /\ UNCHANGED faults
       \/ Fails(c) /\ Throw(c)

\* The source of an approval: a steer verdict among the events delivered.
AsksFor(cause) == \E l \in known : l.seq = cause /\ l.name = "verdict" /\ l.data = "steer"

\* executeApprove: the fixture's row, or automatic approval under a test key.
Approve(c) ==
    LET cause == Stage(c).cause IN
    /\ At(c, "approve", "execute")
    /\ UNCHANGED own
    /\ IF ~AsksFor(cause) THEN Throw(c)
       ELSE IF callers[c].kind = "fixture"
       THEN CASE overlay.approval = None \/ fixtures # "read" -> Throw(c)
              [] overlay.approval = "approved" -> Sends(c, "approval_granted", cause, "")
              [] OTHER -> Sends(c, "extension", cause, overlay.approval)
       ELSE IF overlay.autoApproves THEN Sends(c, "approval_granted", cause, "") ELSE Throw(c)

Receipt(c) ==
    /\ At(c, "receipt", "execute") /\ UNCHANGED own
    /\ Sends(c, "receipt_issued", Stage(c).cause, "")

\* executeObserveTool: a tool call already observed is not emitted again.
ObserveTool(c) ==
    LET f == Stage(c) IN
    /\ At(c, "observe", "enter") /\ ~shut /\ UNCHANGED own
    /\ IF f.arg \in DOMAIN tools
       THEN callers' = [callers EXCEPT ![c] = Continue(@, tools[f.arg])] /\ UNCHANGED busVars
       ELSE Sends(c, "tool_observed", f.cause, f.arg)

\* emitPartials notes a belief before it emits it.
Noted(belief) == {belief}

\* executeInspect: the batch belief by belief; the seen ones are passed over.
Inspect(c) ==
    LET beliefs == Stage(c).arg
        next == [callers[c] EXCEPT !.frames[1].arg = Tail(@)]
    IN
    /\ At(c, "inspect", "execute")
    /\ UNCHANGED <<overlay, cache, fixtures, used, tools, verdicts, known, wrapped, recorded, shut, faults>>
    /\ CASE beliefs = <<>> -> /\ callers' = [callers EXCEPT ![c] = AfterStep(@, TRUE)]
                              /\ UNCHANGED <<seen, busVars>>
         [] beliefs # <<>> /\ Head(beliefs) \in seen ->
                              /\ callers' = [callers EXCEPT ![c] = next]
                              /\ UNCHANGED <<seen, busVars>>
         [] OTHER -> /\ seen' = seen \union Noted(Head(beliefs))
                     /\ callers' = [callers EXCEPT ![c] = [next EXCEPT !.step = "emit"]]
                     /\ Emit(<<Emission(c, "belief_extracted", 0, Head(beliefs))>>)

\* executeRecord: the session is saved, which may fail, and reported.  Without
\* wrap() the fixture's session is reported.
Record(c) ==
    /\ At(c, "record", "execute")
    /\ UNCHANGED <<overlay, cache, fixtures, used, seen, tools, verdicts, known, wrapped, recorded, shut>>
    /\ \/ /\ callers[c].kind = "fixture" \/ wrapped
          /\ Sends(c, "session_recorded", 0, IF wrapped THEN "session" ELSE "fixture")
          /\ UNCHANGED faults
       \/ /\ wrapped /\ Fails(c) /\ Throw(c)
       \/ /\ callers[c].kind # "fixture" /\ ~wrapped
          /\ PassOn(c) /\ UNCHANGED <<faults, busVars>>

----------------------------------------------------------------------------
(* The bus answers. *)

\* The maps a stage fills when its event is there.
Remember(line, f) ==
    /\ known' = known \union {line}
    /\ tools' = IF line.name = "tool_observed" THEN (f.arg :> line) @@ tools ELSE tools
    /\ verdicts' = IF line.name = "verdict" /\ f.cause # 0 THEN (f.cause :> line) @@ verdicts ELSE verdicts
    /\ recorded' = (recorded \/ line.name = "session_recorded")
    /\ UNCHANGED <<overlay, cache, fixtures, used, seen, wrapped, shut, faults>>

\* An emit settled.  A rejected approval is an extension event, then an error
\* that is passed on; a belief is followed by the next of its batch.
Settled(j) ==
    LET c == j.emit.call
        line == Line(j.emit, j.seq)
    IN
    /\ j.step = "done" /\ j.emit.name # "adapter_error"
    /\ Settle(j, <<>>)
    /\ Remember(line, Stage(c))
    /\ callers' = [callers EXCEPT ![c] =
           CASE j.emit.name = "extension" -> AfterStep(@, FALSE)
             [] j.emit.name = "belief_extracted" -> [@ EXCEPT !.step = "execute"]
             [] OTHER -> Continue(@, line)]

\* The append of a stage's event failed.
SettledBadly(j) ==
    LET c == j.emit.call IN
    /\ j.step = "failed" /\ j.emit.name # "adapter_error"
    /\ Settle(j, <<Emission(c, "adapter_error", 0, Stage(c).stage)>>)
    /\ callers' = [callers EXCEPT ![c].step = "report"]
    /\ UNCHANGED own

ReportSettled(j) ==
    LET c == j.emit.call IN
    /\ j.step \in {"done", "failed"} /\ j.emit.name = "adapter_error"
    /\ Settle(j, Reported(c).emits)
    /\ callers' = [callers EXCEPT ![c] = Reported(c).caller]
    /\ UNCHANGED own

\* The bus refused the emit at the head of its queue.
Refused ==
    /\ queue # <<>>
    /\ LET c == Head(queue).call
           r == IF Head(queue).name = "adapter_error" THEN Reported(c)
                ELSE [emits |-> <<Emission(c, "adapter_error", 0, Stage(c).stage)>>,
                      caller |-> [callers[c] EXCEPT !.step = "report"]]
       IN Refuse(r.emits) /\ callers' = [callers EXCEPT ![c] = r.caller]
    /\ UNCHANGED own

----------------------------------------------------------------------------
(* close(): the session is recorded first when there is one to record. *)

SessionOwed == wrapped /\ ~recorded

EnterClose(c) ==
    /\ At(c, "close", "enter") /\ ~shut
    /\ callers' = [callers EXCEPT ![c] =
           IF SessionOwed
           THEN [@ EXCEPT !.frames = <<[stage |-> "record", cause |-> 0, arg |-> "", force |-> FALSE]>> \o @]
           ELSE [@ EXCEPT !.step = "closing"]]
    /\ UNCHANGED <<own, busVars>>

\* The flag, then the adapters and the ingest server stop.
Closing(c) ==
    /\ At(c, "close", "closing")
    /\ shut' = TRUE
    /\ callers' = [callers EXCEPT ![c].step = "stopping"]
    /\ UNCHANGED <<overlay, cache, fixtures, used, seen, tools, verdicts, known, wrapped, recorded, faults, busVars>>

Stopped(c) ==
    /\ At(c, "close", "stopping")
    /\ CloseBus
    /\ callers' = [callers EXCEPT ![c] = AfterStep(@, TRUE)]
    /\ UNCHANGED own

Step(c) ==
    \/ Start(c) \/ EnterClosed(c) \/ Enter(c) \/ EnsureFixtures(c) \/ FixturesRead(c)
    \/ (callers[c].frames # <<>> /\ (Resolve(c) \/ Probed(c)))
    \/ Verify(c) \/ VerifyAnswered(c) \/ Approve(c) \/ Receipt(c) \/ ObserveTool(c)
    \/ Inspect(c) \/ Record(c) \/ EnterClose(c) \/ Closing(c) \/ Stopped(c)

BusAnswers == Refused \/ \E j \in cur : Settled(j) \/ SettledBadly(j) \/ ReportSettled(j)

Next == \/ \E c \in Callers : Step(c)
        \/ BusAnswers
        \/ BusStep /\ UNCHANGED <<callers, own>>

\* Promises of the process go on; requests and file calls come back.
Spec ==
    /\ Init /\ [][Next]_vars
    /\ \A c \in Callers : WF_vars(Step(c))
    /\ WF_vars(BusAnswers) /\ WF_vars(BusStep /\ UNCHANGED <<callers, own>>)

----------------------------------------------------------------------------
(* Properties *)

\* scan.ts emitPartials: a belief is in the log once, whoever finds it and
\* whatever becomes of the emits.
BeliefOnce ==
    \A i, k \in DOMAIN Written :
        /\ Written[i].name = "belief_extracted" /\ Written[k].name = "belief_extracted"
        /\ Written[i].data = Written[k].data
        => i = k

\* approve.ts: what is approved by itself goes back to a steer verdict, and a
\* receipt to an approval, each delivered before it.
ChainCaused ==
    \A l \in known :
        /\ l.name = "approval_granted" =>
              \E v \in known : v.name = "verdict" /\ v.data = "steer" /\ v.seq = l.cause /\ v.seq < l.seq
        /\ l.name = "receipt_issued" /\ l.cause # 0 =>
              \E g \in known : g.name = "approval_granted" /\ g.seq = l.cause /\ g.seq < l.seq

\* lattice.ts close: without faults a wrapped run is not over before its
\* session is in the log, whoever records it and however many close.
SessionKept ==
    Drained /\ wrapped /\ faults = 0 /\ busFaults = 0 =>
        \E i \in DOMAIN Written : Written[i].name = "session_recorded"

\* Every stage called returns or throws, and a close() closes the bus.
EndsAndCloses ==
    \A c \in Callers :
        /\ (callers[c].frames # <<>>) ~> (callers[c].step \in {"ok", "failed"})
        /\ (callers[c].frames # <<>> /\ Last(callers[c].frames).stage = "close") ~> closed
=============================================================================
