---------------------------- MODULE AdapterPipe ----------------------------
(***************************************************************************)
(* One run of a product's adapter process: AdapterClient of                *)
(* core/src/v2/lifecycle/adapter-client.ts, and the conversation the       *)
(* engine has over it (spawnClient, activate, stopChild of engine.ts, the  *)
(* readiness gate and the live probes of health.ts).                       *)
(*                                                                         *)
(* Two callers share the one outstanding request: the operation that       *)
(* starts or stops the product, and the live probes.  The adapter is       *)
(* external: it answers the requests in their order, as it likes or not    *)
(* at all, may write a line that is no reply, and may exit.  Lifecycle     *)
(* models what the engine does with the outcome; here is what the outcome  *)
(* rests on.                                                               *)
(***************************************************************************)
EXTENDS Naturals, Sequences

CONSTANTS
    Need,         \* readinessSuccesses
    FailLimit,    \* failureLimit, of the gate and of the live probes
    MaxRequests,  \* bound on the requests of a run
    MaxBadLines   \* bound on the lines that are no reply

ASSUME PipeAssumption == Need \in Nat /\ MaxRequests \in Nat

VARIABLES
    alive,     \* the adapter process runs
    todo,      \* the requests in its stdin
    lines,     \* the lines in its stdout
    said,      \* request -> what it answered, or "nothing"
    bad,
    counter, pending, closed, exited,  \* AdapterClient
    req,       \* caller -> its last request and how it was settled
    stage,     \* what the engine is at
    successes, failures,  \* the counters of the gate or of the live probes
    probing,   \* the live probe loop runs
    checks     \* the readiness checks of the gate, in order

process == <<alive, todo, lines, said, bad>>
client  == <<counter, pending, closed, exited>>
engine  == <<stage, successes, failures, probing, checks>>
pipeVars == <<process, client, req, engine>>

Callers == {"op", "probe"}
NoRequest == [id |-> 0, method |-> "none", out |-> "none", val |-> "none"]

Answers == [describe  |-> {"signed", "other"},
            configure |-> {"accepted", "refused"},
            start     |-> {"running"},
            health    |-> {"ready", "unready"},
            drain     |-> {"clean", "uncertain"},
            stop      |-> {"stopped"}]

PipeInit ==
    /\ alive = FALSE /\ todo = <<>> /\ lines = <<>>
    /\ said = [i \in 1..MaxRequests |-> "nothing"] /\ bad = 0
    /\ counter = 0 /\ pending = 0 /\ closed = FALSE /\ exited = FALSE
    /\ req = [c \in Callers |-> NoRequest]
    /\ stage = "off" /\ successes = 0 /\ failures = 0
    /\ probing = FALSE /\ checks = <<>>

----------------------------------------------------------------------------
(* AdapterClient *)

\* request: refused without a write when the process is gone or another request
\* is outstanding.
Request(c, method) ==
    LET Refused(why) == /\ req' = [req EXCEPT ![c] = [NoRequest EXCEPT !.method = method, !.out = why]]
                        /\ UNCHANGED <<counter, pending, todo>>
    IN  CASE closed \/ exited -> Refused("OUTCOME_UNKNOWN")
          [] ~(closed \/ exited) /\ pending # 0 -> Refused("BUSY")
          [] OTHER ->
               /\ counter < MaxRequests /\ counter' = counter + 1
               /\ pending' = counter + 1
               /\ todo' = Append(todo, [id |-> counter + 1, method |-> method])
               /\ req' = [req EXCEPT ![c] = [id |-> counter + 1, method |-> method,
                                             out |-> "waiting", val |-> "none"]]

Waiting(c) == req[c].out = "waiting"

\* The pending request is settled, its timer cleared.
Settled(out, val) ==
    [c \in Callers |-> IF Waiting(c) THEN [req[c] EXCEPT !.out = out, !.val = val] ELSE req[c]]

\* A bug: the timer is cleared and nobody is told.
BreachSettlesNobody == req
\* protocolBreach: a line too long, or no JSON.
BreachSettles == Settled("BODY_LIMIT", "none")

IsReplyTo(l) == l.id = pending

\* feed and dispatch of one line.
Feed ==
    /\ lines # <<>> /\ lines' = Tail(lines)
    /\ LET l == Head(lines) IN
       CASE l.kind = "breach" ->
              closed' = TRUE /\ pending' = 0 /\ req' = BreachSettles
         [] l.kind # "breach" /\ pending = 0 -> UNCHANGED <<closed, pending, req>>
         [] OTHER ->
              /\ pending' = 0 /\ UNCHANGED closed
              /\ req' = CASE l.kind = "reply" /\ IsReplyTo(l) /\ l.val # "error" -> Settled("ok", l.val)
                          [] l.kind = "reply" /\ IsReplyTo(l) /\ l.val = "error" -> Settled("error", "none")
                          [] OTHER -> Settled("SCHEMA_INVALID", "none")
    /\ UNCHANGED <<alive, todo, said, bad, counter, exited, engine>>

\* The timer of the pending request.
TimesOut ==
    /\ pending # 0 /\ pending' = 0
    /\ req' = Settled("OUTCOME_UNKNOWN", "none")
    /\ UNCHANGED <<process, counter, closed, exited, engine>>

\* handleExit, and onChildExit of the engine.
SeesExit ==
    /\ stage # "off" /\ ~alive /\ ~exited
    /\ exited' = TRUE /\ closed' = TRUE /\ pending' = 0
    /\ req' = Settled("OUTCOME_UNKNOWN", "none")
    /\ stage' = IF stage = "live" THEN "CRASHED" ELSE stage
    /\ UNCHANGED <<process, counter, successes, failures, probing, checks>>

----------------------------------------------------------------------------
(* The engine. *)

\* The adapter is spawned and the client made for it.
Spawn ==
    /\ stage = "off" /\ stage' = "describe" /\ alive' = TRUE
    /\ UNCHANGED <<todo, lines, said, bad, client, req, successes, failures, probing, checks>>

Fresh(c) == req[c].out = "none"
Got(c, val) == req[c].out = "ok" /\ req[c].val = val
Taken(c) == req' = [req EXCEPT ![c] = NoRequest]

\* The next request of the operation; the bound leaves room for drain and stop.
Ask(method) ==
    /\ stage = method /\ Fresh("op")
    /\ Request("op", method)
    /\ UNCHANGED <<alive, lines, said, bad, closed, exited, engine>>

\* readiness check of the gate.
Check ==
    /\ stage = "gate" /\ Fresh("op") /\ counter + 2 < MaxRequests
    /\ Request("op", "health")
    /\ checks' = Append(checks, counter')
    /\ UNCHANGED <<alive, lines, said, bad, closed, exited, stage, successes, failures, probing>>

\* spawnClient: each answer is checked, the first that will not do closes the
\* client.
Handshake ==
    LET Follows == [describe |-> "configure", configure |-> "start", start |-> "gate"]
        Good    == [describe |-> "signed", configure |-> "accepted", start |-> "running"]
    IN  /\ stage \in DOMAIN Follows /\ req["op"].out \notin {"none", "waiting"}
        /\ IF Got("op", Good[stage])
           THEN stage' = Follows[stage] /\ UNCHANGED closed
           ELSE stage' = "FAILED" /\ closed' = TRUE
        /\ Taken("op")
        /\ UNCHANGED <<process, counter, pending, exited, successes, failures, probing, checks>>

\* A bug: a failed check does not begin the count again.
AfterFailureKeeps(n) == n
AfterFailure(n) == 0

\* awaitReadiness: so many successes in a row; a candidate that fails is
\* stopped.
Gate ==
    /\ stage = "gate" /\ req["op"].out \notin {"none", "waiting"}
    /\ IF Got("op", "ready")
       THEN /\ successes' = successes + 1 /\ failures' = 0
            /\ IF successes + 1 >= Need
               THEN stage' = "live" /\ probing' = TRUE
               ELSE UNCHANGED <<stage, probing>>
       ELSE /\ successes' = AfterFailure(successes) /\ failures' = failures + 1
            /\ stage' = IF failures + 1 >= FailLimit THEN "drain" ELSE stage
            /\ UNCHANGED probing
    /\ Taken("op")
    /\ UNCHANGED <<process, client, checks>>

\* startup_timeout_ms is over.
GateTimesOut ==
    /\ stage = "gate" /\ Fresh("op") /\ checks # <<>>
    /\ stage' = "drain"
    /\ UNCHANGED <<process, client, req, successes, failures, probing, checks>>

\* A live probe.
Probe ==
    /\ probing /\ Fresh("probe") /\ counter + 2 < MaxRequests
    /\ Request("probe", "health")
    /\ UNCHANGED <<alive, lines, said, bad, closed, exited, engine>>

\* Its answer; so many failures in a row end the loop.
Probed ==
    /\ req["probe"].out \notin {"none", "waiting"}
    /\ IF Got("probe", "ready")
       THEN failures' = 0 /\ UNCHANGED probing
       ELSE failures' = failures + 1 /\ probing' = (probing /\ failures + 1 < FailLimit)
    /\ Taken("probe")
    /\ UNCHANGED <<process, client, stage, successes, checks>>

\* An operation stops the product.
StopBegins ==
    /\ stage = "live"
    /\ stage' = "drain" /\ probing' = FALSE
    /\ UNCHANGED <<process, client, req, successes, failures, checks>>

DrainOk == Got("op", "clean")

\* stopChild: drain, then stop, then the process is killed either way.
StopChild ==
    /\ stage \in {"drain", "stop"} /\ req["op"].out \notin {"none", "waiting"}
    /\ CASE stage = "drain" /\ DrainOk -> stage' = "stop" /\ UNCHANGED closed
         [] stage = "stop" /\ Got("op", "stopped") -> stage' = "STOPPED" /\ closed' = TRUE
         [] OTHER -> stage' = "QUARANTINED" /\ closed' = TRUE
    /\ Taken("op")
    /\ UNCHANGED <<process, counter, pending, exited, successes, failures, probing, checks>>

----------------------------------------------------------------------------
(* The adapter process. *)

Answer ==
    /\ alive /\ todo # <<>> /\ todo' = Tail(todo)
    /\ \E val \in Answers[Head(todo).method] \union {"error"} :
          /\ lines' = Append(lines, [kind |-> "reply", id |-> Head(todo).id, val |-> val])
          /\ said' = [said EXCEPT ![Head(todo).id] = val]
    /\ UNCHANGED <<alive, bad, client, req, engine>>

BadLine ==
    /\ alive /\ bad < MaxBadLines /\ bad' = bad + 1
    /\ \E k \in {"breach", "invalid"} :
          lines' = Append(lines, [kind |-> k, id |-> 0, val |-> "none"])
    /\ UNCHANGED <<alive, todo, said, client, req, engine>>

Exits ==
    /\ alive /\ alive' = FALSE
    /\ UNCHANGED <<todo, lines, said, bad, client, req, engine>>

PipeOwn ==
    \/ \E method \in {"describe", "configure", "start", "drain", "stop"} : Ask(method)
    \/ Check \/ Handshake \/ Gate \/ Probed \/ StopChild

PipeNext ==
    \/ Spawn \/ PipeOwn \/ Feed \/ TimesOut \/ SeesExit \/ GateTimesOut \/ Probe \/ StopBegins
    \/ Answer \/ BadLine \/ Exits

\* The timers run out, the daemon's turns go on; the adapter owes nothing.
PipeFairness == WF_pipeVars(PipeOwn) /\ WF_pipeVars(TimesOut) /\ WF_pipeVars(GateTimesOut)

PipeSpec == PipeInit /\ [][PipeNext]_pipeVars /\ PipeFairness

----------------------------------------------------------------------------
(* Properties *)

\* adapter-client.ts: a request that succeeds has the answer the adapter gave
\* to it, not the late one of a request that timed out.
AnswerMine ==
    \A c \in Callers : req[c].out = "ok" => said[req[c].id] = req[c].val

\* engine.ts: nothing is claimed that the adapter did not say itself: a product
\* is live after so many readiness answers in a row, and stopped after a clean
\* drain and a stop.
ClaimsAreSaid ==
    /\ stage = "live" =>
          /\ Len(checks) >= Need
          /\ \A i \in 0..(Need - 1) : checks[Len(checks) - i] > 0 /\ said[checks[Len(checks) - i]] = "ready"
    /\ stage = "STOPPED" => \E i \in 1..(counter - 1) : said[i] = "clean" /\ said[i + 1] = "stopped"

\* Every request is settled, and every start and stop comes to an end, whatever
\* the adapter does.
PipeSettles ==
    /\ \A c \in Callers : Waiting(c) ~> ~Waiting(c)
    /\ (stage = "describe") ~> (stage \in {"live", "FAILED", "STOPPED", "QUARANTINED", "CRASHED"})
    /\ (stage = "drain") ~> (stage \in {"STOPPED", "QUARANTINED"})
=============================================================================
