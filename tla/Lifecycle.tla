------------------------------ MODULE Lifecycle ------------------------------
(***************************************************************************)
(* The product lifecycle engine (core/src/v2/lifecycle/engine.ts) over the *)
(* daemon's product registry (adapters/store-ports.ts, store/registry.ts), *)
(* adapter pipe (adapter-client.ts) and supervisor, for one product.       *)
(*                                                                         *)
(* The registry hands out copies of its rows: an operation works on the    *)
(* object it was given, moves that object along TRANSITIONS, and writes    *)
(* the same state into the row without looking at the row's state.  The    *)
(* exit watcher, the restart and the live probes of an adapter keep the    *)
(* object of the operation that spawned it.                                *)
(*                                                                         *)
(* The registry, the journal and the receipts are written synchronously,   *)
(* so what runs between two real awaits (catalog.fetch, an adapter's       *)
(* answer, a sleep) is one step.  The daemon may die after any of the      *)
(* writes of a step: Writes(path, rest) takes the successive values of the *)
(* rows and either ends the step or dies at one of them.                   *)
(***************************************************************************)
EXTENDS Integers, Sequences, SequencesExt

CONSTANTS
    Versions,   \* versions in the catalog
    MaxStarts,  \* RESTART_BUDGET.maxStarts
    MaxGens,    \* bound on the generation rows
    MaxOps,     \* MaxOps[b]: bound on the operations of boot b
    MaxProcs,   \* bound on the adapter processes of one boot
    MaxBoots    \* bound on the daemon processes

ASSUME LifecycleAssumption ==
    /\ MaxStarts \in Nat \ {0}
    /\ MaxGens \in Nat /\ MaxProcs \in Nat
    /\ MaxBoots \in Nat \ {0}
    /\ MaxOps \in [1..MaxBoots -> Nat]

VARIABLES
    row,        \* row[g]: generation g in the registry
    op,         \* op[o]: an operation of this boot, with its object
    proc,       \* proc[p]: adapter process p, and the restart its exit began
    client,     \* client[g]: the process behind the engine's client, or 0
    probe,      \* probe[g]: the object the live probes degrade, or 0
    draining,   \* generations whose adapter is being stopped
    closed,     \* engine.close ran
    up,         \* the daemon runs
    boots       \* daemon processes started so far

engine == <<client, probe, draining>>
vars   == <<row, op, proc, engine, closed, up, boots>>

Gens == 1..MaxGens
Ops  == 1..Max({MaxOps[b] : b \in 1..MaxBoots})

CANCELABLE == {"PLANNED", "FETCHING", "VERIFIED", "STAGED"}
LIVE       == {"READY", "DEGRADED", "HEALTHCHECKING", "STARTING"}

\* The relation of protocol/lifecycle.ts.
TRANSITIONS ==
    {<<"ABSENT", "PLANNED">>, <<"PLANNED", "FETCHING">>, <<"FETCHING", "VERIFIED">>,
     <<"VERIFIED", "STAGED">>, <<"STAGED", "STARTING">>, <<"STARTING", "HEALTHCHECKING">>,
     <<"HEALTHCHECKING", "READY">>, <<"READY", "DEGRADED">>, <<"DEGRADED", "HEALTHCHECKING">>,
     <<"CRASHED", "STARTING">>, <<"DRAINING", "STOPPED_RETAINED">>,
     <<"CRASHED", "STOPPED_RETAINED">>, <<"QUARANTINED", "STOPPED_RETAINED">>,
     <<"STOPPED_RETAINED", "UNINSTALLING">>, <<"UNINSTALLING", "REMOVED">>}
    \cup (CANCELABLE \X {"REJECTED", "CANCELLED"})
    \cup (LIVE \X {"DRAINING", "CRASHED"})
    \cup ({"CRASHED", "DRAINING", "UNINSTALLING"} \X {"QUARANTINED"})
    \cup ({"STOPPED_RETAINED", "REMOVED", "QUARANTINED"} \X {"PLANNED"})

States == {t[1] : t \in TRANSITIONS} \cup {t[2] : t \in TRANSITIONS}

Listed(s, t) == <<s, t>> \in TRANSITIONS

(***************************************************************************)
(* The registry.  Generation g is the g-th row: nextGeneration is the      *)
(* highest plus one and rows are never deleted.                            *)
(***************************************************************************)

NewRow(v) ==
    [version |-> v, state |-> "ABSENT", active |-> FALSE, indexed |-> FALSE,
     noted |-> 0, projected |-> FALSE, starts |-> 0, pid |-> FALSE]

Find(r, Test(_)) ==
    IF \E g \in DOMAIN r : Test(r[g])
    THEN CHOOSE g \in DOMAIN r : Test(r[g]) /\ \A h \in 1..(g - 1) : ~Test(r[h])
    ELSE 0

Active(r)      == Find(r, LAMBDA x : x.active)
Retained(r, v) == Find(r, LAMBDA x : x.version = v /\ x.state = "STOPPED_RETAINED")

\* casActive(expected -> next): the whole of it is one journal commit.
CasOk(r, expected) == Active(r) = expected

\* Mutant: the old pointer stays.
CasActiveKeeps(r, expected, next) ==
    IF ~CasOk(r, expected) THEN r
    ELSE IF next = 0 THEN [r EXCEPT ![expected].active = FALSE]
    ELSE [r EXCEPT ![next].active = TRUE]

CasActive(r, expected, next) ==
    LET off == IF expected = 0 THEN r ELSE [r EXCEPT ![expected].active = FALSE]
    IN IF ~CasOk(r, expected) THEN r
       ELSE IF next = 0 THEN off ELSE [off EXCEPT ![next].active = TRUE]

\* The values of the rows while generation g moves through the states ts.
Moves(r, g, ts) == [i \in 1..Len(ts) |-> [r EXCEPT ![g].state = ts[i]]]

Then(path, F(_)) == path \o F(Last(path))

Steps(path, g, ts) == Then(path, LAMBDA r : Moves(r, g, ts))

(***************************************************************************)
(* The end of the process: its operations, objects, clients and timers are *)
(* gone.  A child it owned may outlive it; nobody owns that one again.     *)
(***************************************************************************)

Dies ==
    /\ up' = FALSE
    /\ closed' = FALSE
    /\ op' = <<>> /\ proc' = <<>>
    /\ client' = [g \in Gens |-> 0]
    /\ probe' = [g \in Gens |-> 0]
    /\ draining' = {}
    /\ UNCHANGED boots

Writes(path, rest) ==
    \/ row' = Last(path) /\ rest
    \/ \E n \in 2..(Len(path) - 1) : row' = path[n] /\ Dies

Stays == UNCHANGED <<closed, up, boots>>


(***************************************************************************)
(* Operations.  op[o] holds the object the operation works on: its state   *)
(* st and the copied fields the engine reads later.  pc is what it awaits. *)
(***************************************************************************)

NewOp(v, g) ==
    [version |-> v, pc |-> "fetch", gen |-> g, st |-> "FETCHING",
     active |-> FALSE, indexed |-> FALSE, starts |-> 0, prev |-> 0, pst |-> "none",
     proc |-> 0, cancel |-> FALSE]

\* The object the registry hands out for row g.
Copied(x, g) ==
    [x EXCEPT !.st = row[g].state, !.active = row[g].active,
              !.indexed = row[g].indexed, !.starts = row[g].starts]

Put(o, x) == op' = IF o \in DOMAIN op THEN [op EXCEPT ![o] = x] ELSE Append(op, x)

\* Nobody reads the plan or the cancel flag of an operation that ended; its
\* object stays with the watcher and the probes.
Ended(x) == [x EXCEPT !.pc = "done", !.proc = 0, !.prev = 0, !.pst = "none", !.cancel = FALSE]

Awaits(o, pc) == up /\ o \in DOMAIN op /\ op[o].pc = pc

\* A commit is admitted.
Serving == up /\ ~closed /\ Len(op) < MaxOps[boots]

\* What follows a clean stop: of an aborted candidate, of the generation
\* that was replaced, of the one being uninstalled.
AfterStop(path, x) ==
    CASE x.pc = "abort"  -> Steps(path, x.gen, <<"STOPPED_RETAINED">>)
      [] x.pc = "drain"  -> Steps(path, x.prev, <<"STOPPED_RETAINED">>)
      [] x.pc = "remove" ->
           Then(Then(Steps(path, x.gen, <<"STOPPED_RETAINED", "UNINSTALLING">>),
                     LAMBDA r : IF x.active THEN <<CasActive(r, x.gen, 0)>> ELSE <<>>),
                LAMBDA r : Moves(r, x.gen, <<"REMOVED">>))

\* A stop that failed quarantines; one that lost its object to a restart
\* that was itself quarantined throws instead.
AfterFailedStop(path, x) ==
    IF x.pc = "abort" /\ x.st = "QUARANTINED" THEN path
    ELSE Steps(path, IF x.pc = "drain" THEN x.prev ELSE x.gen, <<"QUARANTINED">>)

Stopped(x) == IF x.pc = "abort" THEN [x EXCEPT !.st = "STOPPED_RETAINED"] ELSE x
Failed(x)  == IF x.pc = "abort" THEN [x EXCEPT !.st = "QUARANTINED"] ELSE x

\* stopChild(g): without a client it returns at once, with the client of a
\* process that exited it throws at once, otherwise it awaits drain and stop.
StopChild(o, x, g, path, probes) ==
    LET p == client[g]
        Detach == /\ client' = [client EXCEPT ![g] = 0]
                  /\ probe' = [probes EXCEPT ![g] = 0]
                  /\ UNCHANGED proc /\ Stays
    IN \/ /\ p = 0
          /\ Writes(AfterStop(path, x), Put(o, Ended(Stopped(x))) /\ Detach /\ UNCHANGED draining)
       \/ /\ p # 0 /\ proc[p].st = "gone"
          /\ Writes(AfterFailedStop(Then(path, LAMBDA r : <<[r EXCEPT ![g].pid = FALSE]>>), x),
                    Put(o, Ended(Failed(x))) /\ Detach /\ UNCHANGED draining)
       \/ /\ p # 0 /\ proc[p].st # "gone"
          /\ Writes(path, Put(o, [x EXCEPT !.proc = p]) /\ Detach /\ draining' = draining \cup {g})

\* failOperation after the writes of path.
Fail(o, x, path) ==
    \/ /\ x.st \in CANCELABLE
       /\ LET t == IF x.cancel THEN "CANCELLED" ELSE "REJECTED"
          IN Writes(Steps(path, x.gen, <<t>>),
                    Put(o, Ended([x EXCEPT !.st = t])) /\ UNCHANGED <<proc, engine>> /\ Stays)
    \/ /\ x.st \in {"STARTING", "HEALTHCHECKING"}
       /\ StopChild(o, [x EXCEPT !.pc = "abort", !.st = "DRAINING"], x.gen,
                    Steps(path, x.gen, <<"DRAINING">>), probe)
    \/ /\ x.st \notin CANCELABLE \cup {"STARTING", "HEALTHCHECKING"}
       /\ Writes(path, Put(o, Ended(x)) /\ UNCHANGED <<proc, engine>> /\ Stays)

(***************************************************************************)
(* The commits of product.install, update, rollback and uninstall.  A plan *)
(* is refused once the registry's revision moved, so plan and commit are   *)
(* one step.                                                               *)
(***************************************************************************)

\* planGen and the transition to FETCHING, on a fresh generation.
Candidate(v, prev) ==
    LET g == Len(row) + 1
        x == [NewOp(v, g) EXCEPT
                !.prev = prev, !.pst = IF prev = 0 THEN "none" ELSE row[prev].state]
    IN /\ Serving /\ g <= MaxGens
       /\ Writes(Steps(<<row, Append(row, NewRow(v))>>, g, <<"PLANNED", "FETCHING">>),
                 Put(Len(op) + 1, x) /\ UNCHANGED <<proc, engine>> /\ Stays)

CommitInstall(v) == Active(row) = 0 /\ Candidate(v, 0)

CommitUpdate(v) == Active(row) # 0 /\ Candidate(v, Active(row))

CommitRollback(v) ==
    LET a == Active(row)
        g == Retained(row, v)
        x == [Copied(NewOp(v, g), g) EXCEPT
                !.st = "FETCHING", !.prev = a, !.pst = row[a].state]
    IN /\ Serving /\ a # 0 /\ g # 0
       /\ \/ Writes(Steps(<<row>>, g, <<"PLANNED", "FETCHING">>),
                    Put(Len(op) + 1, x) /\ UNCHANGED <<proc, engine>> /\ Stays)
          \/ Fail(Len(op) + 1, [x EXCEPT !.st = "PLANNED"],       \* revoked
                  Steps(<<row>>, g, <<"PLANNED">>))

CommitUninstall ==
    LET a == Active(row)
        g == IF a # 0 THEN a ELSE Find(row, LAMBDA x : x.state = "STOPPED_RETAINED")
        v == IF a # 0 THEN row[a].version
             ELSE row[Find(row, LAMBDA x : x.state # "REMOVED")].version
        x == [Copied(NewOp(v, g), g) EXCEPT !.pc = "remove"]
        o == Len(op) + 1
    IN /\ Serving /\ g # 0
       /\ \/ /\ x.st \in {"READY", "DEGRADED"}
             /\ StopChild(o, x, g, Steps(<<row>>, g, <<"DRAINING">>), probe)
          \/ /\ x.st = "STOPPED_RETAINED"
             /\ Writes(AfterStop(<<row>>, x),
                       Put(o, Ended(x)) /\ UNCHANGED <<proc, engine>> /\ Stays)
          \/ /\ x.st \notin {"READY", "DEGRADED", "STOPPED_RETAINED"}
             /\ Fail(o, x, <<row>>)

\* operation.cancel: the flag first, then the first row of the version, of
\* which it has its own copy.
Cancel(o) ==
    LET g == Find(row, LAMBDA x : x.version = op[o].version)
    IN /\ up /\ ~closed
       /\ o \in DOMAIN op
       /\ op' = [op EXCEPT ![o].cancel = (op[o].pc # "done")]
       /\ row' = IF g # 0 /\ row[g].state \in CANCELABLE
                 THEN [row EXCEPT ![g].state = "CANCELLED"] ELSE row
       /\ UNCHANGED <<proc, engine>> /\ Stays

(***************************************************************************)
(* The candidate path, one action per awaited answer.                      *)
(***************************************************************************)

Process(g, o) == [gen |-> g, obj |-> o, st |-> "alive", chain |-> "none", new |-> 0]

\* The list of starts matters up to the restart budget.
OneMore(n) == IF n < MaxStarts THEN n + 1 ELSE n

\* spawnClient up to its first request, for object x in state STARTING.
Spawned(path, x) ==
    Then(path, LAMBDA r : <<[r EXCEPT ![x.gen].starts = OneMore(x.starts)],
                            [r EXCEPT ![x.gen].starts = OneMore(x.starts), ![x.gen].pid = TRUE]>>)

\* Mutant: the flag is not looked at.
CheckCancelNever(x) == TRUE

\* Between the answer of the fetch and the start nothing is awaited, so the
\* checks of the four stages see the same flag.
CheckCancel(x) == ~x.cancel

\* catalog.fetch, verification or staging fails, or the cancel flag is seen.
FetchFails(o) ==
    /\ Awaits(o, "fetch")
    /\ \E n \in IF op[o].cancel THEN {0} ELSE 0..2 :
         Fail(o, [op[o] EXCEPT !.st = <<"FETCHING", "VERIFIED", "STAGED">>[n + 1]],
              Steps(<<row>>, op[o].gen, SubSeq(<<"VERIFIED", "STAGED">>, 1, n)))

FetchReturns(o) ==
    LET x    == op[o]
        path == Steps(<<row>>, x.gen, <<"VERIFIED", "STAGED", "STARTING">>)
        y    == [x EXCEPT !.st = "STARTING", !.starts = OneMore(@)]
    IN /\ Awaits(o, "fetch") /\ CheckCancel(x)
       /\ \/ /\ ~closed /\ Len(proc) < MaxProcs
             /\ Writes(Spawned(path, x),
                       /\ Put(o, [y EXCEPT !.pc = "start", !.proc = Len(proc) + 1])
                       /\ proc' = Append(proc, Process(x.gen, o))
                       /\ client' = [client EXCEPT ![x.gen] = Len(proc) + 1]
                       /\ UNCHANGED <<probe, draining>> /\ Stays)
          \/ Fail(o, y, SubSeq(Spawned(path, x), 1, 5))         \* spawnAdapter throws

StartReturns(o) ==
    /\ Awaits(o, "start") /\ proc[op[o].proc].st # "gone"
    /\ row' = [row EXCEPT ![op[o].gen].state = "HEALTHCHECKING"]
    /\ Put(o, [op[o] EXCEPT !.pc = "health", !.st = "HEALTHCHECKING"])
    /\ UNCHANGED <<proc, engine>> /\ Stays

\* The watcher acts on the exit of p.
Watched(p) ==
    /\ ~closed
    /\ proc[p].gen \notin draining
    /\ op[proc[p].obj].st \in LIVE

\* An answer that is refused, a timeout, or an exit the watcher ignores;
\* spawnClient drops the client before failOperation looks for it.
StartFails(o) ==
    LET x == op[o] IN
    /\ Awaits(o, "start")
    /\ \E s \in {"term"} \cup IF Watched(x.proc) THEN {} ELSE {"gone"} :
         Writes(Steps(<<row>>, x.gen, <<"DRAINING", "STOPPED_RETAINED">>),
                /\ Put(o, Ended([x EXCEPT !.st = "STOPPED_RETAINED"]))
                /\ proc' = [proc EXCEPT ![x.proc].st = s]
                /\ client' = [client EXCEPT ![x.gen] = 0]
                /\ probe' = [probe EXCEPT ![x.gen] = 0]
                /\ UNCHANGED draining /\ Stays)

\* A health answer of p can arrive: nobody stops it, or it was on its way
\* when the engine closed.
Answers(p) ==
    /\ proc[p].gen \notin draining
    /\ \/ proc[p].st = "alive"
       \/ closed /\ proc[p].st = "term"

\* activate after the health gate: the pointer, the activation index and its
\* journal entry, the projection, READY.
Activation(r, expected, x) ==
    LET g == x.gen
        index == IF x.indexed THEN <<CasActive(r, expected, g)>>
                 ELSE <<CasActive(r, expected, g),
                        [CasActive(r, expected, g) EXCEPT ![g].indexed = TRUE],
                        [CasActive(r, expected, g) EXCEPT ![g].indexed = TRUE, ![g].noted = @ + 1]>>
    IN Steps(Then(<<r>> \o index, LAMBDA s : <<[s EXCEPT ![g].projected = TRUE]>>),
             g, <<"READY">>)

Activated(x) == [x EXCEPT !.st = "READY", !.active = TRUE, !.indexed = TRUE]

\* startProbes, which a closed engine still calls.
Probes(g, o) == [probe EXCEPT ![g] = o]

HealthOk(o) ==
    LET x == op[o]
        path == Activation(row, x.prev, x)
    IN /\ Awaits(o, "health") /\ Answers(x.proc)
       /\ \/ /\ ~CasOk(row, x.prev)
             /\ Fail(o, x, <<row>>)
          \/ /\ CasOk(row, x.prev)
             /\ x.prev # x.gen /\ x.pst \in {"READY", "DEGRADED"}
             /\ StopChild(o, [Activated(x) EXCEPT !.pc = "drain"], x.prev,
                          Steps(path, x.prev, <<"DRAINING">>), Probes(x.gen, o))
          \/ /\ CasOk(row, x.prev)
             /\ x.prev = x.gen \/ x.pst \notin {"READY", "DEGRADED"}
             /\ Writes(path, /\ Put(o, Ended(Activated(x)))
                             /\ probe' = Probes(x.gen, o)
                             /\ UNCHANGED <<proc, client, draining>> /\ Stays)

\* Mutant: no startup deadline, only an exit ends the gate.
HealthFailsOnExit(o) ==
    Awaits(o, "health") /\ proc[op[o].proc].st = "gone" /\ Fail(o, op[o], <<row>>)

\* Three failed probes, or the startup deadline.
HealthFails(o) == Awaits(o, "health") /\ Fail(o, op[o], <<row>>)

Stops(o) == up /\ o \in DOMAIN op /\ op[o].pc \in {"abort", "drain", "remove"}

\* The finally of stopChild.
Released(o, g, s) ==
    /\ proc' = [proc EXCEPT ![op[o].proc].st = s]
    /\ draining' = draining \ {g}
    /\ UNCHANGED <<client, probe>> /\ Stays

StopReturns(o) ==
    LET x == op[o]
        g == IF x.pc = "drain" THEN x.prev ELSE x.gen
    IN /\ Stops(o)
       /\ Writes(AfterStop(<<row, [row EXCEPT ![g].pid = FALSE]>>, x),
                 Put(o, Ended(Stopped(x))) /\ Released(o, g, "term"))

\* Uncertain effects, a timeout, an outstanding health probe (BUSY), or the
\* exit of the adapter while a request is outstanding.
StopFails(o) ==
    LET x == op[o]
        g == IF x.pc = "drain" THEN x.prev ELSE x.gen
    IN /\ Stops(o)
       /\ \E s \in {"term", "gone"} :
            Writes(AfterFailedStop(<<row, [row EXCEPT ![g].pid = FALSE]>>, x),
                   Put(o, Ended(Failed(x))) /\ Released(o, g, s))

(***************************************************************************)
(* Exits, the restart they begin, and live probes.  They work on the       *)
(* object of the operation that first spawned the adapter.                 *)
(***************************************************************************)

StopAwaits(p)  == \E o \in DOMAIN op : Stops(o) /\ op[o].proc = p
StartAwaits(p) == \E o \in DOMAIN op : Awaits(o, "start") /\ op[o].proc = p

\* The restarts that await the handshake of p.
Restarting(p) == {q \in DOMAIN proc : proc[q].chain = "start" /\ proc[q].new = p}

Exits(p) == up /\ p \in DOMAIN proc /\ proc[p].st \in {"alive", "term"} /\ ~StopAwaits(p)

ExitIgnored(p) ==
    /\ Exits(p) /\ ~Watched(p)
    /\ ~StartAwaits(p) /\ Restarting(p) = {}
    /\ proc' = [proc EXCEPT ![p].st = "gone"]
    /\ UNCHANGED <<row, op, engine>> /\ Stays

\* onChildExit up to its sleep.  Whoever awaits the handshake is refused in
\* the same turn: an operation finds its object CRASHED and only ends, a
\* restart quarantines it.
ExitCrash(p) ==
    LET o == proc[p].obj
        x == op[o]
        refused == StartAwaits(p) \/ Restarting(p) # {}
    IN /\ Exits(p) /\ Watched(p)
       /\ \E exhausted \in IF x.starts >= MaxStarts THEN BOOLEAN ELSE {FALSE} :
            LET t == IF exhausted \/ Restarting(p) # {} THEN <<"CRASHED", "QUARANTINED">>
                     ELSE <<"CRASHED">>
            IN Writes(Steps(<<row>>, proc[p].gen, t),
                      /\ Put(o, [IF StartAwaits(p) THEN Ended(x) ELSE x EXCEPT !.st = Last(t)])
                      /\ proc' = [q \in DOMAIN proc |->
                           IF q = p
                           THEN [proc[q] EXCEPT !.st = "gone",
                                                !.chain = IF exhausted THEN "none" ELSE "sleep"]
                           ELSE IF q \in Restarting(p) THEN [proc[q] EXCEPT !.chain = "none", !.new = 0]
                           ELSE proc[q]]
                      /\ client' = IF refused THEN [client EXCEPT ![proc[p].gen] = 0] ELSE client
                      /\ UNCHANGED <<probe, draining>> /\ Stays)

\* The catch of onChildExit, with the processes and clients as they then are.
\* An unlisted move rejects a promise nobody handles, which ends the daemon.
RestartFails(p, procs, clients) ==
    LET o == proc[p].obj IN
    \/ /\ Listed(op[o].st, "QUARANTINED")
       /\ row' = [row EXCEPT ![proc[p].gen].state = "QUARANTINED"]
       /\ op' = [op EXCEPT ![o].st = "QUARANTINED"]
       /\ proc' = [procs EXCEPT ![p].chain = "none", ![p].new = 0]
       /\ client' = clients
       /\ UNCHANGED <<probe, draining>> /\ Stays
    \/ /\ ~Listed(op[o].st, "QUARANTINED")
       /\ row' = row
       /\ Dies

Chain(p, pc) == up /\ p \in DOMAIN proc /\ proc[p].chain = pc

RestartWakes(p) ==
    LET o == proc[p].obj
        x == op[o]
        q == Len(proc) + 1
    IN /\ Chain(p, "sleep")
       /\ \/ /\ closed
             /\ proc' = [proc EXCEPT ![p].chain = "none", ![p].new = 0]
             /\ UNCHANGED <<row, op, engine>> /\ Stays
          \/ /\ ~closed /\ Listed(x.st, "STARTING") /\ q <= MaxProcs
             /\ Writes(Spawned(Steps(<<row>>, x.gen, <<"STARTING">>), x),
                       /\ Put(o, [x EXCEPT !.st = "STARTING", !.starts = OneMore(@)])
                       /\ proc' = Append([proc EXCEPT ![p].chain = "start", ![p].new = q],
                                         Process(x.gen, o))
                       /\ client' = [client EXCEPT ![x.gen] = q]
                       /\ UNCHANGED <<probe, draining>> /\ Stays)
          \/ /\ ~closed /\ ~Listed(x.st, "STARTING")
             /\ RestartFails(p, proc, client)

RestartStarted(p) ==
    LET o == proc[p].obj IN
    /\ Chain(p, "start") /\ proc[proc[p].new].st # "gone"
    /\ \/ /\ Listed(op[o].st, "HEALTHCHECKING")
          /\ row' = [row EXCEPT ![proc[p].gen].state = "HEALTHCHECKING"]
          /\ op' = [op EXCEPT ![o].st = "HEALTHCHECKING"]
          /\ proc' = [proc EXCEPT ![p].chain = "health"]
          /\ UNCHANGED engine /\ Stays
       \/ /\ ~Listed(op[o].st, "HEALTHCHECKING")
          /\ RestartFails(p, proc, client)

RestartStartFails(p) ==
    /\ Chain(p, "start")
    /\ \E s \in {"term"} \cup IF Watched(proc[p].new) THEN {} ELSE {"gone"} :
         RestartFails(p, [proc EXCEPT ![proc[p].new].st = s],
                      [client EXCEPT ![proc[p].gen] = 0])

RestartHealthy(p) ==
    LET o == proc[p].obj
        x == op[o]
    IN /\ Chain(p, "health") /\ Answers(proc[p].new)
       /\ \/ /\ CasOk(row, x.gen) /\ Listed(x.st, "READY")
             /\ Writes(Activation(row, x.gen, x),
                       /\ Put(o, Activated(x))
                       /\ proc' = [proc EXCEPT ![p].chain = "none", ![p].new = 0]
                       /\ probe' = Probes(x.gen, o)
                       /\ UNCHANGED <<client, draining>> /\ Stays)
          \/ /\ ~CasOk(row, x.gen) \/ ~Listed(x.st, "READY")
             /\ RestartFails(p, proc, client)

RestartUnhealthy(p) == Chain(p, "health") /\ RestartFails(p, proc, client)

\* Three live probes failed; the loop ends whatever degrade finds.
Degrade(g) ==
    LET o == probe[g] IN
    /\ up /\ o # 0
    /\ probe' = [probe EXCEPT ![g] = 0]
    /\ IF op[o].st = "READY"
       THEN /\ row' = [row EXCEPT ![g].state = "DEGRADED"]
            /\ op' = [op EXCEPT ![o].st = "DEGRADED"]
       ELSE UNCHANGED <<row, op>>
    /\ UNCHANGED <<proc, client, draining>> /\ Stays

(***************************************************************************)
(* The daemon: shutdown, death and start.                                  *)
(***************************************************************************)

\* engine.close and the SIGTERM of supervisor.shutdownAll; the store closes
\* and the process ends some time later, which is Crash.
Close ==
    /\ up /\ ~closed
    /\ closed' = TRUE
    /\ client' = [g \in Gens |-> 0]
    /\ probe' = [g \in Gens |-> 0]
    /\ proc' = [p \in DOMAIN proc |->
                  IF proc[p].st = "alive" THEN [proc[p] EXCEPT !.st = "term"] ELSE proc[p]]
    /\ UNCHANGED <<row, op, draining, up, boots>>

Crash == up /\ Dies /\ UNCHANGED row

\* The writes recoverAfterCrash makes for generation g, after those of path.
\* probeGeneration: the recorded pid is alive, it is then among the survivors.
Recover(path, g, survivors) ==
    LET x == Last(path)[g]
        Index(r) == IF x.indexed THEN <<>>
                    ELSE <<[r EXCEPT ![g].indexed = TRUE],
                           [r EXCEPT ![g].indexed = TRUE, ![g].noted = @ + 1]>>
        Project(r) == <<[r EXCEPT ![g].projected = TRUE]>>
    IN CASE x.state = "HEALTHCHECKING" /\ x.active /\ ~x.projected ->
              Steps(Then(Then(path, Index), Project), g,
                    IF x.pid /\ g \in survivors THEN <<"READY">> ELSE <<>>)
         [] x.state \in {"STARTING", "HEALTHCHECKING"} /\ ~x.active ->
              Steps(path, g, <<"DRAINING", "STOPPED_RETAINED">>)
         [] x.state \in CANCELABLE -> Steps(path, g, <<"REJECTED">>)
         [] OTHER -> path

\* Recovery awaits nothing but microtasks and precedes the control socket.
Boot ==
    /\ ~up /\ boots < MaxBoots
    /\ boots' = boots + 1
    /\ \E survivors \in SUBSET DOMAIN row :
         LET upto[g \in 0..Len(row)] ==
                 IF g = 0 THEN <<row>> ELSE Recover(upto[g - 1], g, survivors)
             path == upto[Len(row)]
         IN \/ /\ row' = Last(path)
               /\ up' = TRUE
            \/ /\ \E n \in 2..(Len(path) - 1) : row' = path[n]
               /\ UNCHANGED up
    /\ UNCHANGED <<op, proc, engine, closed>>

Init ==
    /\ row = <<>> /\ op = <<>> /\ proc = <<>>
    /\ client = [g \in Gens |-> 0]
    /\ probe = [g \in Gens |-> 0]
    /\ draining = {}
    /\ closed = FALSE /\ up = TRUE /\ boots = 1

\* What operation o awaits fails.
TimesOut(o) == FetchFails(o) \/ StartFails(o) \/ HealthFails(o) \/ StopFails(o)

Next ==
    \/ \E v \in Versions : CommitInstall(v) \/ CommitUpdate(v) \/ CommitRollback(v)
    \/ CommitUninstall
    \/ \E o \in Ops :
         \/ Cancel(o) \/ FetchReturns(o) \/ StartReturns(o) \/ HealthOk(o) \/ StopReturns(o)
         \/ TimesOut(o)
    \/ \E p \in 1..MaxProcs :
         \/ ExitIgnored(p) \/ ExitCrash(p)
         \/ RestartWakes(p) \/ RestartStarted(p) \/ RestartStartFails(p)
         \/ RestartHealthy(p) \/ RestartUnhealthy(p)
    \/ \E g \in Gens : Degrade(g)
    \/ Close \/ Crash \/ Boot

Spec == Init /\ [][Next]_vars

\* Every adapter request has a timeout, the health gate a deadline, and a
\* fetch ends; adapters need not answer.
FairSpec == Spec /\ \A o \in Ops : WF_vars(TimesOut(o))

(***************************************************************************)
(* Properties.                                                             *)
(***************************************************************************)

\* Every variable has its type; an operation, a process, a client and a probe
\* refer to rows, processes and operations that exist.
TypeOK ==
    /\ Len(row) <= MaxGens
    /\ \A g \in DOMAIN row :
         row[g] \in [version : Versions, state : States, active : BOOLEAN, indexed : BOOLEAN,
                     noted : Nat, projected : BOOLEAN, starts : 0..MaxStarts, pid : BOOLEAN]
    /\ Len(op) <= MaxOps[boots]
    /\ \A o \in DOMAIN op :
         /\ op[o].gen \in DOMAIN row /\ op[o].prev \in {0} \cup DOMAIN row
         /\ op[o].st \in States
         /\ op[o].proc \in {0} \cup DOMAIN proc
         /\ op[o].pc \in {"fetch", "start", "health", "abort", "drain", "remove", "done"}
    /\ \A p \in DOMAIN proc :
         /\ proc[p].gen \in DOMAIN row
         /\ proc[p].obj \in DOMAIN op
         /\ proc[p].st \in {"alive", "term", "gone"}
    /\ client \in [Gens -> {0} \cup DOMAIN proc]
    /\ probe \in [Gens -> {0} \cup DOMAIN op]
    /\ draining \subseteq DOMAIN row

\* The registry never has two active generations.
OneActive == \A g, h \in DOMAIN row : row[g].active /\ row[h].active => g = h

\* recoverAfterCrash and activate together index an activation at most once,
\* whatever the daemon died in, and a READY generation was projected.
IndexedOnce ==
    \A g \in DOMAIN row :
        /\ row[g].noted <= 1
        /\ row[g].state = "READY" => row[g].indexed /\ row[g].projected

\* An operation whose cancel flag was set before its adapter started never
\* starts it.
CancelStopsStart ==
    [][\A o \in DOMAIN op \cap DOMAIN op' :
         op[o].cancel /\ op[o].pc = "fetch" => op'[o].pc \in {"fetch", "done"}]_vars

\* A product that is active stays so, through updates, rollbacks, failures,
\* crashes and restarts, until an uninstall of it removes the pointer.
PointerKept ==
    [][Active(row) # 0 /\ Active(row') = 0 =>
         row'[Active(row)].state \in {"UNINSTALLING", "REMOVED"}]_vars

\* A removed generation is not the active one.
RemovedInactive == \A g \in DOMAIN row : row[g].state = "REMOVED" => ~row[g].active

Busy == \E o \in DOMAIN op : op[o].pc # "done"

\* Operations end, even when no adapter ever answers: of finitely many that
\* were admitted none stays under way for ever, so the engine comes to rest
\* (the request timeouts and the startup deadline of the health gate).
OpsEnd == Busy ~> ~Busy

\* A generation that was stopped or removed changes state only by an
\* operation on it: a rollback that plans it or an uninstall.
StoppedStays ==
    [][\A g \in DOMAIN row :
         row[g].state \in {"STOPPED_RETAINED", "REMOVED"} /\ row'[g].state # row[g].state =>
           row'[g].state \in {"PLANNED", "FETCHING", "REJECTED", "UNINSTALLING", "REMOVED"}]_vars

=============================================================================
