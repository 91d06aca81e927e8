---------------------------- MODULE ProductPlans ----------------------------
(***************************************************************************)
(* Plans of product changes and what is made of them: the product service  *)
(* (core/src/v2/lifecycle/service.ts) over the catalog, the resolver, the  *)
(* release verification (verify.ts) and the generation rows of the         *)
(* registry (gateway-daemon/src/adapters/store-ports.ts), for several      *)
(* products that depend on each other.                                     *)
(*                                                                         *)
(* product.plan takes the index, the installed rows and the revisions,     *)
(* awaits one fetch after another, and resolves with what it took.  The    *)
(* lifecycle engine, which module Lifecycle has in full for one product,   *)
(* is seen at its three waits: the fetch of the release, the start of the  *)
(* candidate's adapter, and the stop of the one it replaces.  The mirror   *)
(* that serves releases is outside the daemon.                             *)
(***************************************************************************)
EXTENDS CatalogStore, Resolve, Releases, TLC

CONSTANTS
    Worlds,         \* a sequence of [mirror, republished, asks, calls, pins, index, rows]: what
                    \* may be published, asked and pinned, and what earlier boots have left
    Callers,        \* clients with a call in flight
    FetchBound,     \* MAX_PLAN_FETCHES
    MaxNow, MaxCrashes

ASSUME PlansAssumption ==
    /\ FetchBound \in Nat \ {0}
    /\ {MaxNow, MaxCrashes} \subseteq Nat

VARIABLES
    world,      \* the world this behaviour runs in
    mirror,     \* releases served, one for a slug and version
    rows,       \* the generation rows, oldest first
    regRev,     \* lifecycle:revision
    call,       \* what each caller awaits
    plans,      \* the plans issued by this boot
    ops,        \* the engine's operations of this boot
    used,       \* calls made so far
    crashes,
    cycles      \* (history) cycles that plans were refused for

service == <<call, plans, ops>>
vars == <<catalog, pinning, now, world, mirror, rows, regRev, service, used, crashes, cycles>>

Idle == [at |-> "idle"]

Served(s, v) == {r \in mirror : r.manifest.slug = s /\ r.manifest.version = v}

InstalledView == SelectSeq(rows, LAMBDA r : r.state # "REMOVED")

Revisions == [catalog |-> pinsRev, registry |-> regRev]

\* What product.plan reads before its first await.
View ==
    [index |-> IF cache = NoIndex THEN None ELSE cache.index, installed |-> InstalledView,
     strict |-> Strict, allowlist |-> Allowlist, now |-> now, revisions |-> Revisions]

----------------------------------------------------------------------------
(* product.plan.                                                           *)

Versions(s) ==
    IF cache = NoIndex THEN {} ELSE {e.version : e \in {x \in cache.index.entries : x.slug = s}}

RECURSIVE Advance(_)

\* gatherManifests up to its next fetch: g.deps are dependencies still to
\* be looked at, g.todo releases still to be fetched.
Advance(g) ==
    IF g.todo # {} \/ g.deps = <<>> THEN g
    ELSE LET d == Head(g.deps)
             skip == d.kind = "evidence" \/ d.slug \in g.seen
         IN  Advance([g EXCEPT !.deps = Tail(@),
                               !.seen = IF skip THEN @ ELSE @ \union {d.slug},
                               !.todo = IF skip THEN @ ELSE {<<d.slug, v>> : v \in Versions(d.slug)}])

Gathered(g, m) == [g EXCEPT !.found = @ \union {m}, !.deps = @ \o m.deps]

\* Releases whose manifest can be parsed.
Offered(s, v) == {r \in Served(s, v) : ParseManifest(r.manifest) = ""}

Slugs == {r.manifest.slug : r \in world.mirror}

ManifestsOf(found) == [s \in Slugs |-> {m \in found : m.slug = s}]

\* The end of product.plan: a plan, or a refusal.
Store(res, q, view, target, found) ==
    /\ plans' = IF res.code # "" THEN plans
                ELSE {p \in plans : p.summary # res.summary} \union
                     {[summary |-> res.summary, pinned |-> q.pinned /\ q.kind # "uninstall",
                       target |-> target, found |-> found, installed |-> view.installed]}
    /\ cycles' = IF res.cycle = <<>> THEN cycles ELSE cycles \union {<<res.cycle, found>>}

Finish(c, q, view, target, found) ==
    /\ call' = [call EXCEPT ![c] = Idle]
    /\ Store(ResolvePlan(q, view, target, ManifestsOf(found)), q, view, target, found)

Continue(c, g) ==
    IF g.todo = {} THEN Finish(c, g.q, g.view, g.target, g.found)
    ELSE call' = [call EXCEPT ![c] = g] /\ UNCHANGED <<plans, cycles>>

Call(c) == call[c] = Idle /\ used < world.calls /\ used' = used + 1

StartPlan(c, q) ==
    LET active == ActiveRow(rows, q.slug)
    IN  /\ Call(c)
        /\ q.kind = "update" => active # None
        /\ IF q.kind = "uninstall" /\ active = None
           THEN Finish(c, q, View, None, {})
           ELSE /\ call' = [call EXCEPT ![c] = [at |-> "target", q |-> q, view |-> View,
                        version |-> IF q.kind = "uninstall" THEN active.version ELSE q.version]]
                /\ UNCHANGED <<plans, cycles>>
        /\ UNCHANGED <<catalog, pinning, now, world, mirror, rows, regRev, ops, crashes>>

\* A fetch answers: the manifest planned for, or one of its dependencies.
PlanFetched(c) ==
    /\ \/ /\ call[c].at = "target"
          /\ \E r \in Offered(call[c].q.slug, call[c].version) :
                LET k == call[c]
                IN  IF k.q.kind = "uninstall" THEN Finish(c, k.q, k.view, r.manifest, {})
                    ELSE Continue(c, Advance([at |-> "gather", q |-> k.q, view |-> k.view, target |-> r.manifest,
                             found |-> {r.manifest}, deps |-> r.manifest.deps, seen |-> {k.q.slug},
                             todo |-> {}, fetched |-> 0]))
       \/ /\ call[c].at = "gather" /\ call[c].fetched < FetchBound
          /\ \E t \in call[c].todo : \E r \in Offered(t[1], t[2]) :
                Continue(c, Advance(Gathered([call[c] EXCEPT !.todo = @ \ {t}, !.fetched = @ + 1], r.manifest)))
    /\ UNCHANGED <<catalog, pinning, now, world, mirror, rows, regRev, ops, used, crashes>>

\* A fetch fails, the manifest cannot be parsed or the bound is reached: the
\* plan is refused, but for an uninstall, which goes by the rows.
PlanFetchFails(c) ==
    /\ call[c].at \in {"target", "gather"}
    /\ IF call[c].at = "target" /\ call[c].q.kind = "uninstall"
       THEN Finish(c, call[c].q, call[c].view, None, {})
       ELSE call' = [call EXCEPT ![c] = Idle] /\ UNCHANGED <<plans, cycles>>
    /\ UNCHANGED <<catalog, pinning, now, world, mirror, rows, regRev, ops, used, crashes>>

----------------------------------------------------------------------------
(* catalog.refresh, catalog.pin and catalog.unpin.                         *)

\* The trust view is taken; an offline refresh does not wait.
StartRefresh(c) ==
    /\ Call(c)
    /\ call' = [call EXCEPT ![c] = [at |-> "refresh", channel |-> Channel]]
    /\ UNCHANGED <<catalog, pinning, now, world, mirror, rows, regRev, plans, ops, crashes, cycles>>

RefreshFetched(c) ==
    /\ call[c].at = "refresh"
    /\ call' = [call EXCEPT ![c] = Idle]
    /\ Refresh
    /\ UNCHANGED <<world, mirror, rows, regRev, plans, ops, used, crashes, cycles>>

RefreshOffline(c) ==
    /\ Call(c)
    /\ OfflineRefresh
    /\ UNCHANGED <<world, mirror, rows, regRev, service, crashes, cycles>>

SetPins(c) ==
    /\ Call(c)
    /\ pinsRev <= world.pins
    /\ PinsChange({[slug |-> r.manifest.slug, version |-> r.manifest.version, digest |-> r.manifest.archive] :
                        r \in world.mirror})
    /\ UNCHANGED <<world, mirror, rows, regRev, service, crashes, cycles>>

----------------------------------------------------------------------------
(* product.install, update, rollback and uninstall.                        *)

NewRow(q) ==
    [slug |-> q.slug, version |-> q.to, state |-> "FETCHING", active |-> FALSE, deps |-> <<>>,
     digest |-> q.manifest]

ActiveIndex(s) ==
    LET is == {i \in DOMAIN rows : rows[i].slug = s /\ rows[i].active}
    IN  IF is = {} THEN 0 ELSE Min(is)

RetainedIndex(s, v) ==
    LET is == {i \in DOMAIN rows : rows[i].slug = s /\ rows[i].version = v /\ rows[i].state = "STOPPED_RETAINED"}
    IN  IF is = {} THEN 0 ELSE Min(is)

AnyRetained(s) ==
    LET is == {i \in DOMAIN rows : rows[i].slug = s /\ rows[i].state = "STOPPED_RETAINED"}
    IN  IF is = {} THEN 0 ELSE Min(is)

Fits(p) ==
    /\ p.summary.revisions = Revisions
    /\ p.summary.kind \in {"update", "rollback"} =>
        LET a == ActiveIndex(p.summary.slug) IN a # 0 /\ rows[a].version = p.summary.from

Op(p, row, prev, at) ==
    [plan |-> p.summary, pinned |-> p.pinned, planned |-> p.installed, viewed |-> InstalledView,
     row |-> row, prev |-> prev, at |-> at]

Write(r, o) ==
    /\ rows' = r /\ regRev' = regRev + 1
    /\ ops' = o

\* The commit of a plan and what the engine does before its first wait.
Commit(c, p) ==
    LET q == p.summary
        a == ActiveIndex(q.slug)
        t == IF q.kind = "rollback" THEN RetainedIndex(q.slug, q.to) ELSE 0
        g == IF a # 0 THEN a ELSE AnyRetained(q.slug)
    IN  /\ Call(c)
        /\ Fits(p)
        /\ CASE q.kind \in {"install", "update"} ->
                    Write(Append(rows, NewRow(q)),
                          Append(ops, Op(p, Len(rows) + 1, IF q.kind = "update" THEN a ELSE 0, "fetch")))
             [] q.kind = "rollback" /\ t # 0 ->
                    IF rows[t].digest \in RevokedReleases
                    THEN Write([rows EXCEPT ![t].state = "REJECTED"], Append(ops, Op(p, t, a, "done")))
                    ELSE Write([rows EXCEPT ![t].state = "FETCHING"], Append(ops, Op(p, t, a, "fetch")))
             [] /\ q.kind = "uninstall" /\ g # 0 /\ q.keepData
                /\ DependentsPresent(InstalledView, q.slug) = {} \/ q.cascade ->
                    IF rows[g].state = "READY"
                    THEN Write([rows EXCEPT ![g].state = "DRAINING"], Append(ops, Op(p, g, 0, "remove")))
                    ELSE Write([rows EXCEPT ![g].state = "REMOVED", ![g].active = FALSE], Append(ops, Op(p, g, 0, "done")))
             [] OTHER -> FALSE
        /\ UNCHANGED <<catalog, pinning, now, world, mirror, call, plans, crashes, cycles>>

At(o, at) == [ops EXCEPT ![o].at = at]

Run(o, at) == ops[o].at = at

Otherwise == UNCHANGED <<catalog, pinning, now, world, mirror, call, plans, used, crashes, cycles>>

\* The release that is served now is verified and staged; its digests
\* replace the ones of the plan in the row before its archive is looked at.
OpFetched(o) ==
    /\ Run(o, "fetch")
    /\ \E r \in Served(ops[o].plan.slug, ops[o].plan.to) :
        IF VerifyRelease(r, IF cache = NoIndex THEN -1 ELSE cache.index.expires, ops[o].pinned, now) = ""
        THEN Write([rows EXCEPT ![ops[o].row].state = IF Stages(r) THEN "STARTING" ELSE "REJECTED",
                                ![ops[o].row].deps = r.manifest.deps,
                                ![ops[o].row].digest = r.manifest.digest], At(o, IF Stages(r) THEN "start" ELSE "done"))
        ELSE Write([rows EXCEPT ![ops[o].row].state = "REJECTED"], At(o, "done"))
    /\ Otherwise

OpFetchFails(o) ==
    /\ Run(o, "fetch")
    /\ Write([rows EXCEPT ![ops[o].row].state = "REJECTED"], At(o, "done"))
    /\ Otherwise

\* The candidate is ready: the pointer moves if it still is where the
\* operation found it, and the generation it replaces is drained.
OpReady(o) ==
    LET g == ops[o].row
        prev == ops[o].prev
        drains == prev # 0 /\ prev # g /\ rows[prev].state = "READY"
        moved == [i \in DOMAIN rows |->
                    IF i = g THEN [rows[i] EXCEPT !.state = "READY", !.active = TRUE]
                    ELSE IF i = prev THEN [rows[i] EXCEPT !.active = FALSE, !.state = IF drains THEN "DRAINING" ELSE @]
                    ELSE rows[i]]
    IN  /\ Run(o, "start")
        /\ IF ActiveIndex(rows[g].slug) = prev
           THEN Write(moved, At(o, IF drains THEN "drain" ELSE "ready"))
           ELSE Write([rows EXCEPT ![g].state = "STOPPED_RETAINED"], At(o, "done"))
        /\ Otherwise

OpNotReady(o) ==
    /\ Run(o, "start")
    /\ Write([rows EXCEPT ![ops[o].row].state = "STOPPED_RETAINED"], At(o, "done"))
    /\ Otherwise

OpStopped(o) ==
    /\ \/ Run(o, "drain") /\ Write([rows EXCEPT ![ops[o].prev].state = "STOPPED_RETAINED"], At(o, "ready"))
       \/ Run(o, "remove") /\ Write([rows EXCEPT ![ops[o].row].state = "REMOVED", ![ops[o].row].active = FALSE], At(o, "done"))
    /\ Otherwise

----------------------------------------------------------------------------
(* The world around.                                                       *)

\* Another release of a version, with manifest and archive of its own.
Republish ==
    /\ \E r \in world.republished \ mirror :
        mirror' = {x \in mirror : x.manifest.slug # r.manifest.slug \/ x.manifest.version # r.manifest.version}
                    \union {r}
    /\ UNCHANGED <<catalog, pinning, now, world, rows, regRev, service, used, crashes, cycles>>

Tick ==
    /\ now < MaxNow
    /\ ClockAdvances
    /\ UNCHANGED <<world, mirror, rows, regRev, service, used, crashes, cycles>>

\* The daemon dies, between calls or after the first commits of a refresh.
Crash ==
    /\ crashes < MaxCrashes
    /\ crashes' = crashes + 1
    /\ call' = [c \in Callers |-> Idle]
    /\ plans' = {} /\ ops' = <<>>
    /\ \/ UNCHANGED catalogVars
       \/ CutRefresh /\ \E c \in Callers : call[c].at = "refresh"
       \/ CutOffline
    /\ UNCHANGED <<world, mirror, rows, regRev, used, cycles>>

Init ==
    /\ world \in Range(Worlds)
    /\ mirror = world.mirror
    /\ rows = world.rows /\ regRev = 0
    /\ CatalogBegins(world.index)
    /\ call = [c \in Callers |-> Idle]
    /\ plans = {} /\ ops = <<>>
    /\ used = 0 /\ crashes = 0
    /\ cycles = {}

Next ==
    \/ \E c \in Callers :
        \/ \E q \in world.asks : StartPlan(c, q)
        \/ PlanFetched(c) \/ PlanFetchFails(c)
        \/ StartRefresh(c) \/ RefreshFetched(c) \/ RefreshOffline(c)
        \/ SetPins(c)
        \/ \E p \in plans : Commit(c, p)
    \/ \E o \in DOMAIN ops :
        OpFetched(o) \/ OpFetchFails(o) \/ OpReady(o) \/ OpNotReady(o) \/ OpStopped(o)
    \/ Republish \/ Tick \/ Crash

Spec == Init /\ [][Next]_vars

----------------------------------------------------------------------------
(* Properties.                                                             *)

Before(m, order, s) ==
    LET i == SelectInSeq(order, LAMBDA n : n = m)
    IN  \E j \in DOMAIN order : order[j].slug = s /\ (i = 0 \/ j < i)

\* A plan names each product once and after everything it requires: for
\* every required dependency of the target and of each planned product, a
\* product of that name comes earlier, or none that is offered fits and the
\* registry has one that does; each planned product is the highest version
\* that fits some dependency on it, and none is needed through a blocked
\* edge.  About resolveGraph's walk and selectVersion, seen from the result.
PlanSound ==
    \A p \in plans : p.target # None /\ p.summary.kind # "uninstall" =>
        LET order == p.summary.dependencies
            all   == Range(order) \union {p.target}
            Fit(d) == {m \in p.found : m.slug = d.slug /\ Satisfies(m.version, d.range, FALSE)}
        IN  /\ \A i, j \in DOMAIN order : order[i].slug = order[j].slug => i = j
            /\ \A m \in all : \A d \in Range(m.deps) : d.kind = "required" =>
                    /\ ~Blocked(d)
                    /\ \/ Before(m, order, d.slug)
                       \/ Fit(d) = {} /\ \E r \in Range(p.installed) :
                                r.slug = d.slug /\ Satisfies(r.version, d.range, FALSE)
            /\ \A m \in Range(order) : \E n \in all : \E d \in Range(n.deps) :
                    m \in Fit(d) /\ \A x \in Fit(d) : ~Precedes(m.version, x.version)

\* A refusal names a cycle that is there: each product on it has a version
\* that depends on the next, by another kind than evidence.  About the path
\* resolveGraph reports.
CycleReal ==
    \A c \in cycles :
        LET path == c[1]
        IN  /\ Len(path) >= 2 /\ path[1] = path[Len(path)]
            /\ \A i, j \in 1..(Len(path) - 1) : path[i] = path[j] => i = j
            /\ \A i \in 1..(Len(path) - 1) : \E m \in c[2] :
                    m.slug = path[i] /\ \E d \in Range(m.deps) : d.kind # "evidence" /\ d.slug = path[i + 1]

\* An operation starts on the products its plan was made for: nothing was
\* installed, moved or removed between the first read of product.plan and
\* the commit, however many awaits and calls lay between, so that a plan
\* starts one operation at most.  About the revisions a plan is bound to.
CommitSeesPlan == \A o \in DOMAIN ops : ops[o].viewed = ops[o].planned

\* "hash-bound to manifest + archive bytes" (service.ts:6): what an
\* operation makes ready is the manifest its plan was reviewed with.
InstalledAsReviewed ==
    \A o \in DOMAIN ops : ops[o].at = "ready" => rows[ops[o].row].digest = ops[o].plan.manifest

=============================================================================
