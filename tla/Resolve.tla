------------------------------ MODULE Resolve -------------------------------
(***************************************************************************)
(* The dependency resolver of product plans (core/src/v2/lifecycle/        *)
(* resolve.ts): a walk over the dependencies of a manifest, depth first,   *)
(* and the checks that turn it into a plan.                                *)
(*                                                                         *)
(* A manifest is [slug, version, deps, digest], a dependency [slug, kind,  *)
(* range, edge], an installed product a row of the registry.  manifests[s] *)
(* is the set of manifests of slug s that the resolver was given.          *)
(***************************************************************************)
EXTENDS SemVer, SequencesExt, FiniteSetsExt

\* The edges whose required use fails a plan, with the code each fails with.
EDGE_DISPOSITIONS ==
    [E02 |-> "UNSUPPORTED_COMPOSITION", E17 |-> "UNSUPPORTED_COMPOSITION",
     E21 |-> "UNSUPPORTED_COMPOSITION", E28 |-> "CAP_ADAPTER_UNAVAILABLE",
     E38 |-> "MINT_EXCLUSIVE_HOLD_UNAVAILABLE", E49 |-> "UNSUPPORTED_COMPOSITION"]

None == [none |-> TRUE]

Fitting(candidates, range) == {m \in candidates : Satisfies(m.version, range, FALSE)}

Lowest(ms) == IF ms = {} THEN None ELSE CHOOSE m \in ms : \A n \in ms : ~Precedes(n.version, m.version)
Highest(ms) == IF ms = {} THEN None ELSE CHOOSE m \in ms : \A n \in ms : ~Precedes(m.version, n.version)

\* Mutant: the lowest version that fits.
SelectVersionLowest(candidates, range) == Lowest(Fitting(candidates, range))

SelectVersion(candidates, range) == Highest(Fitting(candidates, range))

\* The row of slug s the resolver looks at: the last one in the registry,
\* whatever became of it.
InstalledHit(installed, s, range) ==
    LET mine == {i \in DOMAIN installed : installed[i].slug = s}
    IN  mine # {} /\ Satisfies(installed[Max(mine)].version, range, FALSE)

Requires(row, s) == \E d \in Range(row.deps) : d.kind = "required" /\ d.slug = s

\* Products that still require s, as their rows say.
DependentsPresent(installed, s) ==
    {row \in Range(installed) :
        /\ row.slug # s
        /\ row.state \notin {"REMOVED", "REJECTED", "CANCELLED"}
        /\ Requires(row, s)}

----------------------------------------------------------------------------
(* resolveGraph.  A walk keeps the mark of each slug it has come to, the   *)
(* path it is on, the manifests it is done with in that order, and how it  *)
(* failed.                                                                 *)

EmptyWalk == [mark |-> <<>>, stack |-> <<>>, order |-> <<>>, evidence |-> {}, code |-> "", cycle |-> <<>>]

Marked(w, s, m) == s \in DOMAIN w.mark /\ w.mark[s] = m

Mark(w, s, m) ==
    [w EXCEPT !.mark = [t \in DOMAIN w.mark \union {s} |-> IF t = s THEN m ELSE w.mark[t]]]

Enter(w, m) == Mark([w EXCEPT !.stack = Append(@, m.slug)], m.slug, "visiting")

Leave(w, m) ==
    IF w.code # "" THEN w
    ELSE Mark([w EXCEPT !.stack = Front(@), !.order = Append(@, m)], m.slug, "done")

Cycle(w, s) ==
    [w EXCEPT !.code = "DEPENDENCY_CONFLICT",
              !.cycle = Append(SubSeq(w.stack, SelectInSeq(w.stack, LAMBDA t : t = s), Len(w.stack)), s)]

Blocked(d) == d.kind = "required" /\ d.edge \in DOMAIN EDGE_DISPOSITIONS

\* What a dependency comes to: nothing to do, a failure, or a manifest.
Choice(d, selected, hit) ==
    CASE d.kind = "evidence" -> [go |-> "record"]
      [] Blocked(d) -> [go |-> "fail", code |-> EDGE_DISPOSITIONS[d.edge]]
      [] d.kind = "required" /\ selected = None /\ hit -> [go |-> "skip"]
      [] d.kind = "required" /\ selected = None /\ ~hit -> [go |-> "fail", code |-> "DEPENDENCY_CONFLICT"]
      [] d.kind = "optional" /\ (hit \/ selected = None) -> [go |-> "skip"]
      [] OTHER -> [go |-> "visit", manifest |-> selected]

RECURSIVE Visit(_, _, _, _), VisitDeps(_, _, _, _, _), Follow(_, _, _, _, _)

Visit(m, w, manifests, installed) ==
    IF Marked(w, m.slug, "done") THEN w
    ELSE IF Marked(w, m.slug, "visiting") THEN Cycle(w, m.slug)
    ELSE Leave(VisitDeps(m, 1, Enter(w, m), manifests, installed), m)

VisitDeps(m, i, w, manifests, installed) ==
    IF w.code # "" \/ i > Len(m.deps) THEN w
    ELSE LET d == m.deps[i]
             c == Choice(d, SelectVersion(manifests[d.slug], d.range), InstalledHit(installed, d.slug, d.range))
         IN  VisitDeps(m, i + 1, Follow(d, c, w, manifests, installed), manifests, installed)

Follow(d, c, w, manifests, installed) ==
    CASE c.go = "skip"   -> w
      [] c.go = "record" -> [w EXCEPT !.evidence = @ \union {d.slug}]
      [] c.go = "fail"   -> [w EXCEPT !.code = c.code]
      [] c.go = "visit"  -> Visit(c.manifest, w, manifests, installed)

ResolveGraph(root, manifests, installed) == Visit(root, EmptyWalk, manifests, installed)

----------------------------------------------------------------------------
(* resolvePlan.  q is what is asked, [kind, slug, version, cascade,        *)
(* keepData, pinned]; view is what the service read: the index, the        *)
(* installed rows, the policy and the clock.                               *)

ActiveRow(installed, s) ==
    LET is == {i \in DOMAIN installed : installed[i].slug = s /\ installed[i].active}
    IN  IF is = {} THEN None ELSE installed[Min(is)]

Retained(installed, s) ==
    {row \in Range(installed) : row.slug = s /\ row.state = "STOPPED_RETAINED"}

Listed(index, s, v) == \E e \in index.entries : e.slug = s /\ e.version = v

FirstRow(installed, s) == installed[Min({i \in DOMAIN installed : installed[i].slug = s})]

\* Product t excludes version v of s: its first row is looked at, and in it
\* the first dependency on s, of whatever kind.
Excludes(installed, t, s, v) ==
    LET deps == FirstRow(installed, t).deps
        i    == SelectInSeq(deps, LAMBDA d : d.slug = s)
    IN  i = 0 \/ ~Satisfies(v, deps[i].range, FALSE)

\* The checks before the graph is walked, in the order of the code.
PlanCode(q, view) ==
    LET active     == ActiveRow(view.installed, q.slug)
        dependents == DependentsPresent(view.installed, q.slug)
    IN  CASE view.strict /\ q.slug \notin view.allowlist -> "POLICY_DENIED"
          [] /\ view.index # None /\ q.kind \in {"install", "update"}
             /\ ~Listed(view.index, q.slug, q.version) -> "NOT_FOUND"
          [] /\ view.index # None /\ q.kind \in {"install", "update"}
             /\ ~q.pinned /\ view.now >= view.index.expires -> "TRUST_EXPIRED"
          [] q.kind = "install" /\ active # None -> "DEPENDENCY_CONFLICT"
          [] q.kind \in {"update", "rollback"} /\ active = None -> "NOT_FOUND"
          [] /\ q.kind = "rollback"
             /\ \A row \in Retained(view.installed, q.slug) : row.version # q.version -> "NOT_FOUND"
          [] /\ q.kind = "uninstall"
             /\ active = None /\ Retained(view.installed, q.slug) = {} -> "NOT_FOUND"
          [] q.kind = "uninstall" /\ dependents # {} /\ ~q.cascade -> "DEPENDENTS_PRESENT"
          [] /\ q.kind = "update"
             /\ \E row \in dependents : Excludes(view.installed, row.slug, q.slug, q.version) -> "DEPENDENTS_PRESENT"
          [] OTHER -> ""

\* The summary whose hash is the plan, or the code it is refused with.
Summary(q, view, target, code, walk, active) ==
    [code    |-> IF code # "" THEN code ELSE walk.code,
     cycle   |-> IF code # "" THEN <<>> ELSE walk.cycle,
     summary |->
        [kind |-> q.kind, slug |-> q.slug, to |-> q.version,
         from |-> IF active # None THEN active.version
                  ELSE IF code = "" /\ q.kind = "uninstall" THEN FirstRow(view.installed, q.slug).version
                  ELSE None,
         cascade |-> q.cascade, keepData |-> q.keepData,
         manifest |-> IF target = None THEN "unknown" ELSE target.digest,
         dependencies |-> SelectSeq(walk.order, LAMBDA m : m.slug # q.slug),
         evidence |-> walk.evidence,
         revisions |-> view.revisions]]

ResolvePlan(q, view, target, manifests) ==
    Summary(q, view, target, PlanCode(q, view),
            IF target = None THEN EmptyWalk ELSE ResolveGraph(target, manifests, view.installed),
            ActiveRow(view.installed, q.slug))

=============================================================================
