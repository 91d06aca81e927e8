------------------------------- MODULE Scopes -------------------------------
(***************************************************************************)
(* The scope algebra of the gateway's peers (core/src/v2/protocol/peers.ts *)
(* and core/src/v2/peers/scopes.ts): which scopes are well formed, when    *)
(* one lies within another, and what the invited scopes become when the    *)
(* operator, the configured policy and the peer's own capabilities have    *)
(* narrowed them.  A scope list is a set: validateScopes refuses a list    *)
(* with an entry twice, and no caller depends on the order.                *)
(***************************************************************************)
EXTENDS Integers, FiniteSets

\* SCOPE_DIMENSIONS: the dimensions a permission uses; the others are empty.
Dimensions ==
    [emit      |-> {"topics", "runs"},
     consume   |-> {"topics", "runs"},
     approvals |-> {"runs"},
     lineage   |-> {"runs"},
     manage    |-> {"products"}]

Permissions == DOMAIN Dimensions

Scope(p, t, r, x) == [permission |-> p, topics |-> t, runs |-> r, products |-> x]

ValidScope(s) ==
    /\ s.permission \in Permissions
    /\ \A d \in {"topics", "runs", "products"} \ Dimensions[s.permission] : s[d] = {}

\* What a set of scopes lets its holder do: permissions on exact resources.
Grants(scopes) ==
    UNION {{<<s.permission, "topics", x>> : x \in s.topics} \union
           {<<s.permission, "runs", x>> : x \in s.runs} \union
           {<<s.permission, "products", x>> : x \in s.products} : s \in scopes}

ScopeWithin(inner, outer) ==
    \E o \in outer :
        /\ o.permission = inner.permission
        /\ inner.topics \subseteq o.topics
        /\ inner.runs \subseteq o.runs
        /\ inner.products \subseteq o.products

\* The daemon's gate (peerScopeAllows): whether the scopes of a grant let its
\* holder call a method on the topics or the product it names.
PeerScopeAllows(scopes, act) ==
    LET held(p) == {s \in scopes : s.permission = p} IN
    CASE act.method = "events.publish" -> \E s \in held("emit") : act.topics \subseteq s.topics
      [] act.method \in {"events.query", "events.subscribe"} ->
            \A t \in act.topics : \E s \in held("consume") : t \in s.topics
      [] act.method = "events.ack" -> held("consume") # {}
      [] act.method \in {"approval.request", "approval.cancel"} -> held("approvals") # {}
      [] act.method = "lineage.query" -> held("lineage") # {}
      [] act.method = "product.install" -> \E s \in held("manage") : act.products \subseteq s.products
      [] OTHER -> TRUE

\* products.manage: an operator-tier peer, agents.allow_operator and exact
\* products (pair.approve is itself the local operator's confirmation).
CheckScopeAdmission(s, role, allowOperator) ==
    s.permission = "manage" =>
        role = "operator" /\ allowOperator /\ s.products # {}

\* The approved scopes, each cut down by every policy scope of its kind.
IntersectPolicy(approved, policy) ==
    {Scope(q[1].permission, q[1].topics \intersect q[2].topics,
           q[1].runs \intersect q[2].runs, q[1].products \intersect q[2].products) :
        q \in {x \in approved \X policy : x[1].permission = x[2].permission}}

\* The peer's signed capabilities bound the grant.
BindCapabilities(scopes, cap) ==
    {CASE s.permission = "emit"    -> [s EXCEPT !.topics = @ \intersect cap.emit]
       [] s.permission = "consume" -> [s EXCEPT !.topics = @ \intersect cap.consume]
       [] OTHER -> s :
        s \in {t \in scopes : /\ t.permission = "approvals" => cap.request_approvals
                              /\ t.permission = "lineage" => cap.lineage = "own"}}

=============================================================================
