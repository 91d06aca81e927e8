------------------------------- MODULE Peers --------------------------------
(***************************************************************************)
(* Enrolment and authentication of the gateway's peers: the invitations    *)
(* (core/src/v2/peers/pairs.ts), the challenge, register and renew calls   *)
(* (peers/service.ts), the peer rows (peers/registry.ts), the refresh      *)
(* families (peers/tokens.ts) and the daemon's check of a signed request   *)
(* (gateway-daemon/src/rpc/auth.ts), over the document table they keep     *)
(* their rows in (adapters/store-ports.ts).                                *)
(*                                                                         *)
(* A handler runs without an await: it reads rows, decides, and then makes *)
(* its writes one by one, each a commit of its own.  todo holds the writes *)
(* a handler has still to make, so a commit that fails (the handler throws *)
(* and what it wrote stays) and a crash (the next boot has a new epoch)    *)
(* can fall between any two.  A secret is named by the row that stores its *)
(* hash, and a signature by the key that made it over the body it is sent  *)
(* with.  The rate limiter refuses a call before it has had any effect, as *)
(* if it had not been made, and is left out.  Time is counted in minutes.  *)
(***************************************************************************)
EXTENDS Scopes, Sequences, Functions

CONSTANTS
    Keys,           \* key fingerprints
    Claims,         \* Claims[c]: the capabilities a registration may claim
    Invites,        \* what an operator invites with: [role, scopes, pinned]
    ApproveScopes,  \* scope sets an operator approves
    Policy,         \* the configured scope ceiling
    AllowOperator,  \* agents.allow_operator
    InviteTtl, ChallengeTtl, AccessTtl, RefreshTtl, ProofTtl,
    MaxAttempts,    \* maxCodeAttempts
    MaxPending,     \* maxPendingInvitations
    Nonces, Requests,           \* proof nonces and envelope ids
    ActOf,                      \* ActOf[n]: what the request signed with nonce n asks
    None,           \* null
    MaxPairs, MaxChallenges, MaxGrants, MaxNow,
    MaxFaults       \* bound on reboots and failed commits together

ASSUME PeersAssumption ==
    /\ {InviteTtl, ChallengeTtl, AccessTtl, RefreshTtl, ProofTtl} \subseteq Nat \ {0}
    /\ {MaxAttempts, MaxPending} \subseteq Nat \ {0}
    /\ {MaxPairs, MaxChallenges, MaxGrants, MaxNow, MaxFaults} \subseteq Nat
    /\ AllowOperator \in BOOLEAN
    /\ \A scopes \in ApproveScopes \union {i.scopes : i \in Invites} : \A s \in scopes : ValidScope(s)

VARIABLES
    db,        \* db[kind][id]: the durable documents
    todo,      \* what the running handler has still to write and answer
    now,       \* the clock, in minutes
    epoch,     \* the session epoch of this boot
    fails,     \* commits that failed so far
    approvals, \* (history) the operator's last approval of a pair
    enrolled,  \* (history) answers of register: [pair, peer]
    accepted,  \* (history) how often each signed request was let in
    reused     \* (history) families a reused refresh token has revoked

history == <<approvals, enrolled, accepted, reused>>
vars == <<db, todo, now, epoch, fails, history>>

Kinds == {"pair", "challenge", "source", "peer", "grant", "nonce", "renew"}

Live == {"CREATED", "AWAITING_OPERATOR", "APPROVED"}

\* PAIR_TRANSITIONS.
PairTransitions ==
    [CREATED           |-> {"AWAITING_OPERATOR", "CANCELLED", "EXPIRED", "LOCKED"},
     AWAITING_OPERATOR |-> {"APPROVED", "CANCELLED", "EXPIRED", "LOCKED"},
     APPROVED          |-> {"CONSUMED", "AWAITING_OPERATOR", "CANCELLED", "EXPIRED", "LOCKED"},
     CONSUMED |-> {}, CANCELLED |-> {}, EXPIRED |-> {}, LOCKED |-> {}]

\* The transitions of a peer row; a move to its own state rewrites the row.
PeerTransitions ==
    [REGISTERED   |-> {"REGISTERED", "CONNECTED", "DISCONNECTED", "REVOKED"},
     CONNECTED    |-> {"CONNECTED", "DISCONNECTED", "REVOKED"},
     DISCONNECTED |-> {"DISCONNECTED", "CONNECTED", "REVOKED"},
     REVOKED      |-> {"REVOKED"}]

----------------------------------------------------------------------------
(* The document table: docPut is one commit, docGetJson answers a copy.    *)

Rows(kind) == DOMAIN db[kind]

Doc(kind, id) == db[kind][id]

\* The function f with v at x, which may be new.
With(f, x, v) == [y \in DOMAIN f \union {x} |-> IF y = x THEN v ELSE f[y]]

Put(kind, id, doc) == [kind |-> kind, id |-> id, doc |-> doc]

NextId(kind) == Cardinality(Rows(kind)) + 1

Idle == todo = <<>>

\* docPut: one document, one commit.
Committed(w) == [db EXCEPT ![w.kind] = With(@, w.id, w.doc)]

\* A handler has decided: it makes the first of its writes now and has the
\* others, and its answer, still to make.  (Should the first commit fail, it
\* is as if the call had not been made.)
Do(items) ==
    /\ Idle
    /\ db' = IF items = <<>> THEN db ELSE Committed(Head(items))
    /\ todo' = IF items = <<>> THEN <<>> ELSE Tail(items)
    /\ UNCHANGED <<now, epoch, fails>>

Answer(op, what) == [kind |-> "answer", id |-> op, doc |-> what]

----------------------------------------------------------------------------
(* Invitations: PairingManager.                                            *)

\* assertLive lets the pair pass.
PairLive(rec) == rec.epoch = epoch /\ now < rec.expires /\ rec.state \in Live

\* The lazy expiry of assertLive and of get.
ExpireWrites(rec) ==
    IF rec.state \in Live /\ ~PairLive(rec)
    THEN <<Put("pair", rec.pair, [rec EXCEPT !.state = "EXPIRED"])>> ELSE <<>>

\* failAttempt: the last allowed failure locks the row; on a pair that may
\* not be locked the transition throws before the row is written.  The count
\* of a locked row goes on, but is only ever compared with the limit.
FailAttempt(rec) ==
    LET n == rec.attempts + 1 IN
    IF n < MaxAttempts
    THEN <<Put("pair", rec.pair, [rec EXCEPT !.attempts = n])>>
    ELSE IF "LOCKED" \in PairTransitions[rec.state]
         THEN <<Put("pair", rec.pair, [rec EXCEPT !.attempts = n, !.state = "LOCKED"])>>
         ELSE <<>>

\* checkChallenge, and the same checks in renew.
ChallengeLive(c, key) ==
    LET ch == Doc("challenge", c) IN
    ch.epoch = epoch /\ ~ch.consumed /\ now < ch.expires /\ ch.key = key

\* What agent.pair.propose and agent.register carry: code tells whether the
\* code is the invitation's, by is the key that made the signature.
Registrations ==
    [pair : Rows("pair"), code : BOOLEAN, key : Keys, by : Keys,
     claim : DOMAIN Claims, challenge : Rows("challenge")]

Proposal(reg) == <<reg.key, reg.claim>>

\* validateRegistration up to the rate limiter, and the checks behind it.
Presented(reg) ==
    /\ PairLive(Doc("pair", reg.pair))
    /\ reg.code
    /\ ChallengeLive(reg.challenge, reg.key)

ProofHolds(reg) ==
    /\ Doc("pair", reg.pair).pinned \in {reg.key, None}
    /\ reg.by = reg.key

Validated(reg) == Presented(reg) /\ ProofHolds(reg) /\ Claims[reg.claim].supported

\* The writes of a validation that throws.
RefusalWrites(reg) ==
    LET rec == Doc("pair", reg.pair) IN
    IF ~PairLive(rec) THEN ExpireWrites(rec)
    ELSE IF ~reg.code \/ (Presented(reg) /\ ~ProofHolds(reg)) THEN FailAttempt(rec)
    ELSE <<>>

RefuseRegistration(reg) ==
    /\ ~Validated(reg)
    /\ Do(RefusalWrites(reg))

CreateInvitation(i) ==
    LET p == NextId("pair") IN
    /\ p <= MaxPairs
    /\ Cardinality({q \in Rows("pair") : PairLive(Doc("pair", q))}) < MaxPending
    /\ Do(<<Put("pair", p, [pair |-> p, role |-> i.role, scopes |-> i.scopes, pinned |-> i.pinned,
                            state |-> "CREATED", epoch |-> epoch, attempts |-> 0,
                            proposal |-> None, approved |-> None,
                            expires |-> now + InviteTtl])>>)

\* A changed proposal drops the approval and waits for the operator again.
Propose(reg) ==
    LET rec == Doc("pair", reg.pair) IN
    /\ Validated(reg)
    /\ Do(<<Put("pair", reg.pair,
                IF rec.proposal = Proposal(reg) THEN rec
                ELSE [rec EXCEPT !.proposal = Proposal(reg), !.approved = None,
                                 !.state = "AWAITING_OPERATOR"])>>)

\* agent.pair.get by somebody who knows the code, guesses it or is local.
GetPair(p, code) ==
    LET rec == Doc("pair", p)
        due == ExpireWrites(rec)
        read == IF due = <<>> THEN rec ELSE due[1].doc
    IN  /\ Do(IF code = "wrong" THEN due \o FailAttempt(read) ELSE due)

\* The admission hook that pairApprove passes to approve.
Admitted(rec, s) == CheckScopeAdmission(s, rec.role, AllowOperator)

\* agent.pair.approve of a proposal the operator has seen.
Approve(p, proposal, scopes) ==
    LET rec == Doc("pair", p) IN
    /\ PairLive(rec)
    /\ rec.state = "AWAITING_OPERATOR"
    /\ rec.proposal = proposal
    /\ \A s \in scopes : ScopeWithin(s, rec.scopes) /\ Admitted(rec, s)
    /\ Do(<<Put("pair", p, [rec EXCEPT !.state = "APPROVED",
                                       !.approved = [proposal |-> proposal, scopes |-> scopes]])>>)
    /\ approvals' = With(approvals, p, [proposal |-> proposal, scopes |-> scopes])
    /\ UNCHANGED <<enrolled, accepted, reused>>

\* agent.pair.cancel; on a pair that is due it only records the expiry.
CancelPair(p) ==
    LET rec == Doc("pair", p) IN
    /\ Do(IF PairLive(rec) THEN <<Put("pair", p, [rec EXCEPT !.state = "CANCELLED"])>>
          ELSE ExpireWrites(rec))

----------------------------------------------------------------------------
(* Enrolment and tokens: AgentService, PeerRegistry and TokenService.      *)

Challenge(key) ==
    LET c == NextId("challenge") IN
    /\ c <= MaxChallenges
    /\ Do(<<Put("challenge", c, [challenge |-> c, key |-> key, epoch |-> epoch,
                                 expires |-> now + ChallengeTtl, consumed |-> FALSE])>>)

\* TokenService.issue.
Issue(g, peer, family) ==
    Put("grant", g, [grant |-> g, family |-> family, peer |-> peer.id,
                     revision |-> peer.revision, epoch |-> epoch, scopes |-> peer.scopes,
                     access |-> now + AccessTtl, refresh |-> now + RefreshTtl,
                     state |-> "ACTIVE"])

\* Mutant: any approval of the pair will do.
RegisterableAny(reg) ==
    Validated(reg) /\ Doc("pair", reg.pair).approved # None

\* The approval a registration must match: assertRegisterable.
Registerable(reg) ==
    LET rec == Doc("pair", reg.pair) IN
    /\ Validated(reg)
    /\ rec.state = "APPROVED"
    /\ rec.approved # None
    /\ rec.approved.proposal = Proposal(reg)

\* The effective grant: approved, cut by the policy and the capabilities.
EffectiveScopes(reg) ==
    BindCapabilities(IntersectPolicy(Doc("pair", reg.pair).approved.scopes, Policy),
                     Claims[reg.claim])

\* registerPeer: the row, and the source id that stays with the key.
PeerWrites(reg, id) ==
    LET known  == reg.key \in Rows("source")
        source == IF known THEN Doc("source", reg.key) ELSE NextId("source")
    IN  (IF known THEN <<>> ELSE <<Put("source", reg.key, source)>>) \o
        <<Put("peer", id, [id |-> id, source |-> source, key |-> reg.key,
                           role |-> Doc("pair", reg.pair).role, claim |-> reg.claim,
                           scopes |-> EffectiveScopes(reg), state |-> "REGISTERED",
                           revision |-> 1])>>

\* consume: the challenge and the invitation, each by a commit of its own.
ConsumeWrites(reg) ==
    <<Put("challenge", reg.challenge, [Doc("challenge", reg.challenge) EXCEPT !.consumed = TRUE]),
      Put("pair", reg.pair, [Doc("pair", reg.pair) EXCEPT !.state = "CONSUMED"])>>

\* agent.register: peer row, grant, challenge, invitation, answer.
Register(reg) ==
    LET id == NextId("peer")
        g  == NextId("grant")
        pw == PeerWrites(reg, id)
    IN  /\ Registerable(reg)
        /\ g <= MaxGrants
        /\ Do(pw \o <<Issue(g, pw[Len(pw)].doc, g)>> \o ConsumeWrites(reg) \o
              <<Answer("enrol", [pair |-> reg.pair, peer |-> id])>>)

\* The writes that revoke the grants in gs, in the order of the table: a row
\* is replaced when it is written, so any order is one it can have.
RevokeGrants(gs) ==
    {[i \in DOMAIN o |-> Put("grant", o[i], [Doc("grant", o[i]) EXCEPT !.state = "REVOKED"])] :
        o \in Bijection(1..Cardinality(gs), gs)}

Family(f) == {g \in Rows("grant") : Doc("grant", g).family = f}

\* The refresh grant may rotate: the checks of renew for an ACTIVE grant.
Renewable(g, c) ==
    LET rec == Doc("grant", g)  peer == Doc("peer", rec.peer) IN
    /\ rec.state = "ACTIVE"
    /\ rec.revision = peer.revision
    /\ now < rec.refresh
    /\ ChallengeLive(c, peer.key)

\* Mutant: the new grant is issued before the old one is spent.
RenewIssueFirst(g, c, r) ==
    LET rec  == Doc("grant", g)
        peer == Doc("peer", rec.peer)
        n    == NextId("grant")
    IN  /\ peer.state # "REVOKED" /\ rec.epoch = epoch /\ Renewable(g, c) /\ n <= MaxGrants
        /\ Do(<<Put("challenge", c, [Doc("challenge", c) EXCEPT !.consumed = TRUE]),
                Issue(n, peer, rec.family),
                Put("grant", g, [rec EXCEPT !.state = "CONSUMED"]),
                Put("renew", g, r)>>)

\* agent.renew with a proof by the peer's own key, under envelope id r.  A
\* spent grant answers again to the id that spent it; any other use of it
\* revokes its family.
Renew(g, c, r) ==
    LET rec  == Doc("grant", g)
        peer == Doc("peer", rec.peer)
        n    == NextId("grant")
        open == peer.state # "REVOKED" /\ rec.epoch = epoch
    IN  IF open /\ rec.state = "CONSUMED"
        THEN IF g \in Rows("renew") /\ Doc("renew", g) = r
             THEN Do(<<>>)
             ELSE \E ws \in RevokeGrants({h \in Family(rec.family) : Doc("grant", h).state # "REVOKED"}) :
                      Do(ws \o <<Answer("reuse", rec.family)>>)
        ELSE /\ open /\ Renewable(g, c)
             /\ n <= MaxGrants
             /\ Do(<<Put("challenge", c, [Doc("challenge", c) EXCEPT !.consumed = TRUE]),
                     Put("grant", g, [rec EXCEPT !.state = "CONSUMED"]),
                     Issue(n, peer, rec.family),
                     Put("renew", g, r)>>)

\* agent.revoke: the peer row first, then every active grant.
RevokePeer(p) ==
    LET rec == Doc("peer", p) IN
    /\ rec.state # "REVOKED"
    /\ \E ws \in RevokeGrants({g \in Rows("grant") : /\ Doc("grant", g).peer = p
                                                     /\ Doc("grant", g).state = "ACTIVE"}) :
          Do(<<Put("peer", p, [rec EXCEPT !.state = "REVOKED", !.revision = @ + 1])>> \o ws)

\* agent.disconnect.
Disconnect(p) ==
    /\ "DISCONNECTED" \in PeerTransitions[Doc("peer", p).state]
    /\ Do(<<Put("peer", p, [Doc("peer", p) EXCEPT !.state = "DISCONNECTED"])>>)

----------------------------------------------------------------------------
(* A signed request of a peer: resolvePeerPrincipal.                       *)

\* Mutant: only the grant's own row is looked at.
LookupAccessGrant(g) == Doc("grant", g).state = "ACTIVE"

\* lookupAccess: the grant behind the token, unless it or its peer is revoked.
LookupAccess(g) == Doc("grant", g).state = "ACTIVE" /\ Doc("peer", Doc("grant", g).peer).state # "REVOKED"

NonceSeen(p, nonce) ==
    <<p, nonce>> \in Rows("nonce") /\ Doc("nonce", <<p, nonce>>) > now

\* The proof's life: signed at q.issued for ProofTtl, inside the token's.
ProofFresh(q) ==
    /\ q.issued <= now
    /\ now < q.issued + ProofTtl
    /\ q.issued + ProofTtl <= Doc("grant", q.grant).access

\* The nonce is spent before the signature is verified; then the dispatcher
\* asks whether the grant's scopes allow the call.
Authenticate(q, by) ==
    LET rec == Doc("grant", q.grant) IN
    /\ LookupAccess(q.grant)
    /\ now < rec.access
    /\ rec.epoch = epoch
    /\ ProofFresh(q)
    /\ ~NonceSeen(rec.peer, q.nonce)
    /\ Do(<<Put("nonce", <<rec.peer, q.nonce>>, rec.access)>> \o
          (IF by = Doc("peer", rec.peer).key /\ PeerScopeAllows(rec.scopes, ActOf[q.nonce])
           THEN <<Answer("accept", q)>> ELSE <<>>))

----------------------------------------------------------------------------
(* The handler's commits, its answer, failures and time.                   *)

CommitDoc ==
    /\ ~Idle /\ Head(todo).kind # "answer"
    /\ db' = Committed(Head(todo))
    /\ todo' = Tail(todo)
    /\ UNCHANGED <<now, epoch, fails, history>>

Deliver ==
    /\ ~Idle /\ Head(todo).kind = "answer"
    /\ LET a == Head(todo) IN
       /\ enrolled' = IF a.id = "enrol" THEN enrolled \union {a.doc} ELSE enrolled
       /\ reused'   = IF a.id = "reuse" THEN reused \union {a.doc} ELSE reused
       /\ accepted' = IF a.id # "accept" THEN accepted
                      ELSE With(accepted, a.doc,
                                (IF a.doc \in DOMAIN accepted THEN accepted[a.doc] ELSE 0) + 1)
    /\ todo' = <<>>
    /\ UNCHANGED <<db, now, epoch, fails, approvals>>

\* The commit fails: the handler throws, what it wrote before stays.
CommitFails ==
    /\ ~Idle /\ Head(todo).kind # "answer" /\ epoch + fails <= MaxFaults
    /\ fails' = fails + 1
    /\ todo' = <<>>
    /\ UNCHANGED <<db, now, epoch, history>>

\* The process dies and boots again in a new epoch.
Reboot ==
    /\ epoch + fails <= MaxFaults
    /\ epoch' = epoch + 1
    /\ todo' = <<>>
    /\ UNCHANGED <<db, now, fails, history>>

\* A minute passes.
Tick ==
    /\ Idle /\ now < MaxNow
    /\ now' = now + 1
    /\ UNCHANGED <<db, todo, epoch, fails, history>>

Init ==
    /\ db = [k \in Kinds |-> <<>>]
    /\ todo = <<>>
    /\ now = 0 /\ epoch = 1 /\ fails = 0
    /\ approvals = <<>> /\ enrolled = {} /\ accepted = <<>> /\ reused = {}

\* The calls other than approve leave the history as it is.
Call ==
    \/ \E i \in Invites : CreateInvitation(i)
    \/ \E reg \in Registrations : Propose(reg)
    \/ \E reg \in Registrations : Register(reg)
    \/ \E reg \in Registrations : RefuseRegistration(reg)
    \/ \E p \in Rows("pair"), code \in {"none", "wrong"} : GetPair(p, code)
    \/ \E p \in Rows("pair") : CancelPair(p)
    \/ \E k \in Keys : Challenge(k)
    \/ \E g \in Rows("grant"), c \in Rows("challenge"), r \in Requests : Renew(g, c, r)
    \/ \E p \in Rows("peer") : RevokePeer(p)
    \/ \E p \in Rows("peer") : Disconnect(p)
    \/ \E g \in Rows("grant"), n \in Nonces, i \in 0..now, by \in Keys :
            Authenticate([grant |-> g, nonce |-> n, issued |-> i], by)

Next ==
    \/ Call /\ UNCHANGED history
    \/ \E p \in Rows("pair"), k \in Keys, c \in DOMAIN Claims, scopes \in ApproveScopes :
            Approve(p, <<k, c>>, scopes)
    \/ CommitDoc \/ Deliver \/ CommitFails \/ Reboot \/ Tick

Spec == Init /\ [][Next]_vars

----------------------------------------------------------------------------
(* Properties.                                                             *)

\* An invitation enrols at most one peer whose tokens anybody holds, and that
\* peer is the one the operator last approved: his key, his proposal, and no
\* scope beyond the approval, the invitation, the policy or the signed
\* capabilities; whatever proposals, restarts and failed commits came between
\* (agent.register, pairs.ts assertRegisterable and consume).
EnrolledAsApproved ==
    \A e \in enrolled :
        LET peer == Doc("peer", e.peer)
            may  == {x \in Grants(approvals[e.pair].scopes) \intersect
                           Grants(Doc("pair", e.pair).scopes) \intersect Grants(Policy) :
                        /\ x[1] = "emit" /\ x[2] = "topics" => x[3] \in Claims[peer.claim].emit
                        /\ x[1] = "approvals" => Claims[peer.claim].request_approvals}
        IN  /\ <<peer.key, peer.claim>> = approvals[e.pair].proposal
            /\ Grants(peer.scopes) \subseteq may
            /\ peer.role = "agent" => \A s \in peer.scopes : s.permission # "manage"
            /\ \A f \in enrolled : f.pair = e.pair => f = e

\* A signed request is let in at most once, whatever happens to its token,
\* its nonce row and the daemon between (rpc/auth.ts, nonceSeen).
RequestOnce == \A q \in DOMAIN accepted : accepted[q] = 1

\* A peer whose revocation has begun is never let in again and gets no new
\* grant, even if the commits that revoke its grants failed or never came
\* (registry.revoke writes the peer row first).
RevokedOut ==
    [][/\ \A g \in Rows("grant")' \ Rows("grant") :
            Doc("peer", Doc("grant", g)'.peer).state # "REVOKED"
       /\ \A q \in DOMAIN accepted' :
            accepted'[q] # (IF q \in DOMAIN accepted THEN accepted[q] ELSE 0) =>
                Doc("peer", Doc("grant", q.grant).peer).state # "REVOKED"]_vars

\* A refresh token opens one new grant: a family never has two grants that
\* can be used, and none once the reuse of a spent token has been answered
\* (tokens.ts renew and revokeFamily).
FamilyContained ==
    \A g \in Rows("grant") :
        LET f == Doc("grant", g).family IN
        /\ Cardinality({h \in Family(f) : Doc("grant", h).state = "ACTIVE"}) <= 1
        /\ f \in reused => Doc("grant", g).state = "REVOKED"

=============================================================================
