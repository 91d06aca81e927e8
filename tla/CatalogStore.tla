---------------------------- MODULE CatalogStore ----------------------------
(***************************************************************************)
(* The signed catalog: CatalogStore (core/src/v2/catalog/index.ts), its    *)
(* service (catalog/service.ts) and the documents and keys it is kept in   *)
(* (gateway-daemon/src/adapters/store-ports.ts).                           *)
(*                                                                         *)
(* A refresh reads the trust view, awaits the fetch, and then verifies,    *)
(* decides and writes in one go: the cache, the highest revision and the   *)
(* clock's high-water mark are three commits, and the daemon may die after *)
(* any of them.  An index is a record of what the checks look at; its      *)
(* digest names its bytes and binds says whether the statements are about  *)
(* them.                                                                   *)
(***************************************************************************)
EXTENDS Integers, Sequences, FiniteSets

CONSTANTS
    Indexes,    \* the index payloads the sources may answer with
    Offline,    \* the enrolled offline snapshot, or NoIndex
    Roots,      \* the catalog-root keys of the trust configuration
    Quorum,     \* distinct signers required
    Channel,    \* the trusted channel
    Strict, Allowlist, MaxAge,  \* the configured policy
    NoIndex,    \* no index
    Kept,       \* the indexes an earlier boot may have left, NoIndex for none
    Pinnable    \* what a pin may name, [slug, version, digest]

\* The indexes there are.
Known == (Indexes \union Kept \union {Offline}) \ {NoIndex}

ASSUME CatalogAssumption ==
    /\ Quorum \in Nat /\ MaxAge \in Nat \ {0}
    /\ Strict \in BOOLEAN
    /\ NoIndex \notin Indexes
    /\ \A x \in Known :
          /\ x.revision \in Nat
          /\ [revision |-> x.revision, digest |-> x.digest] # NoIndex
          /\ \A offline \in BOOLEAN : [index |-> x, offline |-> offline] # NoIndex

VARIABLES
    cache,      \* the verified index kept, [index, offline], or NoIndex
    highest,    \* the highest revision accepted and its digest, or NoIndex
    equivocated,\* digests kept as evidence of a second index of a revision
    timeHigh,   \* the clock's high-water mark
    pins,       \* the pins, [slug -> [version, digest]]
    pinsRev,    \* their revision
    now         \* the clock

catalog == <<cache, highest, equivocated, timeHigh>>
pinning == <<pins, pinsRev>>
catalogVars == <<catalog, pinning, now>>

\* catalogFresh; clocks are compared without the skew allowance.
Fresh(index) ==
    IF index.issued > now \/ now >= index.expires THEN "TRUST_EXPIRED"
    ELSE IF now >= index.issued + MaxAge THEN "STALE" ELSE "CURRENT"

Freshness(c) == IF c.offline THEN "OFFLINE_PINNED" ELSE Fresh(c.index)

\* The closed shape of an index and of its entries, sorted and without
\* duplicates: one bit of an index here.
Closed(x) == x.closed

\* verifyIndex: the shape, then every statement, then the quorum.
VerifyIndex(x) ==
    IF ~Closed(x) \/ x.expires <= x.issued THEN "SCHEMA_INVALID"
    ELSE IF ~(x.signers \subseteq Roots) \/ ~x.binds \/ Cardinality(x.signers) < Quorum
    THEN "SIGNATURE_INVALID" ELSE "OK"

\* Mutant: a lower revision is not refused.
RefreshCodeLower(x, channel, high) ==
    IF VerifyIndex(x) # "OK" THEN VerifyIndex(x)
    ELSE IF x.channel # channel THEN "POLICY_DENIED"
    ELSE IF high # NoIndex /\ x.revision = high.revision /\ x.digest # high.digest THEN "REVISION_CONFLICT"
    ELSE "OK"

\* What refresh says of a payload, given the channel read before the fetch.
RefreshCode(x, channel, high) ==
    IF VerifyIndex(x) # "OK" THEN VerifyIndex(x)
    ELSE IF x.channel # channel THEN "POLICY_DENIED"
    ELSE IF high # NoIndex /\ x.revision < high.revision THEN "CATALOG_ROLLBACK"
    ELSE IF high # NoIndex /\ x.revision = high.revision /\ x.digest # high.digest THEN "REVISION_CONFLICT"
    ELSE "OK"

\* saveHighestSeen, of an accepted index.
Raised(x) ==
    IF highest = NoIndex \/ x.revision > highest.revision
    THEN [revision |-> x.revision, digest |-> x.digest] ELSE highest

Later(a, b) == IF a > b THEN a ELSE b

\* What the ports write, each in one commit.
SaveCache(c) == cache' = c
RecordEquivocation(digest) == equivocated' = equivocated \union {digest}
SavePins(ps) == pins' = ps /\ pinsRev' = pinsRev + 1

\* The answer of a refresh: refused, or accepted with the first k of its
\* three commits made.
Accept(x, offline, k) ==
    /\ SaveCache(IF k >= 1 THEN [index |-> x, offline |-> offline] ELSE cache)
    /\ highest' = IF k >= 2 THEN Raised(x) ELSE highest
    /\ timeHigh' = IF k >= 3 THEN Later(timeHigh, now) ELSE timeHigh
    /\ UNCHANGED equivocated

Reject(x, code) ==
    /\ IF code = "REVISION_CONFLICT" THEN RecordEquivocation(x.digest) ELSE UNCHANGED equivocated
    /\ UNCHANGED <<cache, highest, timeHigh>>

Refreshed(x, offline) ==
    LET code == RefreshCode(x, Channel, highest)
    IN  IF code = "OK" THEN Accept(x, offline, 3) ELSE Reject(x, code)

\* The fetch of a refresh answers; an offline refresh does not wait for one.
Refresh == \E x \in Indexes : Refreshed(x, FALSE) /\ UNCHANGED <<pinning, now>>

OfflineRefresh == Offline # NoIndex /\ Refreshed(Offline, TRUE) /\ UNCHANGED <<pinning, now>>

\* The daemon dies after the first commits of a refresh.
Cut(x, offline) ==
    /\ RefreshCode(x, Channel, highest) = "OK"
    /\ \E k \in 1..2 : Accept(x, offline, k)
    /\ UNCHANGED <<pinning, now>>

CutRefresh == \E x \in Indexes : Cut(x, FALSE)
CutOffline == Offline # NoIndex /\ Cut(Offline, TRUE)

----------------------------------------------------------------------------
(* Pins: one per slug, replaced under the revision.                        *)

Pin(s, v, d, expected) ==
    /\ expected = pinsRev
    /\ cache # NoIndex
    /\ SavePins([t \in DOMAIN pins \union {s} |-> IF t = s THEN [version |-> v, digest |-> d] ELSE pins[t]])

Unpin(s, expected) ==
    /\ expected = pinsRev
    /\ s \in DOMAIN pins
    /\ SavePins([t \in DOMAIN pins \ {s} |-> pins[t]])

\* A release is pinned, or its slug unpinned.
PinsChange(releases) ==
    /\ \E r \in releases : Pin(r.slug, r.version, r.digest, pinsRev) \/ Unpin(r.slug, pinsRev)
    /\ UNCHANGED <<catalog, now>>

----------------------------------------------------------------------------
(* authorizeInstall: what the catalog says of an install.  Nothing in the  *)
(* daemon asks it.                                                         *)

Revoked(c, d) == d \in c.index.revocations

Pinned(s, v, d) == s \in DOMAIN pins /\ pins[s] = [version |-> v, digest |-> d]

\* Mutant: freshness comes before the pin.
AuthorizeInstallFresh(s, v, d) ==
    IF cache = NoIndex THEN "TRUST_EXPIRED"
    ELSE IF \/ Revoked(cache, d)
            \/ Strict /\ s \notin Allowlist
            \/ s \in DOMAIN pins /\ ~Pinned(s, v, d)
            \/ Strict /\ ~Pinned(s, v, d)
    THEN "POLICY_DENIED"
    ELSE IF cache.offline /\ ~Pinned(s, v, d) THEN "POLICY_DENIED"
    ELSE IF ~cache.offline /\ Fresh(cache.index) # "CURRENT" THEN "TRUST_EXPIRED" ELSE "OK"

AuthorizeInstall(s, v, d) ==
    IF cache = NoIndex THEN "TRUST_EXPIRED"
    ELSE IF \/ Revoked(cache, d)
            \/ Strict /\ s \notin Allowlist
            \/ s \in DOMAIN pins /\ ~Pinned(s, v, d)
            \/ Strict /\ ~Pinned(s, v, d)
    THEN "POLICY_DENIED"
    ELSE IF Pinned(s, v, d) THEN "OK"
    ELSE IF cache.offline THEN "POLICY_DENIED"
    ELSE IF Fresh(cache.index) # "CURRENT" THEN "TRUST_EXPIRED" ELSE "OK"

----------------------------------------------------------------------------
(* The catalog of its own.  In ProductPlans the same steps are taken by    *)
(* callers, beside plans and operations that read it.                      *)

\* A root as an earlier boot has left it, with index x.
CatalogBegins(x) ==
    /\ pins = <<>> /\ pinsRev = 1
    /\ now = 0
    /\ IF x = NoIndex THEN cache = NoIndex /\ highest = NoIndex
       ELSE /\ cache = [index |-> x, offline |-> FALSE]
            /\ highest = [revision |-> x.revision, digest |-> x.digest]
    /\ equivocated = {} /\ timeHigh = 0

ClockAdvances == now' = now + 1 /\ UNCHANGED <<catalog, pinning>>

CatalogInit == \E x \in Kept : CatalogBegins(x)

CatalogNext ==
    \/ Refresh \/ OfflineRefresh \/ CutRefresh \/ CutOffline
    \/ PinsChange(Pinnable) \/ ClockAdvances

CatalogSpec == CatalogInit /\ [][CatalogNext]_catalogVars

----------------------------------------------------------------------------
(* Properties.                                                             *)

\* No rollback, whatever order the fetches of concurrent refreshes answer
\* in: the highest revision never falls and keeps its digest, and the cache
\* falls back or changes its digest within a revision only where a crash
\* has kept the highest revision from following the cache.  About refresh,
\* which decides after its await, and its three commits.
NoRollback ==
    [][highest # NoIndex =>
        /\ highest' # NoIndex /\ (highest' = highest \/ highest'.revision > highest.revision)
        /\ \/ highest.revision < cache.index.revision
           \/ cache'.index.revision > cache.index.revision
           \/ cache'.index.digest = cache.index.digest]_catalogVars

\* What the catalog authorizes by an exact pin stays authorized through
\* refreshes, an expiry, an offline snapshot and a crash, until the pin is
\* changed or the digest revoked.  About authorizeInstall over the cache.
PinSurvives ==
    [][\A r \in Pinnable :
        /\ Pinned(r.slug, r.version, r.digest)
        /\ AuthorizeInstall(r.slug, r.version, r.digest) = "OK"
        /\ Pinned(r.slug, r.version, r.digest)'
        => AuthorizeInstall(r.slug, r.version, r.digest)' = "OK" \/ Revoked(cache, r.digest)']_catalogVars

=============================================================================
