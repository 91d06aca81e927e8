----------------------------- MODULE Disclosure -----------------------------
(***************************************************************************)
(* What the sync outbox may say of a source event: the disclosure profiles *)
(* of core/src/v2/sync/disclosure.ts, and the part of OutboxEngine.enqueue *)
(* (sync/outbox.ts) that builds the payload under the consent in force and *)
(* names the row after it.  SyncOutbox has what becomes of the row.        *)
(*                                                                         *)
(* A decoded value is the set of its leaves, wherever in the tree they     *)
(* lie: the key a leaf is found under, its text, and how many matches of   *)
(* one secret pattern the text holds.  A digest names an object, a policy  *)
(* hash and an item id are what they are taken of.  A payload that is not  *)
(* canonical or too large is refused like one that is denied, and is not   *)
(* told apart from it; a commit hook of the caller that throws leaves the  *)
(* payload bytes and no row.                                               *)
(***************************************************************************)
EXTENDS Naturals, FiniteSets

CONSTANTS
    Events,       \* source events: source, envelope, signed, objects, personal
    Consents,     \* consent records of the stream
    MaxConsents,  \* bound on the changes of the consent
    MaxRows       \* bound on the rows

\* A value as it is read: its leaves.
Decoded(value) == \A leaf \in value : DOMAIN leaf = {"key", "text", "secrets"} /\ leaf.secrets \in Nat

\* An event is told by its source.
ASSUME DisclosureAssumption ==
    /\ \A e, f \in Events : e.source = f.source => e = f
    /\ \A e \in Events : Decoded(e.envelope) /\ \A d \in DOMAIN e.objects : Decoded(e.objects[d])

VARIABLES
    consent,      \* the consent record in force
    revision,     \* how often it was changed
    outbox,       \* its rows, by item id
    answered      \* (history) the answer enqueue gave last, if any: event, item id

Withheld == "WITHHELD"
Redacted == "[REDACTED]"
Nobody == "nobody"

----------------------------------------------------------------------------
(* Redaction.  DefaultKeys stands for DEFAULT_REDACT_KEYS with              *)
(* DISCLOSURE_REDACT_KEYS.                                                  *)

DefaultKeys == {"token", "rawText"}
PolicyKeys(c) == DefaultKeys \union c.redactKeys

\* redactDeep: every key of the policy, except raw text that may be included.
RedactedKeys(c) == PolicyKeys(c) \ (IF c.includeRawText THEN {"rawText"} ELSE {})

\* scrubStrings, whatever the key: no pattern of SECRET_VALUE_PATTERNS is
\* global, so replace takes out its first match and leaves the others.
Scrubbed(leaf) == IF leaf.secrets > 0 THEN [leaf EXCEPT !.secrets = @ - 1] ELSE leaf

RedactedLeaf(c, leaf) ==
    IF leaf.key \in RedactedKeys(c) THEN [key |-> leaf.key, text |-> Redacted, secrets |-> 0] ELSE leaf

RedactValue(c, value) == {Scrubbed(RedactedLeaf(c, leaf)) : leaf \in value}

ContainsSensitive(c, value) == \E leaf \in value : leaf.key \in PolicyKeys(c) \/ leaf.secrets > 0

----------------------------------------------------------------------------
(* projectForStream.                                                       *)

\* Markers of objects that are not sent: none without consent to their
\* existence, nameless ones without consent to hashes.
Inventory(c, digests) ==
    IF c.existence THEN {IF c.hashes THEN d ELSE Withheld : d \in digests} ELSE {}

\* Personal receipts need both flags; a signed envelope cannot be edited.
IsDenied(c, event) ==
    \/ event.personal /\ ~(c.personalData /\ c.deletionContract)
    \/ c.profile = "full" /\ event.signed /\ ContainsSensitive(c, event.envelope)

Source(c, event) == IF c.ids THEN event.source ELSE Nobody

\* full: the objects on the list, a signed envelope as it is.
Full(c, event) ==
    LET sent == IF c.include_objects THEN DOMAIN event.objects \intersect c.allowedObjects ELSE {} IN
    [profile |-> "full", source |-> Source(c, event),
     body |-> IF event.signed THEN event.envelope ELSE RedactValue(c, event.envelope),
     objects |-> [d \in sent |-> event.objects[d]],
     withheld |-> Inventory(c, DOMAIN event.objects \ sent)]

\* masked: a redacted copy of every object, linked to the withheld original.
Masked(c, event) ==
    [profile |-> "masked", source |-> event.source,
     body |-> RedactValue(c, event.envelope),
     objects |-> [d \in DOMAIN event.objects |-> RedactValue(c, event.objects[d])],
     withheld |-> Inventory(c, DOMAIN event.objects)]

\* metadata: no object at all.
Metadata(c, event) ==
    [profile |-> "metadata", source |-> Source(c, event),
     body |-> RedactValue(c, event.envelope),
     objects |-> [d \in {} |-> {}],
     withheld |-> Inventory(c, DOMAIN event.objects)]

ProjectForStream(c, event) ==
    CASE c.profile = "full" -> Full(c, event)
      [] c.profile = "masked" -> Masked(c, event)
      [] OTHER -> Metadata(c, event)

----------------------------------------------------------------------------
(* enqueue.                                                                *)

\* Mutant: the policy hash does not cover the allowed objects.
RedactionPolicyButAllowed(c) ==
    [f \in {"profile", "include_objects", "hashes", "ids", "existence", "personalData", "deletionContract",
            "redactKeys", "includeRawText"} |-> c[f]]

\* redactionPolicyHash: every flag the projection depends on.
RedactionPolicy(c) ==
    [f \in {"profile", "include_objects", "hashes", "ids", "existence", "personalData", "deletionContract",
            "allowedObjects", "redactKeys", "includeRawText"} |-> c[f]]

\* The same event for another destination or under another policy is another
\* item.
OutboxItemId(c, event) ==
    [destination |-> c.destination, source |-> event.source, redaction |-> RedactionPolicy(c)]

Enqueueable(event) == consent.enabled /\ ~IsDenied(consent, event)

\* A row of that id is answered as it is; otherwise the caller's hook commits
\* the source event and the row is stored.
Enqueue(event) ==
    LET id == OutboxItemId(consent, event)
        item == [payload |-> ProjectForStream(consent, event), consent |-> consent, event |-> event] IN
    /\ Enqueueable(event)
    /\ id \in DOMAIN outbox \/ Cardinality(DOMAIN outbox) < MaxRows
    /\ outbox' = [k \in DOMAIN outbox \union {id} |-> IF k \in DOMAIN outbox THEN outbox[k] ELSE item]
    /\ answered' = {[event |-> event, id |-> id, revision |-> revision]}
    /\ UNCHANGED <<consent, revision>>

\* sync.configure, or a host that changes the flags.
Consent(c) ==
    /\ revision < MaxConsents
    /\ consent' = c /\ revision' = revision + 1
    /\ UNCHANGED <<outbox, answered>>

DisclosureInit ==
    /\ consent \in Consents
    /\ revision = 0
    /\ outbox = [id \in {} |-> Nobody]
    /\ answered = {}

DisclosureNext ==
    \/ \E event \in Events : Enqueue(event)
    \/ \E c \in Consents : Consent(c)

disclosureVars == <<consent, revision, outbox, answered>>
DisclosureSpec == DisclosureInit /\ [][DisclosureNext]_disclosureVars

----------------------------------------------------------------------------
(* Properties.                                                             *)

\* What a payload lets out of a value: nothing under a key of the policy (raw
\* text may be let through), and of what matches a pattern only what a text
\* holds beyond the first match.
Cleared(c, value, sent) ==
    \A leaf \in sent :
        /\ leaf.key \in (DefaultKeys \union c.redactKeys) \ (IF c.includeRawText THEN {"rawText"} ELSE {}) =>
              leaf.text = Redacted /\ leaf.secrets = 0
        /\ leaf.secrets > 0 =>
              \E read \in value : read.key = leaf.key /\ read.text = leaf.text /\ read.secrets = leaf.secrets + 1

\* The payload of a row was let out by its consent: a body is cleared, and so
\* is an object unless it is on the list of the full profile, and nothing is
\* personal without both flags (disclosure.ts: the denials, the three
\* profiles).  The code's own comment promises more, that each match of a
\* pattern is replaced: a second match in one text stays.  And an answer of
\* enqueue never stands for a payload of another policy: the row it names
\* holds what the consent in force then lets out, a repeated or an older
\* intent included (outboxItemId, redactionPolicyHash).
DisclosedAsConsented ==
    /\ \A id \in DOMAIN outbox :
          LET p == outbox[id].payload
              c == outbox[id].consent
              event == outbox[id].event IN
          /\ event.personal => c.personalData /\ c.deletionContract
          /\ Cleared(c, event.envelope, p.body)
          /\ \A d \in DOMAIN p.objects :
                \/ c.profile = "full" /\ c.include_objects /\ d \in c.allowedObjects
                \/ c.profile = "masked" /\ Cleared(c, event.objects[d], p.objects[d])
    /\ \A a \in answered : a.revision = revision => outbox[a.id].payload = ProjectForStream(consent, a.event)
=============================================================================
