------------------------------ MODULE Releases ------------------------------
(***************************************************************************)
(* A release before any of it runs: the manifest is parsed (core/src/v2/   *)
(* lifecycle/manifest.ts), the release is verified against the trust store *)
(* (verify.ts), and its archive is scanned, extracted (extract.ts) and     *)
(* compared with the manifest (engine.ts).                                 *)
(*                                                                         *)
(* A release is [manifest, statements, descriptor, provenance, archive]:   *)
(* statements are [signer, about], about being the digest of the bytes     *)
(* they are of; a digest is a name.  An archive is [digest, entries,       *)
(* binding], an entry [path, type, link, mode, digest, bytes] in the order *)
(* of the headers, and a path a sequence of [fold, case] names: two names  *)
(* of one fold differ in case only.                                        *)
(***************************************************************************)
EXTENDS SemVer, SequencesExt, FiniteSetsExt

CONSTANTS
    ReleaseKeys,    \* keys a release or its provenance may be signed with
    Builders,       \* trusted builders
    RevokedReleases,\* digests that are revoked
    Here,           \* the platform, [os, arch, node]
    ArchiveEntries, ArchiveBytes    \* archiveMaxFiles, archiveExpandedBytes

ASSUME ReleasesAssumption == {ArchiveEntries, ArchiveBytes} \subseteq Nat

ReleaseThreshold == 2
ProvenanceQuorum == 1

----------------------------------------------------------------------------
(* The manifest.                                                           *)

\* validateRange: bounded on both sides, of whole versions.
ValidRange(r) ==
    LET whole(p) == Len(p.parts) = 3
    IN  CASE r.kind = "hyphen" -> TRUE
          [] r.kind \in {"caret", "tilde"} -> whole(r)
          [] r.kind = "set" ->
                /\ r.set # {} /\ \A c \in r.set : whole(c)
                /\ \E c \in r.set : c.op \in {">", ">=", "="}
                /\ \E c \in r.set : c.op \in {"<", "<=", "="}

ValidDependency(d) == d.kind \in {"required", "optional", "evidence"} /\ ValidRange(d.range)

\* treePath: a path of a manifest stays inside the archive.
TreePath(p) == p \notin {"", ".", ".."}

\* The closed shape; a manifest of this model can only miss its platforms or
\* point outside its archive.
WellFormed(m) == m.os # {} /\ m.arch # {} /\ TreePath(m.entry)

\* parseProductManifest: the schema, the contract, then the rest.
ParseManifest(m) ==
    CASE m.schema # "gateway.product/1" -> "SCHEMA_UNSUPPORTED"
      [] ~WellFormed(m) -> "SCHEMA_INVALID"
      [] m.contract # "gateway-adapter/1" -> "UNSUPPORTED_COMPOSITION"
      [] \E i \in DOMAIN m.deps : ~ValidDependency(m.deps[i]) -> "SCHEMA_INVALID"
      [] OTHER -> ""

----------------------------------------------------------------------------
(* The release.                                                            *)

\* verifyStatementSet: one that is not trusted fails them all.
Signed(statements, about, quorum) ==
    LET signers == {s.signer : s \in statements}
    IN  /\ statements # {}
        /\ signers \subseteq ReleaseKeys
        /\ \A s \in statements : s.about = about
        /\ Cardinality(signers) >= quorum

\* parseProvenanceDescriptor and what the manifest says of provenance.
Provenance(r) ==
    LET m == r.manifest
        d == r.descriptor
    IN  /\ m.descriptor = d.digest
        /\ d.builder = m.builder /\ d.commit = m.commit /\ m.lockfile \in d.materials
        /\ d.builder \in Builders
        /\ m.archive \in d.outputs
        /\ Signed(r.provenance, d.digest, ProvenanceQuorum)
        /\ m.statements = r.provenance

\* verifyRelease, in the order of its checks; expires is when the index
\* expires, or -1.
VerifyRelease(r, expires, pinned, now) ==
    LET m == r.manifest
    IN  CASE expires >= 0 /\ ~pinned /\ now >= expires -> "TRUST_EXPIRED"
          [] ParseManifest(m) # "" -> ParseManifest(m)
          [] ~Signed(r.statements, m.digest, ReleaseThreshold) -> "SIGNATURE_INVALID"
          [] r.archive.digest # m.archive -> "ARTIFACT_MISMATCH"
          [] ~Provenance(r) -> "PROVENANCE_INVALID"
          [] {m.archive, m.digest} \intersect RevokedReleases # {} -> "POLICY_DENIED"
          [] \/ Here.os \notin m.os \/ Here.arch \notin m.arch
             \/ ~Satisfies(Here.node, m.node, TRUE) -> "UNSUPPORTED_COMPOSITION"
          [] OTHER -> ""

----------------------------------------------------------------------------
(* The archive.                                                            *)

Ancestors(path) == {SubSeq(path, 1, i) : i \in 1..(Len(path) - 1)}
UpTo(path) == Ancestors(path) \union {path}
Folded(path) == [i \in DOMAIN path |-> path[i].fold]

\* validatePath and the type, link and mode of one header.
Safe(e) ==
    /\ e.path # <<>>
    /\ \A i \in DOMAIN e.path : e.path[i].fold \notin {"", ".", ".."}
    /\ e.type \in {"file", "dir"} /\ ~e.link
    /\ e.mode = "plain"

\* scanArchive accepts: every header on its own, then against the ones
\* before it.
ScanArchive(es) ==
    /\ \A i \in DOMAIN es : Safe(es[i])
    /\ \A i, j \in DOMAIN es : i < j =>
        /\ es[i].path # es[j].path
        /\ \A p \in UpTo(es[i].path), q \in UpTo(es[j].path) : Folded(p) = Folded(q) => p = q
        /\ es[i].type = "file" => es[i].path \notin Ancestors(es[j].path)
    /\ FoldSeq(LAMBDA e, n : n + (IF e.type = "file" THEN e.bytes ELSE 0), 0, es) <= ArchiveBytes
    /\ Len(es) <= ArchiveEntries

\* The exclusive write of a file fails where an earlier entry has made a
\* directory of its name, which the scan lets pass.
Overlaid(es) ==
    \E i, j \in DOMAIN es : i < j /\ es[j].type = "file" /\ es[j].path \in Ancestors(es[i].path)

ExtractArchive(es) == ScanArchive(es) /\ ~Overlaid(es)

Plain(names) == [i \in DOMAIN names |-> [fold |-> names[i], case |-> "lower"]]

FileAt(es, names) == {e \in Range(es) : e.type = "file" /\ e.path = Plain(names)}

\* bindStagedPackage: the package's own binding names the entry and the
\* configuration schema of the manifest, and both files are there.
Bound(m, archive) ==
    LET es == archive.entries
        b  == archive.binding
    IN  /\ FileAt(es, <<"package", "gateway-adapter.json">>) # {}
        /\ b.contract = "gateway-adapter/1" /\ b.entry = m.entry
        /\ \E e \in FileAt(es, <<"package", b.config>>) : e.digest = m.config
        /\ FileAt(es, <<"package", m.entry>>) # {}

\* What stageGeneration makes of a verified release.
Stages(r) == ExtractArchive(r.archive.entries) /\ Bound(r.manifest, r.archive)

=============================================================================
