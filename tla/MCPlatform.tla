----------------------------- MODULE MCPlatform ------------------------------
(* One family of services per behaviour; small documents, one product slug,  *)
(* one run, two owners, three request ids.                                   *)
EXTENDS Platform

MCMaxCommits == [f \in Families |-> IF f \in {"cloud", "ui"} THEN 6 ELSE 4]

(* Three request ids; nothing stops a client from choosing one again.        *)
MCRequests == {<<1, "ann">>, <<2, "bob">>, <<3, "ann">>}

MCProtectedLeaves == {"base_url"}

Tree(leaves) ==
    LET paths == UNION {{SubSeq(p, 1, i) : i \in 1..Len(p)} : p \in DOMAIN leaves} IN
    [p \in paths |-> IF p \in DOMAIN leaves THEN leaves[p] ELSE Obj]

Instance(slug, manifest) ==
    (<<"products", "instances", slug, "manifest">> :> manifest)
    @@ (<<"products", "instances", slug, "enabled">> :> "true")

File ==
    (<<"bus", "log_path">> :> "p0") @@ (<<"gateway", "ui">> :> "u0") @@ (<<"gateway", "autostart">> :> "never")
    @@ (<<"adapters", "axion", "base_url">> :> "b0") @@ (<<"adapters", "axion", "mode">> :> "poll")
    @@ (<<"ingest", "port">> :> "9847") @@ (<<"storage", "root">> :> "r0")
    @@ (<<"agents", "allow_operator">> :> "false")
    @@ (<<"catalog", "strict">> :> "true") @@ (<<"catalog", "source">> :> "o0")
    @@ (<<"catalog", "pins">> :> "p0") @@ (<<"catalog", "allowlist">> :> "l0")
    @@ Instance("s1", "m0")

Without(leaves, gone) == [p \in DOMAIN leaves \ gone |-> leaves[p]]

MCFileConfig == Tree(File)
(* Edits a caller may review: open keys, then protected ones.                *)
MCDocuments ==
    {Tree(File),
     Tree((<<"bus", "log_path">> :> "p1") @@ File),
     Tree((<<"gateway", "autostart">> :> "on-demand") @@ (<<"adapters", "axion", "mode">> :> "hook") @@ File),
     Tree((<<"gateway", "ui">> :> "u1") @@ File),
     Tree((<<"adapters", "axion", "base_url">> :> "b1") @@ File),
     Tree((<<"ingest", "port">> :> "9848") @@ File),
     Tree((<<"storage", "root">> :> "r1") @@ File),
     Tree((<<"catalog", "strict">> :> "false") @@ File),
     Tree((<<"catalog", "source">> :> "o1") @@ File),
     Tree((<<"catalog", "pins">> :> "p1") @@ File),
     Tree((<<"catalog", "allowlist">> :> "l1") @@ File),
     Tree((<<"agents", "allow_operator">> :> "true") @@ File),
     Tree((<<"products", "instances", "s1", "manifest">> :> "m1") @@ File),
     Tree(Instance("s2", "m0") @@ File),
     Tree((<<"products", "instances">> :> Obj) @@
          Without(File, {<<"products", "instances", "s1", "manifest">>,
                         <<"products", "instances", "s1", "enabled">>}))}
=============================================================================
