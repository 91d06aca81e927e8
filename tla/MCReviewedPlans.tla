--------------------------- MODULE MCReviewedPlans --------------------------
(* The things an operator reviews or consents to before they are done, each   *)
(* in a small instance: a product plan (ProductPlans), the migration of the   *)
(* configuration file (ConfigFile), what a sync stream discloses (Disclosure).*)
(* They share no state, so a behaviour runs one of them, chosen at its start; *)
(* the others stay as they began.                                             *)
EXTENDS ProductPlans, ConfigFile, Disclosure

CONSTANTS c1, c2

VARIABLE subject

\* A behaviour of one subject begins in one state of the others.
ReviewInit ==
    /\ subject \in {"products", "config", "sync"}
    /\ \/ subject = "products" /\ Init
       \/ subject # "products" /\ world = Worlds[1] /\ Init
    /\ ConfigInit
    /\ subject # "config" => Data(Live).doc = CHOOSE c \in V1Docs : TRUE
    /\ DisclosureInit
    /\ subject # "sync" => consent = CHOOSE c \in Consents : TRUE

ReviewNext ==
    \/ subject = "products" /\ Next /\ UNCHANGED <<subject, configVars, disclosureVars>>
    \/ subject = "config" /\ ConfigNext /\ UNCHANGED <<subject, vars, disclosureVars>>
    \/ subject = "sync" /\ DisclosureNext /\ UNCHANGED <<subject, vars, configVars>>

ReviewSpec == ReviewInit /\ [][ReviewNext]_<<subject, vars, configVars, disclosureVars>>

\* Events of a stream: raw text and a token, an object with one secret or two
\* in a text and under a key the consent may add; signed or personal or
\* neither.
Leaf(k, n) == [key |-> k, text |-> "plain", secrets |-> n]
Event(s, envelope, signed, personal) ==
    [source |-> s, envelope |-> envelope, signed |-> signed, personal |-> personal,
     objects |-> [d \in {"o1", "o2"} |->
        IF d = "o1" THEN {Leaf("name", 0), Leaf("name", 2)} ELSE {Leaf("badge", 0)}]]
SyncEvents ==
    {Event("n1", {Leaf("name", 0), Leaf("rawText", 0)}, FALSE, FALSE),
     Event("n2", {Leaf("name", 0), Leaf("badge", 0)}, TRUE, FALSE),
     Event("n3", {Leaf("token", 1), Leaf("name", 1)}, FALSE, TRUE)}

\* The flags that only matter together are set together.
SyncConsents ==
    {[enabled |-> TRUE, destination |-> "cloud", profile |-> profile, include_objects |-> TRUE,
      hashes |-> shown, ids |-> shown, existence |-> shown, personalData |-> personal,
      deletionContract |-> TRUE, allowedObjects |-> allowed, includeRawText |-> ~shown,
      redactKeys |-> IF personal THEN {"badge"} ELSE {}] :
        profile \in {"full", "masked", "metadata"}, shown \in BOOLEAN,
        personal \in BOOLEAN, allowed \in {{}, {"o1"}}}
    \union
    {[enabled |-> on, destination |-> "other", profile |-> "metadata", include_objects |-> FALSE,
      hashes |-> FALSE, ids |-> FALSE, existence |-> FALSE, personalData |-> TRUE,
      deletionContract |-> FALSE, allowedObjects |-> {}, redactKeys |-> {}, includeRawText |-> FALSE] : on \in BOOLEAN}

Symmetric == Permutations(Callers)

V(a, b, c) == Version(<<a, b, c>>, <<>>)

Need(s, range) == [slug |-> s, kind |-> "required", range |-> range, edge |-> "none"]

By(signers, about) == {[signer |-> s, about |-> about] : s \in signers}

Manifest(s, v, deps, d) ==
    [slug |-> s, version |-> v, deps |-> deps, digest |-> d, archive |-> d, builder |-> "builder", commit |-> "c",
     descriptor |-> "p", statements |-> By({"r3"}, "p"), lockfile |-> "lock", schema |-> "gateway.product/1",
     contract |-> "gateway-adapter/1", os |-> {"linux"}, arch |-> {"x64"}, node |-> Caret(<<20>>),
     entry |-> "main.js", config |-> "schema"]

File(names, d) ==
    [path |-> Plain(names), type |-> "file", link |-> FALSE, mode |-> "plain", digest |-> d, bytes |-> 1]

Packed == <<[File(<<"package">>, "") EXCEPT !.type = "dir"], File(<<"package", "gateway-adapter.json">>, "b"),
            File(<<"package", "main.js">>, "m"), File(<<"package", "schema.json">>, "schema")>>

Release(m) ==
    [manifest |-> m, statements |-> By({"r1", "r2"}, m.digest), provenance |-> By({"r3"}, "p"),
     descriptor |-> [digest |-> "p", builder |-> "builder", commit |-> "c", materials |-> {"lock"},
                     outputs |-> {m.archive}],
     archive |-> [digest |-> m.archive, entries |-> Packed,
                  binding |-> [contract |-> "gateway-adapter/1", entry |-> "main.js", config |-> "schema.json"]]]

Lib1 == Manifest("lib", V(1, 0, 0), <<>>, "lib1")
Lib12 == Manifest("lib", V(1, 2, 0), <<>>, "lib12")
Lib2 == Manifest("lib", V(2, 0, 0), <<>>, "lib2")
App1 == Manifest("app", V(1, 0, 0), <<Need("lib", Caret(<<1, 0, 0>>))>>, "app1")
App2 == Manifest("app", V(1, 1, 0), <<Need("lib", Caret(<<1, 0, 0>>))>>, "app2")
App1Again == [App1 EXCEPT !.digest = "app1b", !.archive = "app1b"]

Ask(kind, s, v) ==
    [kind |-> kind, slug |-> s, version |-> v, cascade |-> FALSE, keepData |-> TRUE, pinned |-> FALSE]

Releases(ms) == {Release(m) : m \in ms}

Row(m, state, active) ==
    [slug |-> m.slug, version |-> m.version, state |-> state, active |-> active, deps |-> m.deps, digest |-> m.digest]

Entry(m) == [slug |-> m.slug, version |-> m.version]

Everything == {Entry(Lib1), Entry(App1), Entry(App2)} \union
    {[slug |-> s, version |-> V(1, 0, 0)] : s \in {"a", "b", "c"}}

Index(rev, d) ==
    [revision |-> rev, digest |-> d, channel |-> "stable", issued |-> 0, expires |-> rev, entries |-> Everything,
     revocations |-> {}, signers |-> {"k1", "k2"}, binds |-> TRUE, closed |-> TRUE]

First == Index(1, "x1")
Second == Index(2, "x2")
Payloads == {First, Second, Index(2, "x2b"), [Index(3, "x3") EXCEPT !.signers = {"k1", "x"}]}
Platform == [os |-> "linux", arch |-> "x64", node |-> V(20, 1, 0)]

NoPayload == [revision |-> 0]
Snapshot == First

\* Products that are installed on a fresh root, one after a republication.
Installing ==
    [mirror |-> Releases({Lib1, App1}),
     republished |-> {Release(App1Again), [Release(Lib1) EXCEPT !.statements = By({"r1", "x"}, "lib1")]},
     asks |-> {Ask("install", "lib", Lib1.version), Ask("install", "app", App1.version)},
     calls |-> 3, pins |-> 0, index |-> First, rows |-> <<>>]

\* The second of them when the first is there.
Completing ==
    [Installing EXCEPT !.republished = {Release(App1Again)}, !.asks = {Ask("install", "app", App1.version)},
                       !.rows = <<Row(Lib1, "READY", TRUE)>>]

\* Products that are replaced and removed.
Moving ==
    [mirror |-> Releases({Lib1, App1, App2}), republished |-> {},
     asks |-> {Ask("update", "app", App2.version), Ask("rollback", "app", App1.version),
               Ask("uninstall", "lib", None), [Ask("uninstall", "lib", None) EXCEPT !.cascade = TRUE],
               Ask("uninstall", "app", None)},
     calls |-> 3, pins |-> 1, index |-> First,
     rows |-> <<Row(Lib1, "READY", TRUE), Row(App1, "STOPPED_RETAINED", FALSE), Row(App2, "READY", TRUE)>>]

AnyOf(s) == Need(s, [kind |-> "set", set |-> {[op |-> ">=", parts |-> <<1, 0, 0>>, pre |-> <<>>]}])

\* Releases that are refused at one check or another.
Refused(r) ==
    [mirror |-> {r}, republished |-> {}, asks |-> {Ask("install", "lib", Lib1.version)}, calls |-> 2, pins |-> 0,
     index |-> First, rows |-> <<>>]

Good == Release(Lib1)

Upper(names) == [i \in DOMAIN names |-> [fold |-> names[i], case |-> IF i = 1 THEN "upper" ELSE "lower"]]

Extra(e) == [Good EXCEPT !.archive.entries = @ \o <<e>>]

RefusedReleases ==
    <<Release([Lib1 EXCEPT !.deps = <<AnyOf("app")>>]), Release([Lib1 EXCEPT !.schema = "gateway.product/2"]),
      Release([Lib1 EXCEPT !.contract = "other"]),
      Release([Lib1 EXCEPT !.entry = ".."]),  [Good EXCEPT !.statements = By({"r1"}, "lib1")],
      [Good EXCEPT !.statements = By({"r1", "r2"}, "other")], [Good EXCEPT !.archive.digest = "other"],
      [Good EXCEPT !.descriptor.commit = "other"], [Good EXCEPT !.provenance = By({"r1"}, "p")],
      Release([Lib1 EXCEPT !.os = {"darwin"}]), Release([Lib1 EXCEPT !.node = Caret(<<18>>)]),
      Extra(File(<<"..", "x">>, "x")), Extra([File(<<"x">>, "x") EXCEPT !.link = TRUE]),
      Extra([File(<<"x">>, "x") EXCEPT !.path = Upper(<<"package", "x">>)]), Extra(File(<<"package", "main.js", "x">>, "x")),
      [Good EXCEPT !.archive.entries = <<File(<<"a", "b">>, "x"), File(<<"a">>, "x")>> \o @],
      [Good EXCEPT !.archive.entries[4].digest = "other"], [Good EXCEPT !.archive.binding.entry = "x"]>>

\* A catalog that is refreshed and pinned.
Refreshing ==
    [mirror |-> Releases({Lib1}), republished |-> {}, asks |-> {}, calls |-> 3, pins |-> 2, index |-> NoPayload, rows |-> <<>>]

\* Graphs that are only planned: one plan.  The target is a.
Planned(ms) ==
    [mirror |-> Releases(ms), republished |-> {}, asks |-> {Ask("install", "a", V(1, 0, 0))}, calls |-> 1,
     pins |-> 0, index |-> First, rows |-> <<>>]

Link(s, kind) == [Need(s, Caret(<<1, 0, 0>>)) EXCEPT !.kind = kind]

\* Graphs of three products, with none, one or two dependencies each.
Deps(a, b) ==
    <<<<>>, <<Link(a, "required")>>, <<Link(a, "optional")>>, <<Link(a, "evidence")>>,
      <<Link(a, "optional"), Link(b, "required")>>, <<Link(a, "required"), Link(b, "required")>>>>

Graph(i) ==
    Planned({Manifest("a", V(1, 0, 0), Deps("b", "c")[(i \div 36) + 2], "a"),
             Manifest("b", V(1, 0, 0), Deps("c", "a")[((i \div 6) % 6) + 1], "b"),
             Manifest("c", V(1, 0, 0), Deps("b", "a")[(i % 6) + 1], "c")})

\* A choice of versions, a range, an edge that is blocked.
Between ==
    [kind |-> "set", set |-> {[op |-> ">", parts |-> <<1, 0, 0>>, pre |-> <<>>],
                              [op |-> "<", parts |-> <<2, 0, 0>>, pre |-> <<>>]}]

Chosen(range) ==
    [Planned({Manifest("a", V(1, 0, 0), <<Need("lib", range)>>, "a"), Lib1, Lib12, Lib2})
        EXCEPT !.index.entries = @ \union {Entry(Lib12), Entry(Lib2)}, !.index.digest = "x1c"]

Edged(e) ==
    Planned({Manifest("a", V(1, 0, 0), <<[Need("lib", Caret(<<1, 0, 0>>)) EXCEPT !.edge = e]>>, "a"), Lib1})

AllWorlds ==
    <<Installing, Completing, Moving, Refreshing, Chosen(Caret(<<1, 0, 0>>)), Chosen(Exactly(<<1, 2, 0>>)), Chosen(Between),
      Chosen([kind |-> "tilde", parts |-> <<1, 2, 0>>, pre |-> <<>>]),
      Chosen([kind |-> "hyphen", low |-> V(1, 0, 0), high |-> V(2, 0, 0)]), Edged("E01"), Edged("E17")>>
    \o [i \in DOMAIN RefusedReleases |-> Refused(RefusedReleases[i])] \o [i \in 1..180 |-> Graph(i - 1)]

AllKept == {w.index : w \in Range(AllWorlds)}

\* Pins are set in two worlds.
AllPinnable ==
    {[slug |-> m.slug, version |-> m.version, digest |-> m.archive] : m \in {Lib1, App1, App2}}

=============================================================================
