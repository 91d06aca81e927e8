-------------------------- MODULE LifecycleProofs ---------------------------
(***************************************************************************)
(* Three facts about the product lifecycle, for any versions, any number   *)
(* of generations, operations, adapters and daemon processes, and a daemon *)
(* that may die after any write: the rows, operations, processes and       *)
(* clients refer to each other as TypeOK says, the registry never has two  *)
(* active generations, and a cancelled operation starts nothing.           *)
(*                                                                         *)
(* Operations work on copies of the rows and write into them without a     *)
(* look at their state.  That one generation is active rests on casActive  *)
(* alone: it is the only writer of the pointer, and every other write      *)
(* keeps the pointers of the rows.  So the invariant is about the path of  *)
(* writes of a step, each of which may be the last of the process:         *)
(* Path(path, n) says that every registry along it has one active          *)
(* generation at most.  The path of a recovery is a recursive function; a  *)
(* least generation whose recovery breaks the invariant would break it in  *)
(* its own writes.                                                         *)
(***************************************************************************)
EXTENDS Lifecycle, WellFoundedInduction, SequenceTheorems, TLAPS

AllStates ==
    {"ABSENT", "PLANNED", "FETCHING", "VERIFIED", "STAGED", "STARTING", "HEALTHCHECKING", "READY",
     "DEGRADED", "CRASHED", "DRAINING", "STOPPED_RETAINED", "QUARANTINED", "UNINSTALLING", "REMOVED",
     "REJECTED", "CANCELLED"}

RowType ==
    [version : Versions, state : AllStates, active : BOOLEAN, indexed : BOOLEAN,
     noted : Nat, projected : BOOLEAN, starts : 0..MaxStarts, pid : BOOLEAN]

\* The registries of n rows with at most one active generation.
Registries(n) ==
    {r \in Seq(RowType) :
        /\ Len(r) = n
        /\ \A g, h \in 1..n : r[g].active /\ r[h].active => g = h}

\* The successive values of the rows in a step that leaves n of them; the first
\* is what they were.
Path(path, n) ==
    /\ path \in Seq(Seq(RowType)) /\ Len(path) > 0
    /\ path[Len(path)] \in Registries(n)
    /\ \A i \in 2..Len(path) : path[i] \in Registries(n)

PCs == {"fetch", "start", "health", "abort", "drain", "remove", "done"}

OpType(n, m) ==
    {x \in [version : Versions, pc : PCs, gen : 1..n, st : AllStates, active : BOOLEAN, indexed : BOOLEAN,
            starts : 0..MaxStarts, prev : 0..n, pst : AllStates \union {"none"}, proc : 0..m,
            cancel : BOOLEAN] :
        x.prev = 0 => x.pst = "none"}

ProcType(n, m) ==
    [gen : 1..n, obj : 1..m, st : {"alive", "term", "gone"}, chain : {"none", "sleep", "start", "health"}, new : Nat]

-----------------------------------------------------------------------------
(* The states, and numbers. *)

LEMMA StateNames ==
    /\ "PLANNED" \in AllStates /\ "FETCHING" \in AllStates /\ "VERIFIED" \in AllStates
    /\ "STAGED" \in AllStates /\ "STARTING" \in AllStates /\ "HEALTHCHECKING" \in AllStates
    /\ "READY" \in AllStates /\ "DEGRADED" \in AllStates /\ "CRASHED" \in AllStates
    /\ "DRAINING" \in AllStates /\ "STOPPED_RETAINED" \in AllStates
    /\ "QUARANTINED" \in AllStates /\ "UNINSTALLING" \in AllStates /\ "REMOVED" \in AllStates
    /\ "REJECTED" \in AllStates /\ "CANCELLED" \in AllStates /\ "ABSENT" \in AllStates
BY DEF AllStates

LEMMA StatesAre == States = AllStates
<1>1. States \subseteq AllStates
  BY DEF States, AllStates, TRANSITIONS, CANCELABLE, LIVE
<1>2. AllStates \subseteq States
  <2> DEFINE From(s, t) == <<s, t>> \in TRANSITIONS
  <2>1. \A s, t : From(s, t) => s \in States /\ t \in States
    BY DEF States
  <2>2. /\ From("ABSENT", "PLANNED") /\ From("PLANNED", "FETCHING") /\ From("FETCHING", "VERIFIED")
        /\ From("VERIFIED", "STAGED") /\ From("STAGED", "STARTING") /\ From("STARTING", "HEALTHCHECKING")
        /\ From("HEALTHCHECKING", "READY") /\ From("READY", "DEGRADED")
        /\ From("CRASHED", "STARTING") /\ From("DRAINING", "STOPPED_RETAINED")
        /\ From("QUARANTINED", "STOPPED_RETAINED") /\ From("UNINSTALLING", "REMOVED")
    BY DEF TRANSITIONS
  <2>3. From("PLANNED", "REJECTED") /\ From("PLANNED", "CANCELLED")
    BY DEF TRANSITIONS, CANCELABLE
  <2> HIDE DEF From
  <2> QED BY <2>1, <2>2, <2>3 DEF AllStates
<1> QED BY <1>1, <1>2

\* A set of numbers that is not empty has a least one.
LEMMA LeastExists ==
    ASSUME NEW T \in SUBSET Nat, T # {}
    PROVE  \E n \in T : \A m \in T : n <= m
<1>1. IsWellFoundedOn(OpToRel(<, Nat), Nat)
  BY NatLessThanWellFounded
<1>2. PICK n \in T : \A m \in T : <<m, n>> \notin OpToRel(<, Nat)
  BY <1>1, WFMin, Zenon
<1>3. \A m \in T : ~(m < n)
  BY <1>2 DEF OpToRel
<1> QED BY <1>3

-----------------------------------------------------------------------------
(* Lookups and single writes of the registry. *)

\* Active gives the active generation, or 0 when there is none.
LEMMA ActiveIn ==
    ASSUME NEW n \in Nat, NEW r \in Registries(n)
    PROVE  /\ Active(r) \in 0..n
           /\ Active(r) = 0 => \A g \in 1..n : ~r[g].active
           /\ Active(r) # 0 => r[Active(r)].active
<1>1. DOMAIN r = 1..n
  BY DEF Registries
<1>2. CASE ~ \E g \in 1..n : r[g].active
  BY <1>1, <1>2 DEF Active, Find
<1>3. CASE \E g \in 1..n : r[g].active
  <2>1. PICK g \in 1..n : r[g].active /\ \A h \in 1..(g - 1) : ~r[h].active
    BY <1>3 DEF Registries
  <2>2. \E k \in 1..n : r[k].active /\ \A h \in 1..(k - 1) : ~r[h].active
    BY <2>1
  <2>3. Active(r) = CHOOSE k \in 1..n : r[k].active /\ \A h \in 1..(k - 1) : ~r[h].active
    BY <1>1, <1>3 DEF Active, Find
  <2> QED BY <2>2, <2>3
<1> QED BY <1>2, <1>3

\* Find looks for the first of the rows it tests.
LEMMA FirstOf ==
    ASSUME NEW n \in Nat, NEW T \in SUBSET (1..n), T # {}
    PROVE  \E g \in T : \A h \in 1..(g - 1) : h \notin T
<1>1. T \in SUBSET Nat
  OBVIOUS
<1>2. PICK g \in T : \A h \in T : g <= h
  BY <1>1, LeastExists
<1> QED BY <1>2

\* Retained and the lookups of an uninstall give a row or 0.
LEMMA RetainedIn ==
    ASSUME NEW n \in Nat, NEW r \in Registries(n), NEW v
    PROVE  Retained(r, v) \in 0..n
<1> DEFINE Test(g) == r[g].version = v /\ r[g].state = "STOPPED_RETAINED"
<1>1. DOMAIN r = 1..n
  BY DEF Registries
<1>2. CASE ~ \E g \in 1..n : Test(g)
  BY <1>1, <1>2 DEF Retained, Find
<1>3. CASE \E g \in 1..n : Test(g)
  <2>1. \E g \in 1..n : Test(g) /\ \A h \in 1..(g - 1) : ~Test(h)
    <3> DEFINE T == {k \in 1..n : Test(k)}
    <3>1. T \in SUBSET (1..n) /\ T # {}
      BY <1>3
    <3>2. PICK g \in T : \A h \in 1..(g - 1) : h \notin T
      <4> HIDE DEF T
      <4> QED BY <3>1, FirstOf
    <3> QED BY <3>2
  <2>2. Retained(r, v) = CHOOSE k \in 1..n : Test(k) /\ \A h \in 1..(k - 1) : ~Test(h)
    BY <1>1, <1>3 DEF Retained, Find
  <2> QED BY <2>1, <2>2
<1> QED BY <1>2, <1>3

LEMMA StoppedIn ==
    ASSUME NEW n \in Nat, NEW r \in Registries(n)
    PROVE  LET g == Find(r, LAMBDA x : x.state = "STOPPED_RETAINED")
           IN g \in 0..n /\ (g # 0 => r[g].state = "STOPPED_RETAINED")
<1> DEFINE Test(g) == r[g].state = "STOPPED_RETAINED"
           f == Find(r, LAMBDA x : x.state = "STOPPED_RETAINED")
<1>1. DOMAIN r = 1..n
  BY DEF Registries
<1>2. CASE ~ \E g \in 1..n : Test(g)
  BY <1>1, <1>2 DEF Find
<1>3. CASE \E g \in 1..n : Test(g)
  <2>1. \E g \in 1..n : Test(g) /\ \A h \in 1..(g - 1) : ~Test(h)
    <3> DEFINE T == {k \in 1..n : Test(k)}
    <3>1. T \in SUBSET (1..n) /\ T # {}
      BY <1>3
    <3>2. PICK g \in T : \A h \in 1..(g - 1) : h \notin T
      <4> HIDE DEF T
      <4> QED BY <3>1, FirstOf
    <3> QED BY <3>2
  <2>2. f = CHOOSE k \in 1..n : Test(k) /\ \A h \in 1..(k - 1) : ~Test(h)
    BY <1>1, <1>3 DEF Find
  <2>3. f \in 1..n /\ Test(f)
    <3> HIDE DEF f, Test
    <3> QED BY <2>1, <2>2
  <2> QED BY <2>3
<1> QED BY <1>2, <1>3

LEMMA PresentIn ==
    ASSUME NEW n \in Nat, NEW r \in Registries(n), \E g \in 1..n : r[g].state # "REMOVED"
    PROVE  Find(r, LAMBDA x : x.state # "REMOVED") \in 1..n
<1> DEFINE Test(g) == r[g].state # "REMOVED"
           f == Find(r, LAMBDA x : x.state # "REMOVED")
<1>1. DOMAIN r = 1..n
  BY DEF Registries
<1>2. \E g \in 1..n : Test(g) /\ \A h \in 1..(g - 1) : ~Test(h)
  <2> DEFINE T == {k \in 1..n : Test(k)}
  <2>1. T \in SUBSET (1..n) /\ T # {}
    OBVIOUS
  <2>2. PICK g \in T : \A h \in 1..(g - 1) : h \notin T
    <3> HIDE DEF T
    <3> QED BY <2>1, FirstOf
  <2> QED BY <2>2
<1>3. f = CHOOSE k \in 1..n : Test(k) /\ \A h \in 1..(k - 1) : ~Test(h)
  BY <1>1 DEF Find
<1>4. f \in 1..n
  <2> HIDE DEF f, Test
  <2> QED BY <1>2, <1>3
<1> QED BY <1>4

\* A write of a field other than the pointer keeps the registry as it should be,
\* and so does one to a row that is not there.
LEMMA RowSet ==
    ASSUME NEW n \in Nat, NEW r \in Registries(n), NEW g
    PROVE  /\ \A s \in AllStates : [r EXCEPT ![g].state = s] \in Registries(n)
           /\ \A k \in 0..MaxStarts :
                 /\ [r EXCEPT ![g].starts = k] \in Registries(n)
                 /\ [r EXCEPT ![g].starts = k, ![g].pid = TRUE] \in Registries(n)
           /\ [r EXCEPT ![g].pid = FALSE] \in Registries(n)
           /\ [r EXCEPT ![g].indexed = TRUE] \in Registries(n)
           /\ [r EXCEPT ![g].indexed = TRUE, ![g].noted = @ + 1] \in Registries(n)
           /\ [r EXCEPT ![g].projected = TRUE] \in Registries(n)
<1> DEFINE Kept(q) == /\ q \in [1..n -> RowType]
                      /\ \A h \in 1..n : q[h].active = r[h].active
<1>1. r \in [1..n -> RowType]
  BY DEF Registries
<1>2. ASSUME NEW q, Kept(q) PROVE q \in Registries(n)
  BY <1>2 DEF Registries
<1>3. \A s \in AllStates : Kept([r EXCEPT ![g].state = s])
  BY <1>1 DEF RowType
<1>4. \A k \in 0..MaxStarts : Kept([r EXCEPT ![g].starts = k])
  BY <1>1 DEF RowType
<1>5. \A k \in 0..MaxStarts : Kept([r EXCEPT ![g].starts = k, ![g].pid = TRUE])
  BY <1>1 DEF RowType
<1>6. Kept([r EXCEPT ![g].pid = FALSE])
  BY <1>1 DEF RowType
<1>7. Kept([r EXCEPT ![g].indexed = TRUE])
  BY <1>1 DEF RowType
<1>8. Kept([r EXCEPT ![g].indexed = TRUE, ![g].noted = @ + 1])
  <2>1. CASE g \in 1..n
    <3>1. r[g].noted + 1 \in Nat
      BY <1>1, <2>1 DEF RowType
    <3> DEFINE m == r[g].noted + 1
    <3> HIDE DEF m
    <3>2. Kept([r EXCEPT ![g].indexed = TRUE, ![g].noted = m])
      BY <1>1, <2>1, <3>1 DEF RowType, m
    <3> QED BY <3>2 DEF m
  <2>2. CASE g \notin 1..n
    BY <1>1, <2>2
  <2> QED BY <2>1, <2>2
<1>9. Kept([r EXCEPT ![g].projected = TRUE])
  BY <1>1 DEF RowType
<1> HIDE DEF Kept
<1> QED BY <1>2, <1>3, <1>4, <1>5, <1>6, <1>7, <1>8, <1>9

\* casActive leaves one active generation at most, because it compares first.
LEMMA CasKeepsOne ==
    ASSUME NEW n \in Nat, NEW r \in Registries(n), NEW expected, NEW next
    PROVE  CasActive(r, expected, next) \in Registries(n)
<1> DEFINE off == IF expected = 0 THEN r ELSE [r EXCEPT ![expected].active = FALSE]
           on == [off EXCEPT ![next].active = TRUE]
<1>1. r \in [1..n -> RowType]
  BY DEF Registries
<1>2. CASE CasOk(r, expected)
  <2>1. off \in [1..n -> RowType]
    BY <1>1 DEF RowType
  <2>2. \A g \in 1..n : ~off[g].active
    <3>1. \A g \in 1..n : r[g].active => g = expected
      BY <1>2, ActiveIn DEF CasOk, Registries
    <3>2. CASE expected = 0
      BY <3>1, <3>2
    <3>3. CASE expected # 0
      BY <3>1, <3>3, <1>1 DEF RowType
    <3> QED BY <3>2, <3>3
  <2>3. off \in Registries(n)
    BY <2>1, <2>2 DEF Registries
  <2> HIDE DEF off
  <2>4. on \in [1..n -> RowType] /\ \A g \in 1..n : on[g].active => g = next
    BY <2>1, <2>2 DEF RowType
  <2> HIDE DEF on
  <2>5. on \in Registries(n)
    BY <2>4 DEF Registries
  <2> QED BY <2>3, <2>5, <1>2 DEF CasActive, on, off
<1>3. CASE ~CasOk(r, expected)
  BY <1>3 DEF CasActive
<1> QED BY <1>2, <1>3

-----------------------------------------------------------------------------
(* The writes of a step. *)

LEMMA Words ==
    /\ \A s \in AllStates : <<s>> \in Seq(AllStates)
    /\ \A s, t \in AllStates : <<s, t>> \in Seq(AllStates)
    /\ \A s, t, u \in AllStates : <<s, t, u>> \in Seq(AllStates)
OBVIOUS

\* A path grows by registries that are as they should be.
LEMMA PathExtends ==
    ASSUME NEW n \in Nat, NEW path, Path(path, n),
           NEW more \in Seq(Registries(n))
    PROVE  Path(path \o more, n)
<1>1. more \in Seq(Seq(RowType))
  <2>1. Registries(n) \subseteq Seq(RowType)
    BY DEF Registries
  <2> QED BY <2>1, SeqMonotonic
<1>2. /\ path \o more \in Seq(Seq(RowType))
      /\ Len(path \o more) = Len(path) + Len(more)
      /\ \A i \in 1..(Len(path) + Len(more)) :
            (path \o more)[i] = IF i <= Len(path) THEN path[i] ELSE more[i - Len(path)]
  BY <1>1, ConcatProperties DEF Path
<1>3. \A i \in 2..(Len(path) + Len(more)) : (path \o more)[i] \in Registries(n)
  <2> TAKE i \in 2..(Len(path) + Len(more))
  <2>0. Len(path) \in Nat /\ Len(more) \in Nat
    BY <1>1 DEF Path
  <2>1. CASE i <= Len(path)
    BY <1>2, <2>0, <2>1 DEF Path
  <2>2. CASE i > Len(path)
    <3>1. i - Len(path) \in 1..Len(more)
      BY <2>0, <2>2
    <3>2. more[i - Len(path)] \in Registries(n)
      BY <3>1, ElementOfSeq
    <3> QED BY <1>2, <2>0, <2>2, <3>2
  <2> QED BY <2>0, <2>1, <2>2
<1>4. (path \o more)[Len(path) + Len(more)] \in Registries(n)
  BY <1>1, <1>2, <1>3 DEF Path
<1> QED BY <1>1, <1>2, <1>3, <1>4 DEF Path

LEMMA MovesIn ==
    ASSUME NEW n \in Nat, NEW r \in Registries(n), NEW g, NEW ts \in Seq(AllStates)
    PROVE  Moves(r, g, ts) \in Seq(Registries(n))
<1>1. \A i \in 1..Len(ts) : [r EXCEPT ![g].state = ts[i]] \in Registries(n)
  BY RowSet, ElementOfSeq
<1> DEFINE e(i) == [r EXCEPT ![g].state = ts[i]]
<1>2. [i \in 1..Len(ts) |-> e(i)] \in [1..Len(ts) -> Registries(n)]
  BY <1>1
<1>3. Len(ts) \in Nat
  OBVIOUS
<1> DEFINE f == [i \in 1..Len(ts) |-> e(i)]
<1>4. f \in Seq(Registries(n))
  <2> HIDE DEF f
  <2> QED BY <1>2, <1>3, SeqDef DEF f
<1> QED BY <1>4 DEF Moves

\* Moves of one row extend a path.
LEMMA StepsPath ==
    ASSUME NEW n \in Nat, NEW path, Path(path, n), NEW g, NEW ts \in Seq(AllStates)
    PROVE  Path(Steps(path, g, ts), n)
<1>1. Last(path) \in Registries(n)
  BY DEF Path, Last
<1>2. Moves(Last(path), g, ts) \in Seq(Registries(n))
  BY <1>1, MovesIn
<1> QED BY <1>2, PathExtends DEF Steps, Then

\* So do the writes of spawnClient, of a stop, of an activation.
LEMMA SpawnedPath ==
    ASSUME NEW n \in Nat, NEW path, Path(path, n), NEW x, x.starts \in 0..MaxStarts
    PROVE  Path(Spawned(path, x), n)
<1>1. Last(path) \in Registries(n)
  BY DEF Path, Last
<1>2. OneMore(x.starts) \in 0..MaxStarts
  BY LifecycleAssumption DEF OneMore
<1>3. <<[Last(path) EXCEPT ![x.gen].starts = OneMore(x.starts)],
        [Last(path) EXCEPT ![x.gen].starts = OneMore(x.starts), ![x.gen].pid = TRUE]>>
            \in Seq(Registries(n))
  <2>1. \A k \in 0..MaxStarts :
           /\ [Last(path) EXCEPT ![x.gen].starts = k] \in Registries(n)
           /\ [Last(path) EXCEPT ![x.gen].starts = k, ![x.gen].pid = TRUE] \in Registries(n)
    BY <1>1, RowSet
  <2> DEFINE c1 == [Last(path) EXCEPT ![x.gen].starts = OneMore(x.starts)]
             c2 == [Last(path) EXCEPT ![x.gen].starts = OneMore(x.starts), ![x.gen].pid = TRUE]
  <2>2. c1 \in Registries(n) /\ c2 \in Registries(n)
    BY <1>2, <2>1
  <2> HIDE DEF c1, c2
  <2>3. <<c1, c2>> \in Seq(Registries(n))
    BY <2>2
  <2> QED BY <2>3 DEF c1, c2
<1> QED BY <1>3, PathExtends DEF Spawned, Then

LEMMA AfterStopPath ==
    ASSUME NEW n \in Nat, NEW path, Path(path, n), NEW x, x.pc \in {"abort", "drain", "remove"}
    PROVE  Path(AfterStop(path, x), n)
<1>1. CASE x.pc = "abort"
  BY <1>1, StepsPath, Words, StateNames DEF AfterStop
<1>2. CASE x.pc = "drain"
  BY <1>2, StepsPath, Words, StateNames DEF AfterStop
<1>3. CASE x.pc = "remove"
  <2> DEFINE p1 == Steps(path, x.gen, <<"STOPPED_RETAINED", "UNINSTALLING">>)
             p2 == Then(p1, LAMBDA r : IF x.active THEN <<CasActive(r, x.gen, 0)>> ELSE <<>>)
             p3 == Then(p2, LAMBDA r : Moves(r, x.gen, <<"REMOVED">>))
  <2>1. Path(p1, n)
    BY StepsPath, Words, StateNames
  <2>2. Path(p2, n)
    <3>1. Last(p1) \in Registries(n)
      BY <2>1 DEF Path, Last
    <3>2. CasActive(Last(p1), x.gen, 0) \in Registries(n)
      BY <3>1, CasKeepsOne
    <3> HIDE DEF p1
    <3>3. (IF x.active THEN <<CasActive(Last(p1), x.gen, 0)>> ELSE <<>>) \in Seq(Registries(n))
      BY <3>2
    <3> QED BY <2>1, <3>3, PathExtends DEF Then
  <2>3. Path(p3, n)
    <3> HIDE DEF p2
    <3>1. Last(p2) \in Registries(n)
      BY <2>2 DEF Path, Last
    <3>2. Moves(Last(p2), x.gen, <<"REMOVED">>) \in Seq(Registries(n))
      BY <3>1, MovesIn, Words, StateNames
    <3> QED BY <2>2, <3>2, PathExtends DEF Then
  <2>4. AfterStop(path, x) = p3
    BY <1>3 DEF AfterStop
  <2> HIDE DEF p3
  <2> QED BY <2>3, <2>4
<1> QED BY <1>1, <1>2, <1>3

LEMMA AfterFailedStopPath ==
    ASSUME NEW n \in Nat, NEW path, Path(path, n), NEW x
    PROVE  Path(AfterFailedStop(path, x), n)
BY StepsPath, Words, StateNames DEF AfterFailedStop

LEMMA ActivationPath ==
    ASSUME NEW n \in Nat, NEW r \in Registries(n), NEW expected, NEW x
    PROVE  Path(Activation(r, expected, x), n)
<1> DEFINE g == x.gen
           cas == CasActive(r, expected, g)
           index == IF x.indexed THEN <<cas>>
                    ELSE <<cas, [cas EXCEPT ![g].indexed = TRUE],
                           [cas EXCEPT ![g].indexed = TRUE, ![g].noted = @ + 1]>>
           p1 == <<r>> \o index
           p2 == Then(p1, LAMBDA s : <<[s EXCEPT ![g].projected = TRUE]>>)
<1>1. cas \in Registries(n)
  BY CasKeepsOne
<1>2. index \in Seq(Registries(n))
  <2> HIDE DEF cas
  <2>1. /\ [cas EXCEPT ![g].indexed = TRUE] \in Registries(n)
        /\ [cas EXCEPT ![g].indexed = TRUE, ![g].noted = @ + 1] \in Registries(n)
    BY <1>1, RowSet
  <2> DEFINE c1 == [cas EXCEPT ![g].indexed = TRUE]
             c2 == [cas EXCEPT ![g].indexed = TRUE, ![g].noted = @ + 1]
  <2>2. index = IF x.indexed THEN <<cas>> ELSE <<cas, c1, c2>>
    OBVIOUS
  <2>3. c1 \in Registries(n) /\ c2 \in Registries(n)
    BY <2>1
  <2> HIDE DEF index, c1, c2
  <2> QED BY <1>1, <2>2, <2>3
<1>3. Path(p1, n)
  <2>1. Path(<<r>>, n)
    BY DEF Path, Registries
  <2> HIDE DEF index
  <2> QED BY <1>2, <2>1, PathExtends
<1>4. Path(p2, n)
  <2> HIDE DEF p1
  <2>1. Last(p1) \in Registries(n)
    BY <1>3 DEF Path, Last
  <2>2. <<[Last(p1) EXCEPT ![g].projected = TRUE]>> \in Seq(Registries(n))
    <3>1. [Last(p1) EXCEPT ![g].projected = TRUE] \in Registries(n)
      BY <2>1, RowSet
    <3> DEFINE q == [Last(p1) EXCEPT ![g].projected = TRUE]
    <3> HIDE DEF q
    <3>2. <<q>> \in Seq(Registries(n))
      BY <3>1 DEF q
    <3> QED BY <3>2 DEF q
  <2> QED BY <1>3, <2>2, PathExtends DEF Then
<1>5. Activation(r, expected, x) = Steps(p2, g, <<"READY">>)
  BY DEF Activation
<1>6. Path(Steps(p2, g, <<"READY">>), n)
  <2> HIDE DEF p2, g
  <2> QED BY <1>4, StepsPath, Words, StateNames
<1> HIDE DEF p2
<1> QED BY <1>5, <1>6

\* recoverAfterCrash extends the path by the writes for one generation,
LEMMA RecoverPath ==
    ASSUME NEW n \in Nat, NEW path, Path(path, n), NEW g, NEW survivors
    PROVE  Path(Recover(path, g, survivors), n)
<1> DEFINE x == Last(path)[g]
           Index(r) == IF x.indexed THEN <<>>
                       ELSE <<[r EXCEPT ![g].indexed = TRUE],
                              [r EXCEPT ![g].indexed = TRUE, ![g].noted = @ + 1]>>
           Project(r) == <<[r EXCEPT ![g].projected = TRUE]>>
           p1 == Then(path, Index)
           p2 == Then(p1, Project)
           ts == IF x.pid /\ g \in survivors THEN <<"READY">> ELSE <<>>
<1>1. \A r \in Registries(n) : Index(r) \in Seq(Registries(n)) /\ Project(r) \in Seq(Registries(n))
  <2> TAKE r \in Registries(n)
  <2> DEFINE c1 == [r EXCEPT ![g].indexed = TRUE]
             c2 == [r EXCEPT ![g].indexed = TRUE, ![g].noted = @ + 1]
             c3 == [r EXCEPT ![g].projected = TRUE]
  <2>1. c1 \in Registries(n) /\ c2 \in Registries(n) /\ c3 \in Registries(n)
    BY RowSet
  <2>2. Index(r) = (IF x.indexed THEN <<>> ELSE <<c1, c2>>) /\ Project(r) = <<c3>>
    OBVIOUS
  <2> HIDE DEF c1, c2, c3, Index, Project, x
  <2> QED BY <2>1, <2>2
<1>2. Path(p1, n)
  <2>1. Last(path) \in Registries(n)
    BY DEF Path, Last
  <2>2. Index(Last(path)) \in Seq(Registries(n))
    <3> HIDE DEF Index
    <3> QED BY <1>1, <2>1
  <2>3. p1 = path \o Index(Last(path))
    BY DEF Then
  <2> HIDE DEF p1, Index
  <2> QED BY <2>2, <2>3, PathExtends
<1>3. Path(p2, n)
  <2>1. Last(p1) \in Registries(n)
    BY <1>2 DEF Path, Last
  <2>2. Project(Last(p1)) \in Seq(Registries(n))
    <3> HIDE DEF Project, p1
    <3> QED BY <1>1, <2>1
  <2>3. p2 = p1 \o Project(Last(p1))
    BY DEF Then
  <2> HIDE DEF p2, p1, Project
  <2> QED BY <1>2, <2>2, <2>3, PathExtends
<1>4. ts \in Seq(AllStates)
  BY Words, StateNames
<1>5. Recover(path, g, survivors) \in
        {Steps(p2, g, ts), Steps(path, g, <<"DRAINING", "STOPPED_RETAINED">>),
         Steps(path, g, <<"REJECTED">>), path}
  BY DEF Recover
<1>6. Path(Steps(p2, g, ts), n)
  <2> HIDE DEF p2, ts
  <2> QED BY <1>3, <1>4, StepsPath
<1>7. /\ Path(Steps(path, g, <<"DRAINING", "STOPPED_RETAINED">>), n)
      /\ Path(Steps(path, g, <<"REJECTED">>), n)
  BY StepsPath, Words, StateNames
<1> HIDE DEF p2, ts
<1> QED BY <1>5, <1>6, <1>7

\* and, one generation after the other, by those for all of them: otherwise there
\* were a least one whose path is not defined as it is written, or is no path.
LEMMA RecoveryPath ==
    ASSUME NEW n \in Nat, NEW r \in Registries(n), NEW survivors
    PROVE  LET upto[g \in 0..n] == IF g = 0 THEN <<r>> ELSE Recover(upto[g - 1], g, survivors)
           IN Path(upto[n], n)
<1> DEFINE Body(f, g) == IF g = 0 THEN <<r>> ELSE Recover(f[g - 1], g, survivors)
           Upto(m) == \E f : f = [g \in 0..m |-> Body(f, g)]
           Unreached == {m \in Nat : ~Upto(m)}
<1>1. Unreached = {}
  <2> SUFFICES ASSUME Unreached # {} PROVE FALSE
    OBVIOUS
  <2>1. PICK m \in Unreached : \A k \in Unreached : m <= k
    <3> Unreached \in SUBSET Nat
      OBVIOUS
    <3> HIDE DEF Unreached
    <3> QED BY LeastExists
  <2>2. CASE m = 0
    <3>1. [g \in 0..0 |-> <<r>>] = [g \in 0..0 |-> Body([h \in 0..0 |-> <<r>>], g)]
      OBVIOUS
    <3> QED BY <2>1, <2>2, <3>1
  <2>3. CASE m # 0
    <3>1. m - 1 \in Nat /\ m - 1 \notin Unreached
      <4> m \in Nat
        OBVIOUS
      <4> HIDE DEF Unreached
      <4> QED BY <2>1, <2>3
    <3>2. PICK f : f = [g \in 0..(m - 1) |-> Body(f, g)]
      BY <3>1
    <3> DEFINE h == [g \in 0..m |-> IF g = m THEN Recover(f[m - 1], m, survivors) ELSE f[g]]
    <3>3. \A g \in 0..m : h[g] = Body(h, g)
      BY <3>2, <3>1, <2>3
    <3>4. h = [g \in 0..m |-> Body(h, g)]
      BY <3>3
    <3> HIDE DEF h
    <3> QED BY <3>4, <2>1
  <2> QED BY <2>2, <2>3
<1> DEFINE upto == CHOOSE f : f = [g \in 0..n |-> Body(f, g)]
<1>2. upto = [g \in 0..n |-> Body(upto, g)]
  <2>1. Upto(n)
    BY <1>1
  <2> HIDE DEF Body
  <2> QED BY <2>1
<1> HIDE DEF upto
<1> DEFINE Astray == {g \in 0..n : ~Path(upto[g], n)}
<1>3. Astray = {}
  <2> SUFFICES ASSUME Astray # {} PROVE FALSE
    OBVIOUS
  <2>1. PICK g \in Astray : \A h \in Astray : g <= h
    <3> Astray \in SUBSET Nat
      OBVIOUS
    <3> HIDE DEF Astray
    <3> QED BY LeastExists
  <2>2. CASE g = 0
    <3>1. upto[0] = <<r>>
      BY <1>2
    <3>2. Path(<<r>>, n)
      BY DEF Path, Registries
    <3> QED BY <2>1, <2>2, <3>1, <3>2
  <2>3. CASE g # 0
    <3>1. g - 1 \in 0..n /\ g - 1 \notin Astray
      <4> g \in 0..n
        OBVIOUS
      <4> HIDE DEF Astray
      <4> QED BY <2>1, <2>3
    <3>2. Path(upto[g - 1], n)
      BY <3>1
    <3>3. upto[g] = Recover(upto[g - 1], g, survivors)
      BY <1>2, <2>3
    <3> QED BY <2>1, <3>2, <3>3, RecoverPath
  <2> QED BY <2>2, <2>3
<1>4. Path(upto[n], n)
  BY <1>3
<1> QED BY <1>4 DEF upto

-----------------------------------------------------------------------------
(* The inductive invariant. *)

RowsTyped == row \in Registries(Len(row)) /\ Len(row) <= MaxGens

OpsTyped ==
    /\ op \in Seq(OpType(Len(row), Len(proc))) /\ Len(op) <= MaxOps[boots]
    /\ ~up => op = <<>>

ProcsTyped == proc \in Seq(ProcType(Len(row), Len(op)))

EngineTyped ==
    /\ client \in [Gens -> 0..Len(proc)]
    /\ probe \in [Gens -> 0..Len(op)]
    /\ draining \subseteq 1..Len(row)

DaemonTyped == boots \in 1..MaxBoots /\ up \in BOOLEAN /\ closed \in BOOLEAN

Types == RowsTyped /\ OpsTyped /\ ProcsTyped /\ EngineTyped /\ DaemonTyped

\* CancelStopsStart, of one step.
CancelStep ==
    \A o \in DOMAIN op \cap DOMAIN op' :
        op[o].cancel /\ op[o].pc = "fetch" => op'[o].pc \in {"fetch", "done"}

\* A cancelled operation that still fetches.
Doomed(o) == o \in DOMAIN op /\ op[o].cancel /\ op[o].pc = "fetch"

\* What Types says of lengths and elements.
LEMMA Lens ==
    ASSUME Types
    PROVE  /\ Len(row) \in Nat /\ Len(op) \in Nat /\ Len(proc) \in Nat /\ Len(row) <= MaxGens
           /\ DOMAIN row = 1..Len(row) /\ DOMAIN op = 1..Len(op) /\ DOMAIN proc = 1..Len(proc)
           /\ MaxOps[boots] \in Nat
           /\ \A o \in 1..Len(op) : op[o] \in OpType(Len(row), Len(proc))
           /\ \A p \in 1..Len(proc) : proc[p] \in ProcType(Len(row), Len(op))
BY LifecycleAssumption DEF Types, RowsTyped, OpsTyped, ProcsTyped, DaemonTyped, Registries

\* More rows, operations or processes refer to what there was before.
LEMMA Wider ==
    ASSUME NEW n \in Nat, NEW n2 \in Nat, n <= n2, NEW m \in Nat, NEW m2 \in Nat, m <= m2
    PROVE  OpType(n, m) \subseteq OpType(n2, m2) /\ ProcType(n, m) \subseteq ProcType(n2, m2)
<1>1. 1..n \subseteq 1..n2 /\ 0..n \subseteq 0..n2 /\ 0..m \subseteq 0..m2 /\ 1..m \subseteq 1..m2
  OBVIOUS
<1>2. OpType(n, m) \subseteq OpType(n2, m2)
  BY <1>1 DEF OpType
<1>3. ProcType(n, m) \subseteq ProcType(n2, m2)
  BY <1>1 DEF ProcType
<1> QED BY <1>2, <1>3

-----------------------------------------------------------------------------
(* Objects, and how a step ends. *)

\* The objects keep their types under each of the updates of the engine.
LEMMA OpSet ==
    ASSUME NEW n \in Nat, NEW m \in Nat, NEW x \in OpType(n, m)
    PROVE  /\ \A s \in AllStates : [x EXCEPT !.st = s] \in OpType(n, m)
           /\ \A s \in AllStates, pc \in PCs : [x EXCEPT !.pc = pc, !.st = s] \in OpType(n, m)
           /\ \A s \in AllStates : [x EXCEPT !.st = s, !.starts = OneMore(@)] \in OpType(n, m)
           /\ \A p \in 0..m : [x EXCEPT !.proc = p] \in OpType(n, m)
           /\ \A pc \in PCs, p \in 0..m : [x EXCEPT !.pc = pc, !.proc = p] \in OpType(n, m)
           /\ \A pc \in PCs : [x EXCEPT !.pc = pc] \in OpType(n, m)
           /\ \A b \in BOOLEAN : [x EXCEPT !.cancel = b] \in OpType(n, m)
           /\ Ended(x) \in OpType(n, m) /\ Ended(x).pc = "done"
           /\ Stopped(x) \in OpType(n, m)
           /\ Failed(x) \in OpType(n, m)
           /\ Activated(x) \in OpType(n, m)
<1>1. \A k \in 0..MaxStarts : OneMore(k) \in 0..MaxStarts
  BY LifecycleAssumption DEF OneMore
<1>2. "STOPPED_RETAINED" \in AllStates /\ "QUARANTINED" \in AllStates /\ "READY" \in AllStates
  BY StateNames
<1>3. "done" \in PCs
  BY DEF PCs
<1>4. \A s \in AllStates : [x EXCEPT !.st = s] \in OpType(n, m)
  BY DEF OpType
<1>5. \A s \in AllStates, pc \in PCs : [x EXCEPT !.pc = pc, !.st = s] \in OpType(n, m)
  BY DEF OpType
<1>6. \A s \in AllStates : [x EXCEPT !.st = s, !.starts = OneMore(@)] \in OpType(n, m)
  BY <1>1 DEF OpType
<1>7. \A p \in 0..m : [x EXCEPT !.proc = p] \in OpType(n, m)
  BY DEF OpType
<1>8. \A pc \in PCs, p \in 0..m : [x EXCEPT !.pc = pc, !.proc = p] \in OpType(n, m)
  BY DEF OpType
<1>9. \A pc \in PCs : [x EXCEPT !.pc = pc] \in OpType(n, m)
  BY DEF OpType
<1>10. \A b \in BOOLEAN : [x EXCEPT !.cancel = b] \in OpType(n, m)
  BY DEF OpType
<1>11. Ended(x) \in OpType(n, m) /\ Ended(x).pc = "done"
  <2>1. 0 \in 0..n /\ 0 \in 0..m /\ "none" \in AllStates \union {"none"}
    OBVIOUS
  <2> HIDE DEF PCs
  <2> QED BY <1>3, <2>1 DEF Ended, OpType
<1>12. Stopped(x) \in OpType(n, m)
  BY <1>2, <1>4 DEF Stopped
<1>13. Failed(x) \in OpType(n, m)
  BY <1>2, <1>4 DEF Failed
<1>14. Activated(x) \in OpType(n, m)
  BY <1>2 DEF Activated, OpType
<1> QED BY <1>4, <1>5, <1>6, <1>7, <1>8, <1>9, <1>10, <1>11, <1>12, <1>13, <1>14

\* An operation is stored or added.
LEMMA PutTyped ==
    ASSUME Types, NEW n \in Nat, Len(row) <= n, NEW m \in Nat, Len(proc) <= m,
           NEW o \in 1..(Len(op) + 1), NEW x \in OpType(n, m), Put(o, x),
           Doomed(o) => x.pc \in {"fetch", "done"}
    PROVE  /\ op' \in Seq(OpType(n, m))
           /\ Len(op') = IF o <= Len(op) THEN Len(op) ELSE Len(op) + 1
           /\ CancelStep
<1>1. op \in Seq(OpType(n, m)) /\ DOMAIN op = 1..Len(op) /\ Len(op) \in Nat
  <2>1. OpType(Len(row), Len(proc)) \subseteq OpType(n, m)
    BY Lens, Wider
  <2> QED BY <2>1, Lens, SeqMonotonic DEF Types, OpsTyped
<1>2. CASE o <= Len(op)
  <2>1. op' = [op EXCEPT ![o] = x]
    BY <1>1, <1>2 DEF Put
  <2>2. op' \in Seq(OpType(n, m)) /\ Len(op') = Len(op)
    BY <1>1, <1>2, <2>1, ExceptSeq
  <2>3. \A q \in DOMAIN op : op'[q] = IF q = o THEN x ELSE op[q]
    BY <1>1, <2>1
  <2>4. CancelStep
    BY <2>3 DEF CancelStep, Doomed
  <2> QED BY <1>2, <2>2, <2>4
<1>3. CASE o = Len(op) + 1
  <2>1. op' = Append(op, x)
    <3>1. o \notin DOMAIN op
      BY <1>1, <1>3
    <3> QED BY <3>1 DEF Put
  <2>2. op' \in Seq(OpType(n, m)) /\ Len(op') = Len(op) + 1 /\ \A q \in 1..Len(op) : op'[q] = op[q]
    BY <1>1, <2>1, AppendProperties
  <2>3. CancelStep
    BY <1>1, <2>2 DEF CancelStep
  <2> QED BY <1>1, <1>3, <2>2, <2>3
<1> QED BY <1>1, <1>2, <1>3

\* The end of the process keeps the rows and forgets the rest.
LEMMA DiesTyped ==
    ASSUME Types, NEW n \in Nat, n <= MaxGens, row' \in Registries(n), Dies
    PROVE  Types' /\ CancelStep
<1>1. Len(row') = n
  BY DEF Registries
<1>2. RowsTyped'
  BY <1>1 DEF RowsTyped
<1>3. OpsTyped' /\ ProcsTyped' /\ DaemonTyped'
  <2>1. op' = <<>> /\ proc' = <<>> /\ boots' = boots /\ up' = FALSE /\ closed' = FALSE
    BY DEF Dies
  <2>2. MaxOps[boots] \in Nat
    BY Lens
  <2>3. Len(op') = 0 /\ op' \in Seq(OpType(Len(row'), Len(proc')))
    BY <2>1
  <2>4. proc' \in Seq(ProcType(Len(row'), Len(op')))
    BY <2>1
  <2>5. OpsTyped'
    BY <2>1, <2>2, <2>3 DEF OpsTyped
  <2> QED BY <2>1, <2>4, <2>5 DEF ProcsTyped, DaemonTyped, Types
<1>4. EngineTyped'
  BY <1>1 DEF EngineTyped, Dies
<1>5. CancelStep
  BY DEF CancelStep, Dies
<1> QED BY <1>2, <1>3, <1>4, <1>5 DEF Types

\* Every way a path of writes can end leaves one active generation at most.
LEMMA WritesEnd ==
    ASSUME NEW n \in Nat, NEW path, Path(path, n)
    PROVE  Last(path) \in Registries(n) /\ \A i \in 2..(Len(path) - 1) : path[i] \in Registries(n)
BY DEF Path, Last

\* A step stores an object, and rows and processes that are not fewer.
LEMMA StepTyped ==
    ASSUME Types, up, NEW n \in Nat, Len(row) <= n, n <= MaxGens, row' \in Registries(n),
           NEW o \in 1..(Len(op) + 1), o = Len(op) + 1 => Len(op) < MaxOps[boots],
           proc' \in Seq(ProcType(n, Len(op))), Len(proc) <= Len(proc'),
           NEW x \in OpType(n, Len(proc')), Put(o, x), Doomed(o) => x.pc \in {"fetch", "done"},
           client' \in [Gens -> 0..Len(proc')], probe' \in [Gens -> 0..Len(op)],
           draining' \subseteq 1..n, Stays
    PROVE  Types' /\ CancelStep
<1>1. /\ Len(proc') \in Nat /\ Len(op) \in Nat /\ MaxOps[boots] \in Nat /\ Len(row') = n
      /\ Len(op) <= MaxOps[boots]
  BY Lens DEF Registries, Types, OpsTyped
<1>2. /\ op' \in Seq(OpType(n, Len(proc')))
      /\ Len(op') = IF o <= Len(op) THEN Len(op) ELSE Len(op) + 1
      /\ CancelStep
  BY <1>1, PutTyped
<1>3. RowsTyped'
  BY <1>1 DEF RowsTyped
<1>4. OpsTyped'
  BY <1>1, <1>2 DEF OpsTyped, Stays
<1>5. Len(op') \in Nat /\ Len(op) <= Len(op')
  BY <1>1, <1>2
<1>6. ProcsTyped'
  <2>1. ProcType(n, Len(op)) \subseteq ProcType(n, Len(op'))
    BY <1>1, <1>5, Wider
  <2> QED BY <1>1, <2>1, SeqMonotonic DEF ProcsTyped
<1>7. EngineTyped'
  <2>1. 0..Len(op) \subseteq 0..Len(op')
    BY <1>1, <1>5
  <2> QED BY <1>1, <2>1 DEF EngineTyped
<1>8. DaemonTyped'
  BY DEF DaemonTyped, Stays, Types
<1> QED BY <1>2, <1>3, <1>4, <1>6, <1>7, <1>8 DEF Types

LEMMA EngineFacts ==
    ASSUME Types
    PROVE  /\ proc \in Seq(ProcType(Len(row), Len(op))) /\ draining \subseteq 1..Len(row)
           /\ client \in [Gens -> 0..Len(proc)] /\ probe \in [Gens -> 0..Len(op)]
           /\ 1..Len(row) \subseteq Gens /\ 0 \in 0..Len(proc) /\ 0 \in 0..Len(op)
           /\ row \in Registries(Len(row))
<1>1. 1..Len(row) \subseteq Gens
  BY Lens, LifecycleAssumption DEF Gens
<1>2. 0 \in 0..Len(proc) /\ 0 \in 0..Len(op)
  BY Lens
<1> QED BY <1>1, <1>2 DEF Types, ProcsTyped, EngineTyped, RowsTyped

LEMMA RowFacts ==
    ASSUME Types, NEW g \in 1..Len(row)
    PROVE  /\ row[g].version \in Versions /\ row[g].state \in AllStates
           /\ row[g].active \in BOOLEAN /\ row[g].indexed \in BOOLEAN
           /\ row[g].starts \in 0..MaxStarts
<1>1. row \in Seq(RowType)
  BY EngineFacts DEF Registries
<1>2. row[g] \in RowType
  BY <1>1, ElementOfSeq
<1> QED BY <1>2 DEF RowType

LEMMA DetachTyped ==
    ASSUME Types, up, NEW o \in 1..(Len(op) + 1), o = Len(op) + 1 => Len(op) < MaxOps[boots],
           row' \in Registries(Len(row)),
           NEW y \in OpType(Len(row), Len(proc)), Put(o, y), Doomed(o) => y.pc \in {"fetch", "done"},
           NEW g, NEW probes \in [Gens -> 0..Len(op)],
           client' = [client EXCEPT ![g] = 0], probe' = [probes EXCEPT ![g] = 0],
           proc' = proc, draining' \subseteq 1..Len(row), Stays
    PROVE  Types' /\ CancelStep
<1>1. client' \in [Gens -> 0..Len(proc)] /\ probe' \in [Gens -> 0..Len(op)]
  BY EngineFacts
<1>2. Len(row) \in Nat /\ Len(row) <= MaxGens /\ Len(proc) \in Nat
  BY Lens
<1>3. proc' \in Seq(ProcType(Len(row), Len(op)))
  BY EngineFacts
<1>4. /\ Len(proc) <= Len(proc') /\ Len(row) <= Len(row)
      /\ y \in OpType(Len(row), Len(proc')) /\ client' \in [Gens -> 0..Len(proc')]
  BY <1>1, <1>2
<1> QED BY <1>1, <1>2, <1>3, <1>4, StepTyped

-----------------------------------------------------------------------------
(* stopChild and failOperation. *)

\* stopChild, wherever it returns, throws or awaits.
LEMMA StopChildTyped ==
    ASSUME Types, up, NEW o \in 1..(Len(op) + 1), o = Len(op) + 1 => Len(op) < MaxOps[boots],
           NEW x \in OpType(Len(row), Len(proc)), x.pc \in {"abort", "drain", "remove"}, ~Doomed(o),
           NEW g \in 1..Len(row), NEW path, Path(path, Len(row)),
           NEW probes \in [Gens -> 0..Len(op)], StopChild(o, x, g, path, probes)
    PROVE  Types' /\ CancelStep
<1> DEFINE n == Len(row)
           m == Len(proc)
           p == client[g]
           dropped == Then(path, LAMBDA r : <<[r EXCEPT ![g].pid = FALSE]>>)
           ended == AfterStop(path, x)
           failed == AfterFailedStop(dropped, x)
           Detach == /\ client' = [client EXCEPT ![g] = 0]
                     /\ probe' = [probes EXCEPT ![g] = 0]
                     /\ UNCHANGED proc /\ Stays
<1>1. n \in Nat /\ m \in Nat /\ n <= MaxGens /\ p \in 0..m /\ draining \subseteq 1..n
  BY Lens, EngineFacts
<1>2. /\ Ended(Stopped(x)) \in OpType(n, m) /\ Ended(Failed(x)) \in OpType(n, m)
      /\ \A k \in 0..m : [x EXCEPT !.proc = k] \in OpType(n, m)
  <2>1. Stopped(x) \in OpType(n, m) /\ Failed(x) \in OpType(n, m)
    BY <1>1, OpSet
  <2> QED BY <1>1, <2>1, OpSet
<1>3. Path(path, n) /\ Path(ended, n) /\ Path(failed, n)
  <2>1. Path(dropped, n)
    <3> DEFINE q == [Last(path) EXCEPT ![g].pid = FALSE]
    <3>1. q \in Registries(n)
      BY <1>1, WritesEnd, RowSet
    <3>2. dropped = path \o <<q>>
      BY DEF Then
    <3> HIDE DEF q, dropped
    <3>3. <<q>> \in Seq(Registries(n))
      BY <3>1
    <3> QED BY <1>1, <3>2, <3>3, PathExtends
  <2> HIDE DEF dropped
  <2> QED BY <1>1, <2>1, AfterStopPath, AfterFailedStopPath
<1>4. \/ Writes(ended, Put(o, Ended(Stopped(x))) /\ Detach /\ UNCHANGED draining)
      \/ Writes(failed, Put(o, Ended(Failed(x))) /\ Detach /\ UNCHANGED draining)
      \/ Writes(path, Put(o, [x EXCEPT !.proc = p]) /\ Detach /\ draining' = draining \cup {g})
  BY DEF StopChild
<1> HIDE DEF n, m, p, dropped, ended, failed
<1>5. row' \in Registries(n)
  BY <1>1, <1>3, <1>4, WritesEnd DEF Writes
<1>6. \/ Dies
      \/ Put(o, Ended(Stopped(x))) /\ Detach /\ UNCHANGED draining
      \/ Put(o, Ended(Failed(x))) /\ Detach /\ UNCHANGED draining
      \/ Put(o, [x EXCEPT !.proc = p]) /\ Detach /\ draining' = draining \cup {g}
  BY <1>4 DEF Writes
<1>7. CASE Dies
  BY <1>1, <1>5, <1>7, DiesTyped DEF n
<1>8. ASSUME NEW y \in OpType(n, m), Put(o, y), Detach, draining' \subseteq 1..n
      PROVE  Types' /\ CancelStep
  BY <1>5, <1>8, DetachTyped DEF n, m
<1>9. draining \cup {g} \subseteq 1..n
  BY <1>1 DEF n
<1> QED BY <1>1, <1>2, <1>6, <1>7, <1>8, <1>9

LEMMA QuietTyped ==
    ASSUME Types, up, NEW n \in Nat, Len(row) <= n, n <= MaxGens, row' \in Registries(n),
           NEW o \in 1..(Len(op) + 1), o = Len(op) + 1 => Len(op) < MaxOps[boots],
           NEW y \in OpType(n, Len(proc)), Put(o, y), Doomed(o) => y.pc \in {"fetch", "done"},
           UNCHANGED <<proc, engine>>, Stays
    PROVE  Types' /\ CancelStep
<1>1. /\ proc' = proc /\ client' = client /\ probe' = probe /\ draining' = draining
      /\ Len(proc) <= Len(proc')
  BY Lens DEF engine
<1>2. proc' \in Seq(ProcType(n, Len(op)))
  <2>1. ProcType(Len(row), Len(op)) \subseteq ProcType(n, Len(op))
    BY Lens, Wider
  <2> QED BY <1>1, <2>1, EngineFacts, SeqMonotonic
<1>3. y \in OpType(n, Len(proc')) /\ client' \in [Gens -> 0..Len(proc')] /\ probe' \in [Gens -> 0..Len(op)]
  BY <1>1, EngineFacts
<1>4. draining' \subseteq 1..n
  <2>1. 1..Len(row) \subseteq 1..n
    BY Lens
  <2> QED BY <1>1, <2>1, EngineFacts
<1> QED BY <1>1, <1>2, <1>3, <1>4, StepTyped

\* failOperation, after any path of writes.
LEMMA FailTyped ==
    ASSUME Types, up, NEW o \in 1..(Len(op) + 1), o = Len(op) + 1 => Len(op) < MaxOps[boots],
           NEW x \in OpType(Len(row), Len(proc)), NEW path, Path(path, Len(row)),
           Doomed(o) => x.st \in CANCELABLE, Fail(o, x, path)
    PROVE  Types' /\ CancelStep
<1> DEFINE n == Len(row)
           m == Len(proc)
           t == IF x.cancel THEN "CANCELLED" ELSE "REJECTED"
           given == Steps(path, x.gen, <<t>>)
           drained == Steps(path, x.gen, <<"DRAINING">>)
           y == [x EXCEPT !.pc = "abort", !.st = "DRAINING"]
           Quiet == UNCHANGED <<proc, engine>> /\ Stays
<1>1. n \in Nat /\ m \in Nat /\ n <= n /\ n <= MaxGens /\ x.gen \in 1..n
  BY Lens DEF OpType
<1>2. t \in AllStates
  BY StateNames
<1>3. Path(given, n) /\ Path(drained, n)
  <2> HIDE DEF t
  <2> QED BY <1>1, <1>2, StepsPath, Words, StateNames
<1>4. /\ Ended([x EXCEPT !.st = t]) \in OpType(n, m) /\ Ended([x EXCEPT !.st = t]).pc = "done"
      /\ Ended(x) \in OpType(n, m) /\ Ended(x).pc = "done"
      /\ y \in OpType(n, m) /\ y.pc = "abort" /\ y.gen = x.gen
  <2> HIDE DEF t
  <2>1. [x EXCEPT !.st = t] \in OpType(n, m)
    BY <1>1, <1>2, OpSet
  <2>2. y \in OpType(n, m)
    BY <1>1, OpSet, StateNames DEF PCs
  <2>3. y.pc = "abort" /\ y.gen = x.gen
    BY DEF OpType
  <2> QED BY <1>1, <2>1, <2>2, <2>3, OpSet
<1>5. ASSUME NEW c, Path(c, n), NEW z \in OpType(n, m), z.pc = "done", Writes(c, Put(o, z) /\ Quiet)
      PROVE  Types' /\ CancelStep
  <2>1. row' \in Registries(n)
    BY <1>1, <1>5, WritesEnd DEF Writes
  <2>2. CASE Dies
    BY <1>1, <2>1, <2>2, DiesTyped
  <2>3. CASE Put(o, z) /\ Quiet
    <3>1. Put(o, z) /\ UNCHANGED <<proc, engine>> /\ Stays
      BY <2>3
    <3> QED BY <1>1, <1>5, <2>1, <3>1, QuietTyped
  <2> QED BY <1>5, <2>2, <2>3 DEF Writes
<1>6. CASE x.st \in CANCELABLE
  <2>1. Writes(given, Put(o, Ended([x EXCEPT !.st = t])) /\ Quiet)
    BY <1>6 DEF Fail, CANCELABLE
  <2> HIDE DEF n, m, t, given, Quiet
  <2> QED BY <1>3, <1>4, <1>5, <2>1
<1>7. CASE x.st \in {"STARTING", "HEALTHCHECKING"}
  <2>1. StopChild(o, y, x.gen, drained, probe)
    BY <1>7 DEF Fail, CANCELABLE
  <2>2. ~Doomed(o)
    BY <1>7 DEF CANCELABLE
  <2>3. probe \in [Gens -> 0..Len(op)]
    BY EngineFacts
  <2>4. x.gen \in 1..Len(row) /\ Path(drained, Len(row)) /\ y \in OpType(Len(row), Len(proc)) /\ y.pc = "abort"
    BY <1>1, <1>3, <1>4
  <2> HIDE DEF n, m, t, y, drained
  <2> QED BY <2>1, <2>2, <2>3, <2>4, StopChildTyped
<1>8. CASE x.st \notin CANCELABLE \cup {"STARTING", "HEALTHCHECKING"}
  <2>1. Writes(path, Put(o, Ended(x)) /\ Quiet)
    BY <1>8 DEF Fail
  <2> HIDE DEF n, m, t, given, Quiet
  <2> QED BY <1>4, <1>5, <2>1 DEF n
<1> QED BY <1>6, <1>7, <1>8

LEMMA WritesTyped ==
    ASSUME Types, up, NEW n \in Nat, n <= MaxGens, NEW path, Path(path, n),
           \/ row' = Last(path)
           \/ \E i \in 2..(Len(path) - 1) : row' = path[i] /\ Dies
    PROVE  row' \in Registries(n) /\ (Dies => Types' /\ CancelStep)
<1>1. row' \in Registries(n)
  BY WritesEnd
<1> QED BY <1>1, DiesTyped

LEMMA RowPath ==
    ASSUME Types
    PROVE  Path(<<row>>, Len(row)) /\ Last(<<row>>) = row
BY EngineFacts DEF Path, Registries, Last

-----------------------------------------------------------------------------
(* The commits. *)

LEMMA FreshOp ==
    ASSUME Types, NEW v \in Versions, NEW g \in 1..Len(row)
    PROVE  /\ NewOp(v, g) \in OpType(Len(row), Len(proc))
           /\ Copied(NewOp(v, g), g) \in OpType(Len(row), Len(proc))
           /\ NewOp(v, g).gen = g /\ Copied(NewOp(v, g), g).gen = g
           /\ Copied(NewOp(v, g), g).st = row[g].state
<1>1. /\ 0 \in 0..MaxStarts /\ 0 \in 0..Len(row) /\ 0 \in 0..Len(proc)
      /\ "none" \in AllStates \cup {"none"} /\ "FETCHING" \in AllStates /\ "fetch" \in PCs
  BY Lens, LifecycleAssumption, StateNames DEF PCs
<1>2. row[g] \in RowType
  BY EngineFacts DEF Registries
<1>3. NewOp(v, g) \in OpType(Len(row), Len(proc)) /\ NewOp(v, g).gen = g
  <2> HIDE DEF PCs
  <2> QED BY <1>1 DEF NewOp, OpType
<1> DEFINE x == NewOp(v, g)
           y == [x EXCEPT !.st = row[g].state, !.active = row[g].active,
                          !.indexed = row[g].indexed, !.starts = row[g].starts]
<1>4. /\ row[g].state \in AllStates /\ row[g].active \in BOOLEAN /\ row[g].indexed \in BOOLEAN
      /\ row[g].starts \in 0..MaxStarts
  BY RowFacts
<1>5. Copied(x, g) = y
  BY DEF Copied
<1>6. y \in OpType(Len(row), Len(proc)) /\ y.gen = g /\ y.st = row[g].state
  <2> HIDE DEF x
  <2>1. x \in OpType(Len(row), Len(proc)) /\ x.gen = g
    BY <1>3 DEF x
  <2> QED BY <1>4, <2>1 DEF OpType
<1> HIDE DEF y
<1> QED BY <1>3, <1>5, <1>6

LEMMA CandidateTyped ==
    ASSUME Types, NEW v \in Versions, NEW prev \in 0..Len(row), Candidate(v, prev)
    PROVE  Types' /\ CancelStep
<1> DEFINE n == Len(row) + 1
           m == Len(proc)
           o == Len(op) + 1
           grown == Append(row, NewRow(v))
           path == Steps(<<row, grown>>, n, <<"PLANNED", "FETCHING">>)
           pst == IF prev = 0 THEN "none" ELSE row[prev].state
           x == [NewOp(v, n) EXCEPT !.prev = prev, !.pst = pst]
<1>1. n \in Nat /\ m \in Nat /\ Len(row) \in Nat /\ Len(op) \in Nat /\ n <= MaxGens /\ Len(row) <= n
      /\ up /\ Len(op) < MaxOps[boots] /\ o \in 1..(Len(op) + 1)
  BY Lens DEF Candidate, Serving
<1>2. grown \in Registries(n)
  <2>1. NewRow(v) \in RowType /\ ~NewRow(v).active
    BY StateNames, LifecycleAssumption DEF NewRow, RowType
  <2>2. row \in Seq(RowType) /\ \A g, h \in 1..Len(row) : row[g].active /\ row[h].active => g = h
    BY EngineFacts DEF Registries
  <2>3. /\ grown \in Seq(RowType) /\ Len(grown) = n
        /\ \A i \in 1..Len(row) : grown[i] = row[i]
        /\ grown[n] = NewRow(v)
    BY <2>1, <2>2, AppendProperties
  <2>4. \A g \in 1..n : g \in 1..Len(row) \/ g = n
    BY <1>1
  <2> HIDE DEF grown, n
  <2> QED BY <2>1, <2>2, <2>3, <2>4 DEF Registries
<1>3. Path(path, n)
  <2>1. Path(<<row, grown>>, n)
    <3>1. row \in Seq(RowType) /\ grown \in Seq(RowType)
      BY <1>2, EngineFacts DEF Registries
    <3> HIDE DEF grown, n
    <3> QED BY <1>2, <3>1 DEF Path
  <2> HIDE DEF grown, n
  <2> QED BY <1>1, <2>1, StepsPath, Words, StateNames
<1>4. x \in OpType(n, m)
  <2>1. prev # 0 => row[prev].state \in AllStates
    BY <1>1, RowFacts
  <2>2. pst \in AllStates \cup {"none"} /\ (prev = 0 => pst = "none") /\ prev \in 0..n
    BY <1>1, <2>1
  <2>3. NewOp(v, n) \in OpType(n, m)
    <3>1. /\ 0 \in 0..MaxStarts /\ 0 \in 0..n /\ 0 \in 0..m /\ n \in 1..n
          /\ "none" \in AllStates \cup {"none"} /\ "FETCHING" \in AllStates /\ "fetch" \in PCs
      BY <1>1, LifecycleAssumption, StateNames DEF PCs
    <3> HIDE DEF n, m
    <3> QED BY <3>1 DEF NewOp, OpType
  <2> HIDE DEF n, m, pst
  <2> QED BY <2>2, <2>3 DEF OpType
<1>5. Writes(path, Put(o, x) /\ UNCHANGED <<proc, engine>> /\ Stays)
  BY DEF Candidate
<1>6. ~Doomed(o)
  BY <1>1, Lens DEF Doomed
<1> HIDE DEF n, m, o, x, path
<1>7. row' \in Registries(n) /\ (Dies => Types' /\ CancelStep)
  BY <1>1, <1>3, <1>5, WritesTyped DEF Writes
<1>8. ASSUME Put(o, x) /\ UNCHANGED <<proc, engine>> /\ Stays
      PROVE  Types' /\ CancelStep
  BY <1>1, <1>4, <1>6, <1>7, <1>8, QuietTyped DEF m
<1> QED BY <1>5, <1>7, <1>8 DEF Writes

LEMMA InstallTyped ==
    ASSUME Types, NEW v \in Versions, CommitInstall(v) \/ CommitUpdate(v)
    PROVE  Types' /\ CancelStep
<1>1. 0 \in 0..Len(row) /\ Active(row) \in 0..Len(row)
  BY Lens, EngineFacts, ActiveIn
<1> QED BY <1>1, CandidateTyped DEF CommitInstall, CommitUpdate

LEMMA RollbackTyped ==
    ASSUME Types, NEW v \in Versions, CommitRollback(v)
    PROVE  Types' /\ CancelStep
<1> DEFINE n == Len(row)
           m == Len(proc)
           o == Len(op) + 1
           a == Active(row)
           g == Retained(row, v)
           x == [Copied(NewOp(v, g), g) EXCEPT !.st = "FETCHING", !.prev = a, !.pst = row[a].state]
           y == [x EXCEPT !.st = "PLANNED"]
           path == Steps(<<row>>, g, <<"PLANNED", "FETCHING">>)
           planned == Steps(<<row>>, g, <<"PLANNED">>)
<1>1. n \in Nat /\ m \in Nat /\ Len(op) \in Nat /\ n <= MaxGens /\ n <= n
      /\ up /\ Len(op) < MaxOps[boots] /\ o \in 1..(Len(op) + 1)
  BY Lens DEF CommitRollback, Serving
<1>2. a \in 1..n /\ g \in 1..n
  <2>1. a \in 0..n /\ g \in 0..n
    BY <1>1, EngineFacts, ActiveIn, RetainedIn
  <2>2. a # 0 /\ g # 0
    BY DEF CommitRollback
  <2> QED BY <2>1, <2>2
<1>3. Path(path, n) /\ Path(planned, n)
  <2> HIDE DEF g
  <2> QED BY <1>1, RowPath, StepsPath, Words, StateNames
<1>4. x \in OpType(n, m) /\ y \in OpType(n, m)
  <2>1. Copied(NewOp(v, g), g) \in OpType(n, m)
    <3> HIDE DEF g
    <3> QED BY <1>2, FreshOp DEF n, m
  <2>2. row[a].state \in AllStates
    BY <1>2, RowFacts
  <2> DEFINE c == Copied(NewOp(v, g), g)
  <2>3. x \in OpType(n, m)
    <3>1. a \in 0..n /\ a # 0
      BY <1>1, <1>2
    <3> HIDE DEF c, a, n, m
    <3> QED BY <3>1, <2>1, <2>2, StateNames DEF OpType
  <2> HIDE DEF x
  <2> QED BY <1>1, <2>3, OpSet, StateNames
<1>5. \/ Writes(path, Put(o, x) /\ UNCHANGED <<proc, engine>> /\ Stays)
      \/ Fail(o, y, planned)
  BY DEF CommitRollback
<1>6. ~Doomed(o)
  BY <1>1, Lens DEF Doomed
<1> HIDE DEF n, m, o, x, y, path, planned
<1>7. CASE Fail(o, y, planned)
  BY <1>1, <1>3, <1>4, <1>6, <1>7, FailTyped DEF n, m
<1>8. CASE Writes(path, Put(o, x) /\ UNCHANGED <<proc, engine>> /\ Stays)
  <2>1. row' \in Registries(n) /\ (Dies => Types' /\ CancelStep)
    BY <1>1, <1>3, <1>8, WritesTyped DEF Writes
  <2>2. ASSUME Put(o, x) /\ UNCHANGED <<proc, engine>> /\ Stays
        PROVE  Types' /\ CancelStep
    BY <1>1, <1>4, <1>6, <2>1, <2>2, QuietTyped DEF n, m
  <2> QED BY <1>8, <2>1, <2>2 DEF Writes
<1> QED BY <1>5, <1>7, <1>8

LEMMA UninstallTyped ==
    ASSUME Types, CommitUninstall
    PROVE  Types' /\ CancelStep
<1> DEFINE n == Len(row)
           m == Len(proc)
           o == Len(op) + 1
           a == Active(row)
           stopped == Find(row, LAMBDA x : x.state = "STOPPED_RETAINED")
           present == Find(row, LAMBDA x : x.state # "REMOVED")
           g == IF a # 0 THEN a ELSE stopped
           v == IF a # 0 THEN row[a].version ELSE row[present].version
           x == [Copied(NewOp(v, g), g) EXCEPT !.pc = "remove"]
           drained == Steps(<<row>>, g, <<"DRAINING">>)
           Quiet == UNCHANGED <<proc, engine>> /\ Stays
<1>1. n \in Nat /\ m \in Nat /\ Len(op) \in Nat /\ n <= MaxGens /\ n <= n
      /\ up /\ Len(op) < MaxOps[boots] /\ o \in 1..(Len(op) + 1) /\ row \in Registries(n)
  BY Lens, EngineFacts DEF CommitUninstall, Serving
<1>2. g \in 1..n
  <2>1. a \in 0..n /\ stopped \in 0..n
    BY <1>1, ActiveIn, StoppedIn
  <2>2. g # 0
    BY DEF CommitUninstall
  <2> HIDE DEF a, stopped
  <2> QED BY <2>1, <2>2
<1>3. v \in Versions
  <2>1. CASE a # 0
    <3> HIDE DEF a
    <3> QED BY <1>2, <2>1, RowFacts
  <2>2. CASE a = 0
    <3>1. stopped \in 1..n /\ row[stopped].state = "STOPPED_RETAINED"
      <4>1. stopped \in 0..n /\ (stopped # 0 => row[stopped].state = "STOPPED_RETAINED")
        BY <1>1, StoppedIn
      <4> HIDE DEF stopped, a
      <4> QED BY <1>2, <2>2, <4>1
    <3>2. present \in 1..n
      <4>1. \E h \in 1..n : row[h].state # "REMOVED"
        <5> HIDE DEF stopped
        <5> QED BY <3>1
      <4> QED BY <1>1, <4>1, PresentIn
    <3> HIDE DEF a, present, g
    <3> QED BY <2>2, <3>2, RowFacts
  <2> QED BY <2>1, <2>2
<1>4. x \in OpType(n, m) /\ x.pc = "remove"
  <2>1. Copied(NewOp(v, g), g) \in OpType(n, m)
    <3> HIDE DEF g, v
    <3> QED BY <1>2, <1>3, FreshOp DEF n, m
  <2> DEFINE c == Copied(NewOp(v, g), g)
  <2>2. "remove" \in PCs
    BY DEF PCs
  <2> HIDE DEF c, n, m
  <2>3. x.pc = "remove"
    BY <2>1 DEF OpType
  <2> QED BY <1>1, <2>1, <2>2, <2>3, OpSet
<1>5. Path(<<row>>, n) /\ Path(drained, n) /\ Path(AfterStop(<<row>>, x), n)
  <2>1. Path(<<row>>, n)
    BY RowPath
  <2>2. Path(drained, n)
    <3> HIDE DEF g, n
    <3> QED BY <1>1, <2>1, StepsPath, Words, StateNames
  <2>3. Path(AfterStop(<<row>>, x), n)
    <3> HIDE DEF x, n
    <3> QED BY <1>1, <1>4, <2>1, AfterStopPath
  <2> QED BY <2>1, <2>2, <2>3
<1>6. ~Doomed(o)
  BY <1>1, Lens DEF Doomed
<1>7. \/ StopChild(o, x, g, drained, probe)
      \/ Writes(AfterStop(<<row>>, x), Put(o, Ended(x)) /\ UNCHANGED <<proc, engine>> /\ Stays)
      \/ Fail(o, x, <<row>>)
  BY DEF CommitUninstall
<1> HIDE DEF n, m, o, a, stopped, present, g, v, x, drained
<1>8. CASE StopChild(o, x, g, drained, probe)
  BY <1>1, <1>2, <1>4, <1>5, <1>6, <1>8, StopChildTyped, EngineFacts DEF n, m
<1>9. CASE Fail(o, x, <<row>>)
  BY <1>1, <1>4, <1>5, <1>6, <1>9, FailTyped DEF n, m
<1>10. CASE Writes(AfterStop(<<row>>, x), Put(o, Ended(x)) /\ UNCHANGED <<proc, engine>> /\ Stays)
  <2>1. row' \in Registries(n) /\ (Dies => Types' /\ CancelStep)
    BY <1>1, <1>5, <1>10, WritesTyped DEF Writes
  <2>2. ASSUME Put(o, Ended(x)) /\ UNCHANGED <<proc, engine>> /\ Stays
        PROVE  Types' /\ CancelStep
    <3>1. Ended(x) \in OpType(n, m)
      BY <1>1, <1>4, OpSet
    <3> QED BY <1>1, <1>6, <2>1, <2>2, <3>1, QuietTyped DEF n, m
  <2> QED BY <1>10, <2>1, <2>2 DEF Writes
<1> QED BY <1>7, <1>8, <1>9, <1>10

LEMMA CancelTyped ==
    ASSUME Types, NEW o, Cancel(o)
    PROVE  Types' /\ CancelStep
<1> DEFINE b == op[o].pc # "done"
           x == [op[o] EXCEPT !.cancel = b]
<1>1. o \in 1..Len(op) /\ Len(op) \in Nat /\ Len(row) \in Nat /\ Len(proc) \in Nat
      /\ Len(row) <= MaxGens /\ Len(row) <= Len(row) /\ up /\ op[o] \in OpType(Len(row), Len(proc))
      /\ o \in 1..(Len(op) + 1) /\ o # Len(op) + 1
  BY Lens DEF Cancel
<1>2. x \in OpType(Len(row), Len(proc)) /\ x.pc = op[o].pc
  <2>1. x.pc = op[o].pc
    BY <1>1 DEF OpType
  <2>2. b \in BOOLEAN
    OBVIOUS
  <2> HIDE DEF b
  <2> QED BY <1>1, <2>1, <2>2, OpSet
<1>3. Put(o, x)
  BY <1>1, Lens DEF Cancel, Put
<1>4. row' \in Registries(Len(row))
  BY <1>1, EngineFacts, RowSet, StateNames DEF Cancel
<1>5. Doomed(o) => x.pc \in {"fetch", "done"}
  BY <1>2 DEF Doomed
<1>6. UNCHANGED <<proc, engine>> /\ Stays
  BY DEF Cancel
<1> HIDE DEF x
<1> QED BY <1>1, <1>2, <1>3, <1>4, <1>5, <1>6, QuietTyped

LEMMA PathPrefix ==
    ASSUME NEW n \in Nat, NEW path, Path(path, n), NEW k \in 2..Len(path)
    PROVE  Path(SubSeq(path, 1, k), n)
<1>1. \A i \in 1..k : path[i] \in Seq(RowType)
  BY DEF Path
<1>2. /\ SubSeq(path, 1, k) \in Seq(Seq(RowType)) /\ Len(SubSeq(path, 1, k)) = k
      /\ \A i \in 1..k : SubSeq(path, 1, k)[i] = path[i]
  BY <1>1, SubSeqProperties
<1> QED BY <1>2 DEF Path

LEMMA StepsLen ==
    ASSUME NEW n \in Nat, NEW path, Path(path, n), NEW g, NEW ts \in Seq(AllStates)
    PROVE  Len(Steps(path, g, ts)) = Len(path) + Len(ts)
<1> DEFINE more == Moves(Last(path), g, ts)
<1>1. Last(path) \in Registries(n) /\ Registries(n) \subseteq Seq(RowType)
  BY DEF Path, Last, Registries
<1>2. more \in Seq(Seq(RowType))
  BY <1>1, MovesIn, SeqMonotonic
<1>3. Len(more) = Len(ts)
  BY DEF Moves
<1>4. Steps(path, g, ts) = path \o more
  BY DEF Steps, Then
<1> HIDE DEF more
<1>5. path \in Seq(Seq(RowType))
  BY DEF Path
<1>6. Len(path \o more) = Len(path) + Len(more)
  BY <1>2, <1>5, ConcatProperties, Zenon
<1> QED BY <1>3, <1>4, <1>6

LEMMA SpawnedLen ==
    ASSUME NEW n \in Nat, NEW path, Path(path, n), NEW x, x.starts \in 0..MaxStarts
    PROVE  Len(Spawned(path, x)) = Len(path) + 2
<1> DEFINE c1 == [Last(path) EXCEPT ![x.gen].starts = OneMore(x.starts)]
           c2 == [Last(path) EXCEPT ![x.gen].starts = OneMore(x.starts), ![x.gen].pid = TRUE]
<1>1. Last(path) \in Registries(n) /\ Registries(n) \subseteq Seq(RowType)
  BY DEF Path, Last, Registries
<1>2. OneMore(x.starts) \in 0..MaxStarts
  BY LifecycleAssumption DEF OneMore
<1>3. c1 \in Seq(RowType) /\ c2 \in Seq(RowType)
  BY <1>1, <1>2, RowSet
<1>4. Spawned(path, x) = path \o <<c1, c2>>
  BY DEF Spawned, Then
<1> HIDE DEF c1, c2
<1>5. <<c1, c2>> \in Seq(Seq(RowType)) /\ Len(<<c1, c2>>) = 2
  BY <1>3
<1>6. path \in Seq(Seq(RowType))
  BY DEF Path
<1>7. Len(path \o <<c1, c2>>) = Len(path) + Len(<<c1, c2>>)
  BY <1>5, <1>6, ConcatProperties, Zenon
<1> QED BY <1>4, <1>5, <1>7

LEMMA OpFacts ==
    ASSUME Types, NEW o \in DOMAIN op
    PROVE  /\ op[o] \in OpType(Len(row), Len(proc)) /\ o \in 1..(Len(op) + 1) /\ o # Len(op) + 1
           /\ op[o].gen \in 1..Len(row) /\ op[o].starts \in 0..MaxStarts /\ op[o].proc \in 0..Len(proc)
           /\ op[o].prev \in 0..Len(row) /\ (op[o].prev = 0 => op[o].pst = "none")
           /\ Len(row) \in Nat /\ Len(row) <= MaxGens /\ Len(row) <= Len(row) /\ Len(proc) \in Nat
<1>1. op[o] \in OpType(Len(row), Len(proc)) /\ o \in 1..Len(op) /\ Len(op) \in Nat
  BY Lens
<1> QED BY <1>1, Lens DEF OpType

-----------------------------------------------------------------------------
(* The candidate path. *)

LEMMA FetchFailsTyped ==
    ASSUME Types, NEW o, FetchFails(o)
    PROVE  Types' /\ CancelStep
<1> DEFINE names == <<"FETCHING", "VERIFIED", "STAGED">>
           through(k) == SubSeq(<<"VERIFIED", "STAGED">>, 1, k)
<1>1. up /\ o \in DOMAIN op
  BY DEF FetchFails, Awaits
<1>2. PICK k \in 0..2 :
        Fail(o, [op[o] EXCEPT !.st = names[k + 1]], Steps(<<row>>, op[o].gen, through(k)))
  BY DEF FetchFails
<1>3. names[k + 1] \in CANCELABLE /\ names[k + 1] \in AllStates
  BY StateNames DEF CANCELABLE
<1>4. through(k) \in Seq(AllStates)
  <2>1. \A i \in 1..k : <<"VERIFIED", "STAGED">>[i] \in AllStates
    BY StateNames
  <2> QED BY <2>1, SubSeqProperties
<1> DEFINE x == [op[o] EXCEPT !.st = names[k + 1]]
           path == Steps(<<row>>, op[o].gen, through(k))
<1>5. x \in OpType(Len(row), Len(proc)) /\ x.st \in CANCELABLE
  <2> HIDE DEF names
  <2>1. x \in OpType(Len(row), Len(proc))
    BY <1>1, <1>3, OpFacts, OpSet
  <2>2. x.st = names[k + 1]
    BY <1>1, OpFacts DEF OpType
  <2> QED BY <1>3, <2>1, <2>2
<1>6. Path(path, Len(row))
  <2> HIDE DEF through
  <2> QED BY <1>1, <1>4, OpFacts, RowPath, StepsPath
<1> HIDE DEF x, path, names, through
<1>7. Fail(o, x, path)
  BY <1>2 DEF x, path
<1> QED BY <1>1, <1>5, <1>6, <1>7, OpFacts, FailTyped

LEMMA SpawnTyped ==
    ASSUME Types, up, NEW o \in DOMAIN op, NEW y \in OpType(Len(row), Len(proc) + 1),
           Doomed(o) => y.pc \in {"fetch", "done"},
           row' \in Registries(Len(row)), Put(o, y),
           NEW procs \in Seq(ProcType(Len(row), Len(op))), Len(procs) = Len(proc),
           proc' = Append(procs, Process(y.gen, o)),
           client' = [client EXCEPT ![y.gen] = Len(proc) + 1],
           UNCHANGED <<probe, draining>>, Stays
    PROVE  Types' /\ CancelStep
<1> DEFINE n == Len(row)
           m == Len(proc) + 1
<1>1. /\ n \in Nat /\ Len(proc) \in Nat /\ m \in Nat /\ Len(op) \in Nat /\ n <= MaxGens /\ n <= n
      /\ o \in 1..Len(op)
  BY Lens
<1>2. Process(y.gen, o) \in ProcType(n, Len(op))
  BY <1>1 DEF Process, ProcType, OpType
<1>3. proc' \in Seq(ProcType(n, Len(op))) /\ Len(proc') = m
  BY <1>2, AppendProperties
<1>5. client' \in [Gens -> 0..m] /\ probe' \in [Gens -> 0..Len(op)] /\ draining' \subseteq 1..n
  <2>1. client \in [Gens -> 0..m]
    <3>1. 0..Len(proc) \subseteq 0..m
      BY <1>1
    <3> QED BY <3>1, EngineFacts
  <2>2. Len(proc) + 1 \in 0..m
    BY <1>1
  <2>3. client' \in [Gens -> 0..m]
    BY <2>1, <2>2
  <2> QED BY <2>3, EngineFacts
<1>6. o \in 1..(Len(op) + 1) /\ o # Len(op) + 1 /\ Len(proc) <= Len(proc')
  BY <1>1, <1>3
<1> HIDE DEF n, m
<1>7. y \in OpType(n, Len(proc')) /\ client' \in [Gens -> 0..Len(proc')]
  BY <1>3, <1>5 DEF n, m
<1>8. Len(row) <= n /\ row' \in Registries(n)
  BY <1>1 DEF n
<1> QED BY <1>1, <1>3, <1>5, <1>6, <1>7, <1>8, StepTyped

LEMMA FetchReturnsTyped ==
    ASSUME Types, NEW o, FetchReturns(o)
    PROVE  Types' /\ CancelStep
<1> DEFINE n == Len(row)
           x == op[o]
           path == Steps(<<row>>, x.gen, <<"VERIFIED", "STAGED", "STARTING">>)
           y == [x EXCEPT !.st = "STARTING", !.starts = OneMore(@)]
           spawned == Spawned(path, x)
           q == Len(proc) + 1
           rest == /\ Put(o, [y EXCEPT !.pc = "start", !.proc = Len(proc) + 1])
                   /\ proc' = Append(proc, Process(x.gen, o))
                   /\ client' = [client EXCEPT ![x.gen] = Len(proc) + 1]
                   /\ UNCHANGED <<probe, draining>> /\ Stays
<1>1. up /\ o \in DOMAIN op /\ ~Doomed(o)
  BY DEF FetchReturns, Awaits, CheckCancel, Doomed
<1>2. n \in Nat /\ n <= MaxGens /\ x \in OpType(n, Len(proc)) /\ x.starts \in 0..MaxStarts
  BY <1>1, OpFacts
<1>3. y \in OpType(n, Len(proc)) /\ y.gen = x.gen
  <2>1. y.gen = x.gen
    BY <1>2 DEF OpType
  <2> HIDE DEF x, n
  <2> QED BY <1>2, <2>1, OpSet, StateNames, Lens
<1>4. Path(path, n) /\ Path(spawned, n) /\ Path(SubSeq(spawned, 1, 5), n)
  <2>1. Path(path, n)
    <3> HIDE DEF x
    <3> QED BY <1>2, RowPath, StepsPath, Words, StateNames
  <2>2. Path(spawned, n)
    <3> HIDE DEF x, path, n
    <3> QED BY <1>2, <2>1, SpawnedPath
  <2>3. Len(path) = 4
    <3> DEFINE ts == <<"VERIFIED", "STAGED", "STARTING">>
               g == x.gen
    <3>1. ts \in Seq(AllStates) /\ Len(ts) = 3
      BY Words, StateNames
    <3> DEFINE base == <<row>>
    <3>4. Path(base, n) /\ Len(base) = 1
      BY RowPath
    <3>3. path = Steps(base, g, ts)
      BY DEF ts, g
    <3> HIDE DEF x, ts, g, base, n, path
    <3>2. Len(Steps(base, g, ts)) = Len(base) + Len(ts)
      BY <1>2, <3>1, <3>4, StepsLen
    <3> QED BY <3>1, <3>2, <3>3, <3>4
  <2>4. Len(spawned) = 6
    <3> HIDE DEF x, path, n
    <3>1. Len(spawned) = Len(path) + 2
      BY <1>2, <2>1, SpawnedLen
    <3> HIDE DEF spawned
    <3> QED BY <2>3, <3>1
  <2>5. 5 \in 2..Len(spawned)
    <3> HIDE DEF spawned
    <3> QED BY <2>4
  <2> HIDE DEF spawned, n
  <2> QED BY <1>2, <2>1, <2>2, <2>5, PathPrefix
<1>5. Writes(spawned, rest) \/ Fail(o, y, SubSeq(spawned, 1, 5))
  BY DEF FetchReturns
<1>6. CASE Fail(o, y, SubSeq(spawned, 1, 5))
  <2> HIDE DEF y, spawned
  <2> QED BY <1>1, <1>3, <1>4, <1>6, OpFacts, FailTyped
<1>7. CASE Writes(spawned, rest)
  <2>1. row' \in Registries(n) /\ (Dies => Types' /\ CancelStep)
    <3> HIDE DEF spawned, n
    <3> QED BY <1>1, <1>2, <1>4, <1>7, WritesTyped DEF Writes
  <2>2. ASSUME rest PROVE Types' /\ CancelStep
    <3>1. /\ Put(o, [y EXCEPT !.pc = "start", !.proc = Len(proc) + 1])
          /\ proc' = Append(proc, Process(y.gen, o))
          /\ client' = [client EXCEPT ![y.gen] = Len(proc) + 1]
          /\ UNCHANGED <<probe, draining>> /\ Stays
      BY <1>3, <2>2
    <3>2. proc \in Seq(ProcType(Len(row), Len(op)))
      BY EngineFacts
    <3> DEFINE z == [y EXCEPT !.pc = "start", !.proc = q]
    <3> HIDE DEF y
    <3>3. z \in OpType(Len(row), Len(proc) + 1) /\ z.gen = y.gen
      <4>1. y \in OpType(Len(row), q) /\ q \in 0..q /\ q \in Nat /\ "start" \in PCs
        BY <1>2, <1>3, Wider DEF PCs
      <4>2. z.gen = y.gen
        BY <4>1 DEF OpType
      <4> HIDE DEF q, n
      <4>3. z \in OpType(Len(row), q)
        BY <1>2, <4>1, OpSet DEF n
      <4> QED BY <4>2, <4>3 DEF q
    <3>4. /\ Put(o, z) /\ proc' = Append(proc, Process(z.gen, o))
          /\ client' = [client EXCEPT ![z.gen] = Len(proc) + 1]
      BY <3>1, <3>3
    <3> HIDE DEF z
    <3> QED BY <1>1, <2>1, <3>1, <3>2, <3>3, <3>4, SpawnTyped
  <2> QED BY <1>7, <2>1, <2>2 DEF Writes
<1> QED BY <1>5, <1>6, <1>7

\* A sequence of processes is a function on its indices.
LEMMA ProcsAre ==
    ASSUME NEW n, NEW m, NEW k \in Nat, NEW ps
    PROVE  ps \in Seq(ProcType(n, m)) /\ Len(ps) = k <=> ps \in [1..k -> ProcType(n, m)]
OBVIOUS

LEMMA ProcEdit ==
    ASSUME Types, NEW p, NEW s \in {"alive", "term", "gone"}, proc' = [proc EXCEPT ![p].st = s]
    PROVE  proc' \in Seq(ProcType(Len(row), Len(op))) /\ Len(proc') = Len(proc)
<1>1. Len(proc) \in Nat /\ proc \in [1..Len(proc) -> ProcType(Len(row), Len(op))]
  BY Lens, EngineFacts, ProcsAre
<1>2. proc' \in [1..Len(proc) -> ProcType(Len(row), Len(op))]
  BY <1>1 DEF ProcType
<1> QED BY <1>1, <1>2, ProcsAre

\* A step of an operation or a restart that adds no process.
LEMMA EngineStep ==
    ASSUME Types, up, row' \in Registries(Len(row)), NEW o \in DOMAIN op,
           NEW y \in OpType(Len(row), Len(proc)), Put(o, y), Doomed(o) => y.pc \in {"fetch", "done"},
           proc' \in Seq(ProcType(Len(row), Len(op))), Len(proc') = Len(proc),
           client' \in [Gens -> 0..Len(proc)], probe' \in [Gens -> 0..Len(op)],
           draining' \subseteq 1..Len(row), Stays
    PROVE  Types' /\ CancelStep
<1>1. /\ Len(proc) <= Len(proc') /\ y \in OpType(Len(row), Len(proc'))
      /\ client' \in [Gens -> 0..Len(proc')]
  BY Lens
<1> QED BY <1>1, OpFacts, StepTyped

LEMMA StartReturnsTyped ==
    ASSUME Types, NEW o, StartReturns(o)
    PROVE  Types' /\ CancelStep
<1> DEFINE y == [op[o] EXCEPT !.pc = "health", !.st = "HEALTHCHECKING"]
<1>1. up /\ o \in DOMAIN op /\ ~Doomed(o)
  BY DEF StartReturns, Awaits, Doomed
<1>2. y \in OpType(Len(row), Len(proc))
  BY <1>1, OpFacts, OpSet, StateNames DEF PCs
<1>3. Put(o, y) /\ UNCHANGED <<proc, engine>> /\ Stays
  BY DEF StartReturns
<1>4. row' \in Registries(Len(row))
  BY Lens, EngineFacts, RowSet, StateNames DEF StartReturns
<1> HIDE DEF y
<1> QED BY <1>1, <1>2, <1>3, <1>4, OpFacts, QuietTyped

LEMMA StartFailsTyped ==
    ASSUME Types, NEW o, StartFails(o)
    PROVE  Types' /\ CancelStep
<1> DEFINE x == op[o]
           path == Steps(<<row>>, x.gen, <<"DRAINING", "STOPPED_RETAINED">>)
           y == Ended([x EXCEPT !.st = "STOPPED_RETAINED"])
           rest(s) == /\ Put(o, Ended([x EXCEPT !.st = "STOPPED_RETAINED"]))
                      /\ proc' = [proc EXCEPT ![x.proc].st = s]
                      /\ client' = [client EXCEPT ![x.gen] = 0]
                      /\ probe' = [probe EXCEPT ![x.gen] = 0]
                      /\ UNCHANGED draining /\ Stays
<1>1. up /\ o \in DOMAIN op /\ ~Doomed(o)
  BY DEF StartFails, Awaits, Doomed
<1>2. PICK s \in {"term", "gone"} : Writes(path, rest(s))
  BY DEF StartFails
<1>3. y \in OpType(Len(row), Len(proc))
  <2> DEFINE z == [x EXCEPT !.st = "STOPPED_RETAINED"]
  <2>1. z \in OpType(Len(row), Len(proc))
    BY <1>1, OpFacts, OpSet, StateNames
  <2>2. y = Ended(z)
    OBVIOUS
  <2> HIDE DEF z, y
  <2> QED BY <2>1, <2>2, Lens, OpSet
<1>4. Path(path, Len(row))
  <2> HIDE DEF x
  <2> QED BY Lens, RowPath, StepsPath, Words, StateNames
<1>5. row' \in Registries(Len(row)) /\ (Dies => Types' /\ CancelStep)
  <2> HIDE DEF path
  <2> QED BY <1>1, <1>2, <1>4, Lens, WritesTyped DEF Writes
<1>6. ASSUME rest(s) PROVE Types' /\ CancelStep
  <2>1. proc' \in Seq(ProcType(Len(row), Len(op))) /\ Len(proc') = Len(proc)
    <3>1. proc' = [proc EXCEPT ![x.proc].st = s] /\ s \in {"alive", "term", "gone"}
      BY <1>6
    <3> HIDE DEF x
    <3> QED BY <3>1, ProcEdit
  <2>2. client' \in [Gens -> 0..Len(proc)] /\ probe' \in [Gens -> 0..Len(op)] /\ draining' \subseteq 1..Len(row)
    BY <1>6, EngineFacts
  <2>3. Put(o, y) /\ Stays
    BY <1>6
  <2> HIDE DEF y
  <2> QED BY <1>1, <1>3, <1>5, <2>1, <2>2, <2>3, EngineStep
<1> QED BY <1>2, <1>5, <1>6 DEF Writes

LEMMA HealthOkTyped ==
    ASSUME Types, NEW o, HealthOk(o)
    PROVE  Types' /\ CancelStep
<1> DEFINE x == op[o]
           path == Activation(row, x.prev, x)
           y == [Activated(x) EXCEPT !.pc = "drain"]
           drained == Steps(path, x.prev, <<"DRAINING">>)
           rest == /\ Put(o, Ended(Activated(x)))
                   /\ probe' = Probes(x.gen, o)
                   /\ UNCHANGED <<proc, client, draining>> /\ Stays
<1>1. up /\ o \in DOMAIN op /\ ~Doomed(o)
  BY DEF HealthOk, Awaits, Doomed
<1>2. x \in OpType(Len(row), Len(proc)) /\ Len(row) \in Nat /\ Len(row) <= MaxGens /\ Len(proc) \in Nat
  BY <1>1, OpFacts
<1>3. Activated(x) \in OpType(Len(row), Len(proc))
  <2> HIDE DEF x
  <2> QED BY <1>2, OpSet
<1>4. /\ y \in OpType(Len(row), Len(proc)) /\ y.pc = "drain"
      /\ Ended(Activated(x)) \in OpType(Len(row), Len(proc)) /\ Ended(Activated(x)).pc = "done"
  <2> DEFINE z == Activated(x)
  <2> HIDE DEF z
  <2>1. z \in OpType(Len(row), Len(proc))
    BY <1>3 DEF z
  <2>2. "drain" \in PCs
    BY DEF PCs
  <2>3. [z EXCEPT !.pc = "drain"].pc = "drain"
    BY <2>1 DEF OpType
  <2> QED BY <1>2, <2>1, <2>2, <2>3, OpSet DEF z
<1>5. Path(path, Len(row)) /\ Path(drained, Len(row)) /\ Path(<<row>>, Len(row))
  <2>1. Path(path, Len(row))
    <3> HIDE DEF x
    <3> QED BY <1>2, EngineFacts, ActivationPath
  <2> HIDE DEF path, x
  <2> QED BY <1>2, <2>1, RowPath, StepsPath, Words, StateNames
<1>6. Probes(x.gen, o) \in [Gens -> 0..Len(op)]
  <2>1. o \in 0..Len(op)
    BY <1>1, Lens
  <2> QED BY <2>1, EngineFacts DEF Probes
<1>7. \/ Fail(o, x, <<row>>)
      \/ x.prev # 0 /\ StopChild(o, y, x.prev, drained, Probes(x.gen, o))
      \/ Writes(path, rest)
  <2>1. x.pst \in {"READY", "DEGRADED"} => x.prev # 0
    BY <1>1, OpFacts
  <2> QED BY <2>1 DEF HealthOk
<1>8. CASE Fail(o, x, <<row>>)
  <2> HIDE DEF x
  <2> QED BY <1>1, <1>2, <1>5, <1>8, OpFacts, FailTyped
<1>9. CASE x.prev # 0 /\ StopChild(o, y, x.prev, drained, Probes(x.gen, o))
  <2>1. x.prev \in 1..Len(row)
    BY <1>1, <1>9, OpFacts
  <2> HIDE DEF x, y, drained
  <2> QED BY <1>1, <1>4, <1>5, <1>6, <1>9, <2>1, OpFacts, StopChildTyped
<1>10. CASE Writes(path, rest)
  <2>1. row' \in Registries(Len(row)) /\ (Dies => Types' /\ CancelStep)
    <3> HIDE DEF path
    <3> QED BY <1>1, <1>2, <1>5, <1>10, WritesTyped DEF Writes
  <2>2. ASSUME rest PROVE Types' /\ CancelStep
    <3>1. /\ proc' \in Seq(ProcType(Len(row), Len(op))) /\ Len(proc') = Len(proc)
          /\ client' \in [Gens -> 0..Len(proc)] /\ probe' \in [Gens -> 0..Len(op)]
          /\ draining' \subseteq 1..Len(row)
      BY <1>6, <2>2, EngineFacts
    <3>2. Put(o, Ended(Activated(x))) /\ Stays
      BY <2>2
    <3> HIDE DEF x
    <3> QED BY <1>1, <1>4, <2>1, <3>1, <3>2, EngineStep
  <2> QED BY <1>10, <2>1, <2>2 DEF Writes
<1> QED BY <1>7, <1>8, <1>9, <1>10

LEMMA HealthFailsTyped ==
    ASSUME Types, NEW o, HealthFails(o)
    PROVE  Types' /\ CancelStep
<1>1. up /\ o \in DOMAIN op /\ ~Doomed(o) /\ Fail(o, op[o], <<row>>)
  BY DEF HealthFails, Awaits, Doomed
<1> QED BY <1>1, OpFacts, RowPath, FailTyped

LEMMA DroppedPath ==
    ASSUME Types, NEW g
    PROVE  Path(<<row, [row EXCEPT ![g].pid = FALSE]>>, Len(row))
<1> DEFINE r == [row EXCEPT ![g].pid = FALSE]
<1>1. r \in Registries(Len(row)) /\ row \in Registries(Len(row)) /\ Len(row) \in Nat
  BY Lens, EngineFacts, RowSet
<1> HIDE DEF r
<1>2. row \in Seq(RowType) /\ r \in Seq(RowType)
  BY <1>1 DEF Registries
<1>3. Path(<<row, r>>, Len(row))
  BY <1>1, <1>2 DEF Path
<1> QED BY <1>3 DEF r

LEMMA ReleasedTyped ==
    ASSUME Types, up, NEW o \in DOMAIN op, ~Doomed(o), row' \in Registries(Len(row)),
           NEW y \in OpType(Len(row), Len(proc)), Put(o, y),
           NEW g, NEW s \in {"term", "gone"}, Released(o, g, s)
    PROVE  Types' /\ CancelStep
<1>1. proc' = [proc EXCEPT ![op[o].proc].st = s] /\ s \in {"alive", "term", "gone"}
  BY DEF Released
<1>2. proc' \in Seq(ProcType(Len(row), Len(op))) /\ Len(proc') = Len(proc)
  BY <1>1, ProcEdit
<1>3. /\ client' \in [Gens -> 0..Len(proc)] /\ probe' \in [Gens -> 0..Len(op)]
      /\ draining' \subseteq 1..Len(row) /\ Stays
  BY EngineFacts DEF Released
<1> QED BY <1>2, <1>3, EngineStep

LEMMA ProcsOnlyTyped ==
    ASSUME Types, NEW p, NEW s \in {"alive", "term", "gone"},
           UNCHANGED <<row, op, client, probe, draining, closed, up, boots>>,
           proc' = [proc EXCEPT ![p].st = s]
    PROVE  Types' /\ CancelStep
<1>1. proc' \in Seq(ProcType(Len(row), Len(op))) /\ Len(proc') = Len(proc)
  BY ProcEdit
<1>2. RowsTyped' /\ OpsTyped' /\ ProcsTyped' /\ EngineTyped' /\ DaemonTyped'
  BY <1>1 DEF Types, RowsTyped, OpsTyped, ProcsTyped, EngineTyped, DaemonTyped
<1>3. CancelStep
  BY DEF CancelStep
<1> QED BY <1>2, <1>3 DEF Types

LEMMA StopReturnsTyped ==
    ASSUME Types, NEW o, StopReturns(o)
    PROVE  Types' /\ CancelStep
<1> DEFINE x == op[o]
           g == IF x.pc = "drain" THEN x.prev ELSE x.gen
           dropped == <<row, [row EXCEPT ![g].pid = FALSE]>>
           path == AfterStop(dropped, x)
           y == Ended(Stopped(x))
           rest == Put(o, y) /\ Released(o, g, "term")
<1>1. up /\ o \in DOMAIN op /\ ~Doomed(o) /\ x.pc \in {"abort", "drain", "remove"}
  BY DEF StopReturns, Stops, Doomed
<1>2. y \in OpType(Len(row), Len(proc))
  BY <1>1, OpFacts, OpSet
<1>3. Path(path, Len(row))
  <2>1. Path(dropped, Len(row))
    BY DroppedPath
  <2> HIDE DEF dropped, x
  <2> QED BY <1>1, <2>1, Lens, AfterStopPath
<1>4. Writes(path, rest)
  BY DEF StopReturns
<1>5. row' \in Registries(Len(row)) /\ (Dies => Types' /\ CancelStep)
  <2> HIDE DEF path
  <2> QED BY <1>1, <1>3, <1>4, Lens, WritesTyped DEF Writes
<1>6. ASSUME rest PROVE Types' /\ CancelStep
  <2> HIDE DEF y, g
  <2> QED BY <1>1, <1>2, <1>5, <1>6, ReleasedTyped
<1> QED BY <1>4, <1>5, <1>6 DEF Writes

LEMMA StopFailsTyped ==
    ASSUME Types, NEW o, StopFails(o)
    PROVE  Types' /\ CancelStep
<1> DEFINE x == op[o]
           g == IF x.pc = "drain" THEN x.prev ELSE x.gen
           dropped == <<row, [row EXCEPT ![g].pid = FALSE]>>
           path == AfterFailedStop(dropped, x)
           y == Ended(Failed(x))
           rest(s) == Put(o, y) /\ Released(o, g, s)
<1>1. up /\ o \in DOMAIN op /\ ~Doomed(o)
  BY DEF StopFails, Stops, Doomed
<1>2. y \in OpType(Len(row), Len(proc))
  BY <1>1, OpFacts, OpSet
<1>3. Path(path, Len(row))
  <2>1. Path(dropped, Len(row))
    BY DroppedPath
  <2> HIDE DEF dropped, x
  <2> QED BY <1>1, <2>1, Lens, AfterFailedStopPath
<1>4. PICK s \in {"term", "gone"} : Writes(path, rest(s))
  BY DEF StopFails
<1>5. row' \in Registries(Len(row)) /\ (Dies => Types' /\ CancelStep)
  <2> HIDE DEF path
  <2> QED BY <1>1, <1>3, <1>4, Lens, WritesTyped DEF Writes
<1>6. ASSUME rest(s) PROVE Types' /\ CancelStep
  <2> HIDE DEF y, g
  <2> QED BY <1>1, <1>2, <1>5, <1>6, ReleasedTyped
<1> QED BY <1>4, <1>5, <1>6 DEF Writes

-----------------------------------------------------------------------------
(* Exits, restarts, live probes. *)

LEMMA ExitIgnoredTyped ==
    ASSUME Types, NEW p, ExitIgnored(p)
    PROVE  Types' /\ CancelStep
<1>1. UNCHANGED <<row, op, client, probe, draining, closed, up, boots>>
      /\ proc' = [proc EXCEPT ![p].st = "gone"]
  BY DEF ExitIgnored, engine, Stays
<1> QED BY <1>1, ProcsOnlyTyped

LEMMA ExitCrashTyped ==
    ASSUME Types, NEW p, ExitCrash(p)
    PROVE  Types' /\ CancelStep
<1> DEFINE o == proc[p].obj
           x == op[o]
           g == proc[p].gen
           refused == StartAwaits(p) \/ Restarting(p) # {}
           t(e) == IF e \/ Restarting(p) # {} THEN <<"CRASHED", "QUARANTINED">> ELSE <<"CRASHED">>
           path(e) == Steps(<<row>>, g, t(e))
           y(e) == [IF StartAwaits(p) THEN Ended(x) ELSE x EXCEPT !.st = Last(t(e))]
           procs(e) == [q \in DOMAIN proc |->
                           IF q = p
                           THEN [proc[q] EXCEPT !.st = "gone", !.chain = IF e THEN "none" ELSE "sleep"]
                           ELSE IF q \in Restarting(p) THEN [proc[q] EXCEPT !.chain = "none", !.new = 0]
                           ELSE proc[q]]
           rest(e) == /\ Put(o, y(e))
                      /\ proc' = procs(e)
                      /\ client' = IF refused THEN [client EXCEPT ![g] = 0] ELSE client
                      /\ UNCHANGED <<probe, draining>> /\ Stays
<1>1. up /\ p \in DOMAIN proc
  BY DEF ExitCrash, Exits
<1>2. o \in DOMAIN op /\ Len(op) \in Nat /\ Len(row) \in Nat /\ Len(proc) \in Nat
  BY <1>1, Lens DEF ProcType
<1>3. PICK e \in BOOLEAN : Writes(path(e), rest(e))
  BY DEF ExitCrash
<1>4. t(e) \in Seq(AllStates) /\ Last(t(e)) \in AllStates
  BY StateNames DEF Last
<1>5. y(e) \in OpType(Len(row), Len(proc)) /\ (Doomed(o) => y(e).pc \in {"fetch", "done"})
  <2> DEFINE z == IF StartAwaits(p) THEN Ended(x) ELSE x
             u == Last(t(e))
  <2>1. z \in OpType(Len(row), Len(proc)) /\ (z.pc = "done" \/ z.pc = x.pc)
    BY <1>2, OpFacts, OpSet
  <2>2. y(e) = [z EXCEPT !.st = u] /\ u \in AllStates
    BY <1>4
  <2> HIDE DEF z, u, y
  <2>3. y(e) \in OpType(Len(row), Len(proc)) /\ y(e).pc = z.pc
    <3>1. [z EXCEPT !.st = u].pc = z.pc
      BY <2>1, <2>2 DEF OpType
    <3>2. [z EXCEPT !.st = u] \in OpType(Len(row), Len(proc))
      BY <1>2, <2>1, <2>2, OpSet
    <3> QED BY <2>2, <3>1, <3>2
  <2>4. Doomed(o) => x.pc = "fetch"
    BY DEF Doomed
  <2> QED BY <2>1, <2>3, <2>4
<1>6. Path(path(e), Len(row))
  <2> HIDE DEF t, g
  <2> QED BY <1>2, <1>4, RowPath, StepsPath
<1>7. row' \in Registries(Len(row)) /\ (Dies => Types' /\ CancelStep)
  <2> HIDE DEF path
  <2> QED BY <1>1, <1>3, <1>6, Lens, WritesTyped DEF Writes
<1>8. ASSUME rest(e) PROVE Types' /\ CancelStep
  <2>1. proc' \in Seq(ProcType(Len(row), Len(op))) /\ Len(proc') = Len(proc)
    <3>1. DOMAIN proc = 1..Len(proc) /\ \A q \in 1..Len(proc) : proc[q] \in ProcType(Len(row), Len(op))
      BY Lens
    <3>2. procs(e) \in [1..Len(proc) -> ProcType(Len(row), Len(op))]
      <4> HIDE DEF o
      <4> QED BY <3>1 DEF ProcType
    <3>3. proc' = procs(e)
      BY <1>8
    <3> HIDE DEF procs
    <3> QED BY <1>2, <3>2, <3>3
  <2>2. client' \in [Gens -> 0..Len(proc)] /\ probe' \in [Gens -> 0..Len(op)] /\ draining' \subseteq 1..Len(row)
    BY <1>8, EngineFacts
  <2>3. Put(o, y(e)) /\ Stays
    BY <1>8
  <2> HIDE DEF y, o
  <2> QED BY <1>1, <1>2, <1>5, <1>7, <2>1, <2>2, <2>3, EngineStep
<1> QED BY <1>3, <1>7, <1>8 DEF Writes

LEMMA RestartFailsTyped ==
    ASSUME Types, up, NEW p \in DOMAIN proc,
           NEW procs \in Seq(ProcType(Len(row), Len(op))), Len(procs) = Len(proc),
           NEW clients \in [Gens -> 0..Len(proc)],
           RestartFails(p, procs, clients)
    PROVE  Types' /\ CancelStep
<1> DEFINE o == proc[p].obj
           y == [op[o] EXCEPT !.st = "QUARANTINED"]
<1>1. o \in DOMAIN op /\ Len(op) \in Nat /\ Len(row) \in Nat /\ Len(row) <= MaxGens
  BY Lens DEF ProcType
<1>2. CASE row' = row /\ Dies
  BY <1>1, <1>2, EngineFacts, DiesTyped
<1>3. CASE /\ row' = [row EXCEPT ![proc[p].gen].state = "QUARANTINED"]
           /\ op' = [op EXCEPT ![o].st = "QUARANTINED"]
           /\ proc' = [procs EXCEPT ![p].chain = "none", ![p].new = 0]
           /\ client' = clients
           /\ UNCHANGED <<probe, draining>> /\ Stays
  <2>1. row' \in Registries(Len(row))
    BY <1>1, <1>3, EngineFacts, RowSet, StateNames
  <2>2. Put(o, y)
    BY <1>1, <1>3 DEF Put
  <2>3. y \in OpType(Len(row), Len(proc))
    BY <1>1, OpFacts, OpSet, StateNames
  <2>4. Doomed(o) => y.pc \in {"fetch", "done"}
    <3>1. y.pc = op[o].pc
      BY <1>1, OpFacts DEF OpType
    <3> QED BY <3>1 DEF Doomed
  <2>5. proc' \in Seq(ProcType(Len(row), Len(op))) /\ Len(proc') = Len(proc)
    <3>1. Len(proc) \in Nat /\ procs \in [1..Len(proc) -> ProcType(Len(row), Len(op))]
      BY Lens, ProcsAre
    <3>2. proc' \in [1..Len(proc) -> ProcType(Len(row), Len(op))]
      <4> HIDE DEF o
      <4> QED BY <1>3, <3>1 DEF ProcType
    <3> QED BY <3>1, <3>2, ProcsAre
  <2>6. /\ client' \in [Gens -> 0..Len(proc)] /\ probe' \in [Gens -> 0..Len(op)]
        /\ draining' \subseteq 1..Len(row) /\ Stays
    BY <1>3, EngineFacts
  <2> HIDE DEF o, y
  <2> QED BY <1>1, <2>1, <2>2, <2>3, <2>4, <2>5, <2>6, EngineStep
<1> QED BY <1>2, <1>3 DEF RestartFails

LEMMA RestartWakesTyped ==
    ASSUME Types, NEW p, RestartWakes(p)
    PROVE  Types' /\ CancelStep
<1> DEFINE o == proc[p].obj
           x == op[o]
           q == Len(proc) + 1
           path == Spawned(Steps(<<row>>, x.gen, <<"STARTING">>), x)
           y == [x EXCEPT !.st = "STARTING", !.starts = OneMore(@)]
           procs == [proc EXCEPT ![p].chain = "start", ![p].new = q]
           rest == /\ Put(o, y)
                   /\ proc' = Append(procs, Process(x.gen, o))
                   /\ client' = [client EXCEPT ![x.gen] = q]
                   /\ UNCHANGED <<probe, draining>> /\ Stays
<1>1. up /\ p \in DOMAIN proc
  BY DEF RestartWakes, Chain
<1>2. o \in DOMAIN op /\ Len(op) \in Nat /\ Len(row) \in Nat /\ Len(proc) \in Nat /\ q \in Nat
  BY <1>1, Lens DEF ProcType
<1>3. CASE /\ proc' = [proc EXCEPT ![p].chain = "none", ![p].new = 0]
           /\ UNCHANGED <<row, op, engine>> /\ Stays
  <2>1. proc' \in Seq(ProcType(Len(row), Len(op))) /\ Len(proc') = Len(proc)
    <3>1. proc \in [1..Len(proc) -> ProcType(Len(row), Len(op))]
      BY <1>2, EngineFacts, ProcsAre
    <3>2. proc' \in [1..Len(proc) -> ProcType(Len(row), Len(op))]
      BY <1>3, <3>1 DEF ProcType
    <3> QED BY <1>2, <3>2, ProcsAre
  <2>2. UNCHANGED <<row, op, client, probe, draining, closed, up, boots>>
    BY <1>3 DEF engine, Stays
  <2>3. RowsTyped' /\ OpsTyped' /\ ProcsTyped' /\ EngineTyped' /\ DaemonTyped'
    BY <2>1, <2>2 DEF Types, RowsTyped, OpsTyped, ProcsTyped, EngineTyped, DaemonTyped
  <2>4. CancelStep
    BY <2>2 DEF CancelStep
  <2> QED BY <2>3, <2>4 DEF Types
<1>4. CASE Writes(path, rest) /\ Listed(x.st, "STARTING")
  <2>1. Path(path, Len(row))
    <3> DEFINE started == Steps(<<row>>, x.gen, <<"STARTING">>)
    <3>1. Path(started, Len(row))
      <4> HIDE DEF x
      <4> QED BY <1>2, RowPath, StepsPath, Words, StateNames
    <3>2. x.starts \in 0..MaxStarts
      BY <1>2, OpFacts
    <3> HIDE DEF started, x
    <3> QED BY <1>2, <3>1, <3>2, SpawnedPath DEF started
  <2>2. row' \in Registries(Len(row)) /\ (Dies => Types' /\ CancelStep)
    <3> HIDE DEF path
    <3> QED BY <1>1, <1>4, <2>1, Lens, WritesTyped DEF Writes
  <2>3. ASSUME rest PROVE Types' /\ CancelStep
    <3>1. y \in OpType(Len(row), Len(proc) + 1) /\ y.gen = x.gen /\ y.pc = x.pc
      <4>1. y.gen = x.gen /\ y.pc = x.pc
        BY <1>2, OpFacts DEF OpType
      <4>2. y \in OpType(Len(row), Len(proc))
        BY <1>2, OpFacts, OpSet, StateNames
      <4>3. OpType(Len(row), Len(proc)) \subseteq OpType(Len(row), Len(proc) + 1)
        BY <1>2, Wider
      <4> QED BY <4>1, <4>2, <4>3
    <3>2. procs \in Seq(ProcType(Len(row), Len(op))) /\ Len(procs) = Len(proc)
      <4>1. proc \in [1..Len(proc) -> ProcType(Len(row), Len(op))]
        BY <1>2, EngineFacts, ProcsAre
      <4> HIDE DEF q
      <4>2. procs \in [1..Len(proc) -> ProcType(Len(row), Len(op))]
        BY <1>2, <4>1 DEF ProcType
      <4> HIDE DEF procs
      <4> QED BY <1>2, <4>2, ProcsAre
    <3>3. Doomed(o) => y.pc \in {"fetch", "done"}
      BY <3>1 DEF Doomed
    <3>4. /\ Put(o, y) /\ proc' = Append(procs, Process(y.gen, o))
          /\ client' = [client EXCEPT ![y.gen] = Len(proc) + 1]
          /\ UNCHANGED <<probe, draining>> /\ Stays
      BY <2>3, <3>1
    <3> HIDE DEF o, y, procs
    <3> QED BY <1>1, <1>2, <2>2, <3>1, <3>2, <3>3, <3>4, SpawnTyped
  <2> QED BY <1>4, <2>2, <2>3 DEF Writes
<1>5. CASE RestartFails(p, proc, client)
  BY <1>1, <1>5, EngineFacts, RestartFailsTyped
<1> QED BY <1>3, <1>4, <1>5 DEF RestartWakes

LEMMA RestartStartedTyped ==
    ASSUME Types, NEW p, RestartStarted(p)
    PROVE  Types' /\ CancelStep
<1> DEFINE o == proc[p].obj
           y == [op[o] EXCEPT !.st = "HEALTHCHECKING"]
<1>1. up /\ p \in DOMAIN proc
  BY DEF RestartStarted, Chain
<1>2. o \in DOMAIN op /\ Len(op) \in Nat /\ Len(row) \in Nat /\ Len(row) <= MaxGens /\ Len(proc) \in Nat
  BY <1>1, Lens DEF ProcType
<1>3. CASE /\ row' = [row EXCEPT ![proc[p].gen].state = "HEALTHCHECKING"]
           /\ op' = [op EXCEPT ![o].st = "HEALTHCHECKING"]
           /\ proc' = [proc EXCEPT ![p].chain = "health"]
           /\ UNCHANGED engine /\ Stays
  <2>1. row' \in Registries(Len(row))
    BY <1>2, <1>3, EngineFacts, RowSet, StateNames
  <2>2. Put(o, y)
    BY <1>2, <1>3 DEF Put
  <2>3. y \in OpType(Len(row), Len(proc))
    BY <1>2, OpFacts, OpSet, StateNames
  <2>4. Doomed(o) => y.pc \in {"fetch", "done"}
    <3>1. y.pc = op[o].pc
      BY <1>2, OpFacts DEF OpType
    <3> QED BY <3>1 DEF Doomed
  <2>5. proc' \in Seq(ProcType(Len(row), Len(op))) /\ Len(proc') = Len(proc)
    <3>1. proc \in [1..Len(proc) -> ProcType(Len(row), Len(op))]
      BY <1>2, EngineFacts, ProcsAre
    <3>2. proc' \in [1..Len(proc) -> ProcType(Len(row), Len(op))]
      <4> HIDE DEF o
      <4> QED BY <1>3, <3>1 DEF ProcType
    <3> QED BY <1>2, <3>2, ProcsAre
  <2>6. /\ client' \in [Gens -> 0..Len(proc)] /\ probe' \in [Gens -> 0..Len(op)]
        /\ draining' \subseteq 1..Len(row) /\ Stays
    BY <1>3, EngineFacts DEF engine
  <2> HIDE DEF o, y
  <2> QED BY <1>1, <1>2, <2>1, <2>2, <2>3, <2>4, <2>5, <2>6, EngineStep
<1>4. CASE RestartFails(p, proc, client)
  BY <1>1, <1>4, EngineFacts, RestartFailsTyped
<1> QED BY <1>3, <1>4 DEF RestartStarted

LEMMA RestartStartFailsTyped ==
    ASSUME Types, NEW p, RestartStartFails(p)
    PROVE  Types' /\ CancelStep
<1>1. up /\ p \in DOMAIN proc /\ Len(proc) \in Nat
  BY Lens DEF RestartStartFails, Chain
<1>2. PICK s \in {"term", "gone"} :
        RestartFails(p, [proc EXCEPT ![proc[p].new].st = s], [client EXCEPT ![proc[p].gen] = 0])
  BY DEF RestartStartFails
<1> DEFINE q == proc[p].new
           g == proc[p].gen
           procs == [proc EXCEPT ![q].st = s]
           clients == [client EXCEPT ![g] = 0]
<1>3. RestartFails(p, procs, clients)
  BY <1>2
<1> HIDE DEF q, g
<1>4. procs \in [1..Len(proc) -> ProcType(Len(row), Len(op))]
  <2>1. proc \in [1..Len(proc) -> ProcType(Len(row), Len(op))]
    BY <1>1, EngineFacts, ProcsAre
  <2> QED BY <2>1 DEF ProcType
<1>5. clients \in [Gens -> 0..Len(proc)]
  BY EngineFacts
<1> HIDE DEF procs, clients
<1>6. procs \in Seq(ProcType(Len(row), Len(op))) /\ Len(procs) = Len(proc)
  BY <1>1, <1>4, ProcsAre
<1> QED BY <1>1, <1>3, <1>5, <1>6, RestartFailsTyped

LEMMA RestartHealthyTyped ==
    ASSUME Types, NEW p, RestartHealthy(p)
    PROVE  Types' /\ CancelStep
<1> DEFINE o == proc[p].obj
           x == op[o]
           path == Activation(row, x.gen, x)
           y == Activated(x)
           rest == /\ Put(o, y)
                   /\ proc' = [proc EXCEPT ![p].chain = "none", ![p].new = 0]
                   /\ probe' = Probes(x.gen, o)
                   /\ UNCHANGED <<client, draining>> /\ Stays
<1>1. up /\ p \in DOMAIN proc
  BY DEF RestartHealthy, Chain
<1>2. o \in DOMAIN op /\ Len(op) \in Nat /\ Len(row) \in Nat /\ Len(row) <= MaxGens /\ Len(proc) \in Nat
  BY <1>1, Lens DEF ProcType
<1>3. CASE Writes(path, rest)
  <2>1. Path(path, Len(row))
    <3> HIDE DEF x
    <3> QED BY <1>2, EngineFacts, ActivationPath
  <2>2. row' \in Registries(Len(row)) /\ (Dies => Types' /\ CancelStep)
    <3> HIDE DEF path
    <3> QED BY <1>1, <1>3, <2>1, Lens, WritesTyped DEF Writes
  <2>3. ASSUME rest PROVE Types' /\ CancelStep
    <3>1. y \in OpType(Len(row), Len(proc)) /\ (Doomed(o) => y.pc \in {"fetch", "done"})
      <4>1. y.pc = x.pc
        BY <1>2, OpFacts DEF OpType, Activated
      <4> QED BY <1>2, <4>1, OpFacts, OpSet DEF Doomed
    <3>2. proc' \in Seq(ProcType(Len(row), Len(op))) /\ Len(proc') = Len(proc)
      <4>1. proc \in [1..Len(proc) -> ProcType(Len(row), Len(op))]
        BY <1>2, EngineFacts, ProcsAre
      <4>2. proc' \in [1..Len(proc) -> ProcType(Len(row), Len(op))]
        <5>1. proc' = [proc EXCEPT ![p].chain = "none", ![p].new = 0]
          BY <2>3
        <5> QED BY <4>1, <5>1 DEF ProcType
      <4> QED BY <1>2, <4>2, ProcsAre
    <3>3. probe' \in [Gens -> 0..Len(op)]
      <4>1. o \in 0..Len(op)
        BY <1>2, Lens
      <4> HIDE DEF o
      <4> QED BY <2>3, <4>1, EngineFacts DEF Probes
    <3>4. client' \in [Gens -> 0..Len(proc)] /\ draining' \subseteq 1..Len(row) /\ Put(o, y) /\ Stays
      BY <2>3, EngineFacts
    <3> HIDE DEF o, y
    <3> QED BY <1>1, <1>2, <2>2, <3>1, <3>2, <3>3, <3>4, EngineStep
  <2> QED BY <1>3, <2>2, <2>3 DEF Writes
<1>4. CASE RestartFails(p, proc, client)
  BY <1>1, <1>4, EngineFacts, RestartFailsTyped
<1> QED BY <1>3, <1>4 DEF RestartHealthy

LEMMA RestartUnhealthyTyped ==
    ASSUME Types, NEW p, RestartUnhealthy(p)
    PROVE  Types' /\ CancelStep
BY EngineFacts, RestartFailsTyped DEF RestartUnhealthy, Chain

LEMMA DegradeTyped ==
    ASSUME Types, NEW g \in Gens, Degrade(g)
    PROVE  Types' /\ CancelStep
<1> DEFINE o == probe[g]
           y == [op[o] EXCEPT !.st = "DEGRADED"]
<1>1. up /\ o \in DOMAIN op
  BY EngineFacts, Lens DEF Degrade
<1>2. Len(op) \in Nat /\ Len(row) \in Nat /\ Len(proc) \in Nat
  BY Lens
<1>3. /\ proc' \in Seq(ProcType(Len(row), Len(op))) /\ Len(proc') = Len(proc)
      /\ client' \in [Gens -> 0..Len(proc)] /\ probe' \in [Gens -> 0..Len(op)]
      /\ draining' \subseteq 1..Len(row) /\ Stays
  BY EngineFacts DEF Degrade
<1>4. CASE op[o].st = "READY"
  <2>1. row' \in Registries(Len(row))
    <3>1. row' = [row EXCEPT ![g].state = "DEGRADED"]
      BY <1>4 DEF Degrade
    <3>2. row \in Registries(Len(row))
      BY EngineFacts
    <3> QED BY <1>2, <3>1, <3>2, RowSet, StateNames
  <2>2. Put(o, y)
    BY <1>1, <1>4 DEF Put, Degrade
  <2>3. y \in OpType(Len(row), Len(proc))
    BY <1>1, OpFacts, OpSet, StateNames
  <2>4. Doomed(o) => y.pc \in {"fetch", "done"}
    <3>1. y.pc = op[o].pc
      BY <1>1, OpFacts DEF OpType
    <3> QED BY <3>1 DEF Doomed
  <2> HIDE DEF o, y
  <2> QED BY <1>1, <1>3, <2>1, <2>2, <2>3, <2>4, EngineStep
<1>5. CASE op[o].st # "READY"
  <2>1. row' = row /\ op' = op
    BY <1>5 DEF Degrade
  <2>2. RowsTyped' /\ OpsTyped' /\ ProcsTyped' /\ EngineTyped' /\ DaemonTyped'
    BY <1>3, <2>1 DEF Types, RowsTyped, OpsTyped, ProcsTyped, EngineTyped, DaemonTyped, Stays
  <2>3. CancelStep
    BY <2>1 DEF CancelStep
  <2> QED BY <2>2, <2>3 DEF Types
<1> QED BY <1>4, <1>5

-----------------------------------------------------------------------------
(* The daemon. *)

LEMMA CloseTyped ==
    ASSUME Types, Close
    PROVE  Types' /\ CancelStep
<1>1. proc' \in Seq(ProcType(Len(row), Len(op))) /\ Len(proc') = Len(proc)
  <2>1. Len(proc) \in Nat /\ proc \in [1..Len(proc) -> ProcType(Len(row), Len(op))]
    BY Lens, EngineFacts, ProcsAre
  <2>2. proc' \in [1..Len(proc) -> ProcType(Len(row), Len(op))]
    BY <2>1 DEF Close, ProcType
  <2> QED BY <2>1, <2>2, ProcsAre
<1>2. UNCHANGED <<row, op, draining, up, boots>> /\ closed' = TRUE
  BY DEF Close
<1>3. client' \in [Gens -> 0..Len(proc)] /\ probe' \in [Gens -> 0..Len(op)]
  BY EngineFacts DEF Close
<1>4. RowsTyped' /\ OpsTyped' /\ ProcsTyped' /\ EngineTyped' /\ DaemonTyped'
  BY <1>1, <1>2, <1>3 DEF Types, RowsTyped, OpsTyped, ProcsTyped, EngineTyped, DaemonTyped
<1>5. CancelStep
  BY <1>2 DEF CancelStep
<1> QED BY <1>4, <1>5 DEF Types

LEMMA CrashTyped ==
    ASSUME Types, Crash
    PROVE  Types' /\ CancelStep
BY Lens, EngineFacts, DiesTyped DEF Crash

LEMMA BootTyped ==
    ASSUME Types, Boot
    PROVE  Types' /\ CancelStep
<1> DEFINE n == Len(row)
<1>1. UNCHANGED <<op, proc, client, probe, draining, closed>> /\ boots' = boots + 1 /\ boots < MaxBoots
      /\ ~up /\ up' \in BOOLEAN
  BY DEF Boot, engine, Types, DaemonTyped
<1>2. row' \in Registries(n)
  <2>1. PICK survivors \in SUBSET DOMAIN row :
           LET upto[g \in 0..n] == IF g = 0 THEN <<row>> ELSE Recover(upto[g - 1], g, survivors)
               path == upto[n]
           IN \/ row' = Last(path)
              \/ \E i \in 2..(Len(path) - 1) : row' = path[i]
    BY DEF Boot
  <2> DEFINE upto[g \in 0..n] == IF g = 0 THEN <<row>> ELSE Recover(upto[g - 1], g, survivors)
  <2>2. Path(upto[n], n)
    BY Lens, EngineFacts, RecoveryPath
  <2> HIDE DEF n, upto
  <2>3. \/ row' = Last(upto[n])
        \/ \E i \in 2..(Len(upto[n]) - 1) : row' = upto[n][i]
    BY <2>1 DEF n, upto
  <2>4. n \in Nat
    BY Lens DEF n
  <2> QED BY <2>2, <2>3, <2>4, WritesEnd
<1>3. op = <<>>
  BY <1>1 DEF Types, OpsTyped
<1>4. Len(row') = Len(row)
  BY <1>2 DEF Registries
<1>5. RowsTyped' /\ DaemonTyped'
  <2>1. row' \in Registries(Len(row')) /\ Len(row') <= MaxGens
    BY <1>2, <1>4, Lens
  <2>2. boots' \in 1..MaxBoots
    BY <1>1, LifecycleAssumption DEF Types, DaemonTyped
  <2> QED BY <1>1, <2>1, <2>2 DEF Types, RowsTyped, DaemonTyped
<1>6. MaxOps[boots'] \in Nat
  <2>1. boots' \in 1..MaxBoots
    BY <1>5 DEF DaemonTyped
  <2> QED BY <2>1, LifecycleAssumption
<1>7. OpsTyped' /\ ProcsTyped' /\ EngineTyped'
  BY <1>1, <1>3, <1>4, <1>6 DEF Types, OpsTyped, ProcsTyped, EngineTyped
<1>8. CancelStep
  BY <1>1, <1>3 DEF CancelStep
<1> QED BY <1>5, <1>7, <1>8 DEF Types

\* Init has no rows, no operations and no processes.
LEMMA InitTyped == Init => Types
<1> SUFFICES ASSUME Init PROVE Types
  OBVIOUS
<1>1. boots = 1 /\ 1 \in 1..MaxBoots /\ MaxOps[boots] \in Nat
  BY LifecycleAssumption DEF Init
<1>2. /\ row = <<>> /\ op = <<>> /\ proc = <<>> /\ draining = {}
      /\ client = [g \in Gens |-> 0] /\ probe = [g \in Gens |-> 0] /\ closed = FALSE /\ up = TRUE
  BY DEF Init
<1>3. RowsTyped
  <2>1. Len(row) = 0 /\ row \in Seq(RowType) /\ 0 <= MaxGens
    BY <1>2, LifecycleAssumption
  <2> QED BY <2>1 DEF RowsTyped, Registries
<1>4. OpsTyped /\ ProcsTyped
  BY <1>1, <1>2 DEF OpsTyped, ProcsTyped
<1>5. EngineTyped
  BY <1>2 DEF EngineTyped
<1>6. DaemonTyped
  BY <1>1, <1>2 DEF DaemonTyped
<1> QED BY <1>3, <1>4, <1>5, <1>6 DEF Types

\* Each action keeps the invariant, and starts nothing that was cancelled.
LEMMA NextTyped ==
    ASSUME Types, [Next]_vars
    PROVE  Types' /\ CancelStep
<1>1. CASE \E v \in Versions : CommitInstall(v) \/ CommitUpdate(v) \/ CommitRollback(v)
  BY <1>1, InstallTyped, RollbackTyped
<1>2. CASE CommitUninstall
  BY <1>2, UninstallTyped
<1>3. CASE \E o \in Ops : Cancel(o) \/ FetchReturns(o) \/ StartReturns(o) \/ HealthOk(o) \/ StopReturns(o)
  BY <1>3, CancelTyped, FetchReturnsTyped, StartReturnsTyped, HealthOkTyped, StopReturnsTyped
<1>4. CASE \E o \in Ops : TimesOut(o)
  BY <1>4, FetchFailsTyped, StartFailsTyped, HealthFailsTyped, StopFailsTyped DEF TimesOut
<1>5. CASE \E p \in 1..MaxProcs : ExitIgnored(p) \/ ExitCrash(p)
  BY <1>5, ExitIgnoredTyped, ExitCrashTyped
<1>6. CASE \E p \in 1..MaxProcs :
              \/ RestartWakes(p) \/ RestartStarted(p) \/ RestartStartFails(p)
              \/ RestartHealthy(p) \/ RestartUnhealthy(p)
  BY <1>6, RestartWakesTyped, RestartStartedTyped, RestartStartFailsTyped, RestartHealthyTyped,
     RestartUnhealthyTyped
<1>7. CASE \E g \in Gens : Degrade(g)
  BY <1>7, DegradeTyped
<1>8. CASE Close \/ Crash \/ Boot
  BY <1>8, CloseTyped, CrashTyped, BootTyped
<1>9. CASE UNCHANGED vars
  <2>1. RowsTyped' /\ OpsTyped' /\ ProcsTyped' /\ EngineTyped' /\ DaemonTyped'
    BY <1>9 DEF vars, engine, Types, RowsTyped, OpsTyped, ProcsTyped, EngineTyped, DaemonTyped
  <2>2. CancelStep
    BY <1>9 DEF vars, CancelStep
  <2> QED BY <2>1, <2>2 DEF Types
<1> QED BY <1>1, <1>2, <1>3, <1>4, <1>5, <1>6, <1>7, <1>8, <1>9 DEF Next

-----------------------------------------------------------------------------
(* The theorems. *)

LEMMA TypesHold == Spec => []Types
<1>1. Types /\ [Next]_vars => Types'
  BY NextTyped
<1> QED BY InitTyped, <1>1, PTL DEF Spec

LEMMA TypesGive == Types => TypeOK /\ OneActive
<1> SUFFICES ASSUME Types PROVE TypeOK /\ OneActive
  OBVIOUS
<1>1. /\ Len(row) <= MaxGens
      /\ \A g \in DOMAIN row :
           row[g] \in [version : Versions, state : States, active : BOOLEAN, indexed : BOOLEAN,
                       noted : Nat, projected : BOOLEAN, starts : 0..MaxStarts, pid : BOOLEAN]
  <2>1. row \in Seq(RowType)
    BY EngineFacts DEF Registries
  <2>2. \A g \in DOMAIN row : row[g] \in RowType
    BY <2>1
  <2> QED BY <2>2, Lens, StatesAre DEF RowType
<1>2. Len(op) <= MaxOps[boots]
  BY DEF Types, OpsTyped
<1>3. \A o \in DOMAIN op :
         /\ op[o].gen \in DOMAIN row /\ op[o].prev \in {0} \cup DOMAIN row
         /\ op[o].st \in States
         /\ op[o].proc \in {0} \cup DOMAIN proc
         /\ op[o].pc \in {"fetch", "start", "health", "abort", "drain", "remove", "done"}
  <2> TAKE o \in DOMAIN op
  <2>1. op[o] \in OpType(Len(row), Len(proc))
    BY OpFacts
  <2> QED BY <2>1, Lens, StatesAre DEF OpType, PCs
<1>4. \A p \in DOMAIN proc :
         /\ proc[p].gen \in DOMAIN row
         /\ proc[p].obj \in DOMAIN op
         /\ proc[p].st \in {"alive", "term", "gone"}
  BY Lens DEF ProcType
<1>5. /\ client \in [Gens -> {0} \cup DOMAIN proc]
      /\ probe \in [Gens -> {0} \cup DOMAIN op]
      /\ draining \subseteq DOMAIN row
  BY EngineFacts, Lens
<1>6. OneActive
  BY EngineFacts, Lens DEF OneActive, Registries
<1> QED BY <1>1, <1>2, <1>3, <1>4, <1>5, <1>6 DEF TypeOK

\* Whatever the daemon dies in, the rows keep their types and what an operation,
\* an adapter process, a client or a probe refers to exists.
THEOREM TypeCorrect == Spec => []TypeOK
BY TypesHold, TypesGive, PTL

\* store-ports.ts, casActive: through updates, rollbacks, restarts, recoveries
\* and deaths between any two writes, one generation is active at most.
THEOREM AtMostOneActive == Spec => []OneActive
BY TypesHold, TypesGive, PTL

\* engine.ts, checkCancel: an operation that was cancelled while it fetched ends
\* there; it never spawns an adapter.
THEOREM CancelledNeverStarts == Spec => CancelStopsStart
<1>1. Types /\ [Next]_vars => [CancelStep]_vars
  BY NextTyped
<1> QED BY TypesHold, <1>1, PTL DEF Spec, CancelStopsStart, CancelStep
=============================================================================
