----------------------------- MODULE LaneProofs -----------------------------
(***************************************************************************)
(* Three facts about a lane, for every size of a segment, every sizes of   *)
(* commits and every bound on records, crashes and faults of the disk:     *)
(* the process serves what the next recovery derives from the files, and   *)
(* never finds them corrupt; the log that recovery derives is only ever    *)
(* extended, and keeps what a caller was told; and an object that a marker *)
(* names is whole.                                                         *)
(*                                                                         *)
(* An ordinal is the number of the records in front of a record: those of  *)
(* the segments before its own, as their manifests count them, and those   *)
(* before it in its own.  The records a segment's manifest counts are a    *)
(* column of a diagram, so that ordinals are areas and adding a segment    *)
(* adds a column (Area, Base).  The invariant says that all segments but   *)
(* the last are sealed and synced; that the records of the markers, and    *)
(* those of the commit under way, stand where their locators say, the      *)
(* committed ones in what is synced, with ordinals that strictly rise; and *)
(* that the writer is at the end of the last segment and gives the next    *)
(* record the ordinal it has there.  Recovery counts other things, lines   *)
(* and committed records, and arrives at the same ordinals (CursorIs,      *)
(* NextIs).                                                                *)
(***************************************************************************)
EXTENDS Lanes, FiniteSetTheorems, SequenceTheorems, NaturalsInduction, WellFoundedInduction,
        TLAPS

-----------------------------------------------------------------------------
(* The inductive invariant.                                                *)

\* The types of the state.
Half == [id : Nat, half : {"body", "lf"}]
Seal == [whole : BOOLEAN, count : Nat, data : Seq(Half)]
Segment == [data : Seq(Half), synced : Nat, seal : Seal]
Rec == [seg : Nat, off : Nat, id : Nat]
Shown == [id : Nat, cursor : Nat]
LaneCtx == [todo : Nat, recs : Seq(Rec), cursors : Seq(Nat), obj : Digests \union {None}]
LaneWriter == [made : BOOLEAN, fh : BOOLEAN, seg : Nat, off : Nat, count : Nat, next : Nat]

\* The steps of a commit before its first record, and while it appends.
Before == {"object", "bytes", "sync", "verify", "writer", "meta", "first"}
Appending == {"append", "seal", "manifest", "next"}
LaneSteps == {"idle"} \union Before \union Appending \union {"fsync", "marker", "answer"}
LaneModes == {"down", "tail", "open", "meta", "up", "stuck"}

FilesTyped ==
    /\ meta \in {"absent", "short", "whole"} /\ segs \in Seq(Segment) /\ committed \in Seq(Rec)
    /\ laneMode \in LaneModes /\ writer \in LaneWriter /\ served \in Seq(Shown)
    /\ laneAt \in LaneSteps /\ laneCtx \in LaneCtx
    /\ asked \in Nat /\ asked + laneCtx.todo <= MaxRecords

\* Lines are whole but for what follows the last of them.
Alternates(data) == \A k \in DOMAIN data : data[k].half = "lf" <=> k % 2 = 0

\* A manifest describes the file, all of which is synced.
Sound(g) ==
    /\ g.synced <= Len(g.data) /\ Alternates(g.data)
    /\ g.seal.whole => g.synced = Len(g.data) /\ g.seal.data = g.data /\ Len(g.data) = 2 * g.seal.count
Segments(s) == /\ \A i \in DOMAIN s : Sound(s[i])
               /\ \A i \in 1..(Len(s) - 1) : s[i].seal.whole

\* The squares of a diagram with columns of these heights.
Area(heights, n) == Cardinality(UNION {{j} \X (1..heights[j]) : j \in 1..n})
Base(s, i) == Area([j \in DOMAIN s |-> s[j].seal.count], i - 1)
Ordinal(s, r) == Base(s, r.seg) + (r.off \div 2) + 1
Total(s) == IF s = <<>> THEN 0 ELSE Base(s, Len(s)) + (Len(s[Len(s)].data) \div 2)
Entry(s, r) == [id |-> r.id, cursor |-> Ordinal(s, r)]

\* The line of r is where its locator says, and in what is synced.
Stands(s, r) ==
    /\ r.seg \in DOMAIN s /\ r.off % 2 = 0 /\ r.off + 2 <= Len(s[r.seg].data)
    /\ s[r.seg].data[r.off + 1] = [id |-> r.id, half |-> "body"]
    /\ s[r.seg].data[r.off + 2] = [id |-> r.id, half |-> "lf"]
Durable(s, r) == r.off + 2 <= s[r.seg].synced

\* The records of the markers, and those the commit under way has appended.
Chain == committed \o (IF laneAt = "answer" THEN <<>> ELSE laneCtx.recs)
ChainSound ==
    /\ \A k \in DOMAIN Chain : Stands(segs, Chain[k]) /\ Chain[k].id \in 1..asked
    /\ \A i, k \in DOMAIN Chain : i < k => Ordinal(segs, Chain[i]) < Ordinal(segs, Chain[k])
    /\ \A k \in DOMAIN committed : Durable(segs, committed[k])
    /\ laneAt = "marker" => \A k \in DOMAIN laneCtx.recs : Durable(segs, laneCtx.recs[k])

\* The ordinals the writer gave them are those the files give.
CursorsSound ==
    /\ Len(laneCtx.cursors) = Len(laneCtx.recs)
    /\ \A k \in DOMAIN laneCtx.recs : laneCtx.cursors[k] = Ordinal(segs, laneCtx.recs[k])

\* What is served are the committed records; a commit is shown when it answers.
ServedSound ==
    laneMode = "up" =>
        /\ \A k \in DOMAIN served : k <= Len(committed) /\ served[k] = Entry(segs, committed[k])
        /\ laneAt # "answer" => Len(served) = Len(committed)
        /\ laneAt = "answer" =>
              /\ Len(committed) = Len(served) + Len(laneCtx.recs)
              /\ \A k \in DOMAIN laneCtx.recs : committed[Len(served) + k] = laneCtx.recs[k]

\* What there is at each step of a commit, and of recovery.
Control ==
    /\ laneMode # "up" => laneAt = "idle" /\ ~writer.made /\ served = <<>>
    /\ laneAt \in {"idle"} \union Before => laneCtx.recs = <<>>
    /\ laneAt \in Before \union Appending => laneCtx.todo >= 1
    /\ laneAt \in {"fsync", "marker", "answer"} => laneCtx.recs # <<>>
    /\ laneAt \in {"meta", "first"} => ~writer.made /\ segs = <<>>
    /\ laneAt = "first" => meta = "whole"
    /\ laneAt \in Appending \union {"fsync", "marker", "answer"} => writer.made
    /\ laneMode = "up" /\ ~writer.made => segs = <<>> \/ segs = <<EmptySegment>>
    /\ meta # "whole" => segs = <<>>
    /\ laneMode \in {"open", "meta"} => \A i \in Active : Len(segs[i].data) = ExtentEnd(i)

\* The writer is at the end of the last segment, which rotate closes step by
\* step.
WriterSound ==
    writer.made =>
        /\ segs # <<>> /\ writer.seg = Len(segs) /\ writer.off = Len(segs[Len(segs)].data)
        /\ writer.off = 2 * writer.count /\ writer.next = Total(segs) + 1
        /\ writer.fh => ~Sealed(Len(segs))
        /\ laneAt = "seal" => writer.fh
        /\ laneAt = "manifest" => ~writer.fh /\ ~Sealed(Len(segs)) /\ segs[Len(segs)].synced = Len(segs[Len(segs)].data)
        /\ laneAt = "next" => Sealed(Len(segs))

\* The inductive invariant.
SegmentInv ==
    /\ FilesTyped /\ Segments(segs) /\ Total(segs) <= asked
    /\ ChainSound /\ CursorsSound /\ ServedSound /\ Control /\ WriterSound

-----------------------------------------------------------------------------
(* Numbers and areas.                                                      *)

\* A nonempty set of numbers has a least element.
LEMMA Least ==
    ASSUME NEW S, S \subseteq Nat, S # {}
    PROVE  /\ (CHOOSE n \in S : \A m \in S : n <= m) \in S
           /\ \A m \in S : (CHOOSE n \in S : \A k \in S : n <= k) <= m
<1>1. PICK x \in S : \A y \in S : ~(<<y, x>> \in OpToRel(<, Nat))
  BY NatLessThanWellFounded, WFMin
<1>2. \A y \in S : x <= y
  <2> SUFFICES ASSUME NEW y \in S, y < x PROVE FALSE
    OBVIOUS
  <2>1. <<y, x>> \in OpToRel(<, Nat)
    BY DEF OpToRel
  <2> QED
    BY <1>1, <2>1
<1> QED
  BY <1>2

\* A bounded set of numbers has a largest one.
LEMMA Largest ==
    ASSUME NEW S, S \subseteq Nat, S # {}, NEW b \in Nat, \A m \in S : m <= b
    PROVE  Max(S) \in S /\ \A m \in S : m <= Max(S)
<1> DEFINE above == {n \in Nat : \A m \in S : m <= n}
<1>1. above \subseteq Nat /\ b \in above
  OBVIOUS
<1>2. PICK u \in above : \A n \in above : u <= n
  <2> HIDE DEF above
  <2> QED BY <1>1, Least
<1>3. u \in S
  <2> SUFFICES ASSUME u \notin S PROVE FALSE
    OBVIOUS
  <2>1. \A m \in S : m < u
    OBVIOUS
  <2>2. u > 0 /\ u - 1 \in Nat
    <3>1. PICK m \in S : m < u
      BY <2>1
    <3> QED BY <3>1
  <2>3. u - 1 \in above
    BY <2>1, <2>2
  <2> QED BY <1>2, <2>3
<1>4. \A m \in S : m <= u
  OBVIOUS
<1> QED BY <1>3, <1>4 DEF Max

\* The even numbers below 2 * n.
Evens(n) == {2 * j : j \in 0..(n - 1)}

LEMMA EvensCount ==
    ASSUME NEW n \in Nat PROVE IsFiniteSet(Evens(n)) /\ Cardinality(Evens(n)) = n
<1> DEFINE f == [j \in 1..n |-> 2 * (j - 1)]
<1>1. \A e \in Evens(n) : \E j \in 1..n : f[j] = e
  <2> SUFFICES ASSUME NEW k \in 0..(n - 1) PROVE k + 1 \in 1..n /\ f[k + 1] = 2 * k
    BY DEF Evens
  <2> QED OBVIOUS
<1>2. f \in Bijection(1..n, Evens(n))
  <2>1. f \in [1..n -> Evens(n)]
    <3> SUFFICES ASSUME NEW j \in 1..n PROVE 2 * (j - 1) \in Evens(n)
      OBVIOUS
    <3>1. j - 1 \in 0..(n - 1)
      OBVIOUS
    <3> QED BY <3>1 DEF Evens
  <2>2. f \in Injection(1..n, Evens(n))
    BY <2>1 DEF Injection, IsInjective
  <2>3. f \in Surjection(1..n, Evens(n))
    BY <1>1, <2>1 DEF Surjection
  <2> QED BY <2>2, <2>3 DEF Bijection
<1>3. IsFiniteSet(1..n) /\ Cardinality(1..n) = n
  BY FS_Interval
<1> QED BY <1>2, <1>3, FS_Bijection DEF ExistsBijection

Columns(heights, n) == UNION {{j} \X (1..heights[j]) : j \in 1..n}

LEMMA ColumnsFinite ==
    ASSUME NEW n \in Nat, NEW heights, \A j \in 1..n : heights[j] \in Nat
    PROVE  IsFiniteSet(Columns(heights, n))
<1> DEFINE column == [j \in 1..n |-> {j} \X (1..heights[j])]
           columns == {column[j] : j \in 1..n}
<1>1. IsFiniteSet(1..n)
  BY FS_Interval
<1>2. column \in Surjection(1..n, columns)
  BY DEF Surjection
<1>3. IsFiniteSet(columns)
  <2> HIDE DEF column, columns
  <2> QED BY <1>1, <1>2, FS_Surjection
<1>4. \A T \in columns : IsFiniteSet(T)
  <2> SUFFICES ASSUME NEW j \in 1..n PROVE IsFiniteSet({j} \X (1..heights[j]))
    OBVIOUS
  <2>1. IsFiniteSet({j})
    BY FS_Singleton
  <2>2. IsFiniteSet(1..heights[j])
    BY FS_Interval
  <2> QED BY <2>1, <2>2, FS_Product
<1>5. Columns(heights, n) = UNION columns
  BY DEF Columns
<1>6. IsFiniteSet(UNION columns)
  <2> HIDE DEF columns
  <2> QED BY <1>3, <1>4, FS_UNION
<1> QED BY <1>5, <1>6

LEMMA AreaNat ==
    ASSUME NEW n \in Nat, NEW heights, \A j \in 1..n : heights[j] \in Nat
    PROVE  Area(heights, n) \in Nat
<1>1. Area(heights, n) = Cardinality(Columns(heights, n))
  BY DEF Area, Columns
<1> QED BY <1>1, ColumnsFinite, FS_CardinalityType

LEMMA AreaSame ==
    ASSUME NEW n \in Nat, NEW heights, NEW others, \A j \in 1..n : heights[j] = others[j]
    PROVE  Area(heights, n) = Area(others, n)
<1>1. {{j} \X (1..heights[j]) : j \in 1..n} = {{j} \X (1..others[j]) : j \in 1..n}
  OBVIOUS
<1> QED BY <1>1 DEF Area

LEMMA AreaNext ==
    ASSUME NEW n \in Nat, NEW heights, \A j \in 1..(n + 1) : heights[j] \in Nat
    PROVE  Area(heights, n + 1) = Area(heights, n) + heights[n + 1]
<1> DEFINE last == {n + 1} \X (1..heights[n + 1])
<1>0. n + 1 \in 1..(n + 1) /\ heights[n + 1] \in Nat /\ \A j \in 1..n : j \in 1..(n + 1)
  OBVIOUS
<1>1. Columns(heights, n + 1) = Columns(heights, n) \union last
  <2>1. \A j : j \in 1..(n + 1) <=> j \in 1..n \/ j = n + 1
    OBVIOUS
  <2>2. \A x : x \in Columns(heights, n + 1) <=> \E j \in 1..(n + 1) : x \in {j} \X (1..heights[j])
    BY Zenon DEF Columns
  <2>3. \A x : x \in Columns(heights, n) <=> \E j \in 1..n : x \in {j} \X (1..heights[j])
    BY Zenon DEF Columns
  <2> QED BY <2>1, <2>2, <2>3, Zenon
<1>2. Columns(heights, n) \intersect last = {}
  <2> SUFFICES ASSUME NEW j \in 1..n, NEW x, x \in {j} \X (1..heights[j]), x \in last PROVE FALSE
    BY DEF Columns
  <2> QED OBVIOUS
<1>3. IsFiniteSet(Columns(heights, n))
  BY <1>0, ColumnsFinite
<1>4. IsFiniteSet({n + 1}) /\ Cardinality({n + 1}) = 1
  BY FS_Singleton
<1>5. IsFiniteSet(1..heights[n + 1]) /\ Cardinality(1..heights[n + 1]) = heights[n + 1]
  <2> DEFINE h == heights[n + 1]
  <2>1. h \in Nat
    BY <1>0
  <2> HIDE DEF h
  <2>2. IsFiniteSet(1..h) /\ Cardinality(1..h) = h
    BY <2>1, FS_Interval
  <2> QED BY <2>2 DEF h
<1>6. IsFiniteSet(last) /\ Cardinality(last) = heights[n + 1]
  <2>1. PICK h \in Nat : heights[n + 1] = h
    BY <1>0
  <2>2. IsFiniteSet(1..h) /\ Cardinality(1..h) = h
    BY <2>1, FS_Interval
  <2>3. IsFiniteSet({n + 1} \X (1..h)) /\ Cardinality({n + 1} \X (1..h)) = Cardinality({n + 1}) * Cardinality(1..h)
    BY <1>4, <2>2, FS_Product, Zenon
  <2>4. Cardinality({n + 1} \X (1..h)) = 1 * h
    BY <1>4, <2>2, <2>3, Zenon
  <2>5. 1 * h = h
    BY <2>1
  <2> QED BY <2>1, <2>3, <2>4, <2>5, Zenon
<1>7. Cardinality(Columns(heights, n) \union last)
        = Cardinality(Columns(heights, n)) + Cardinality(last) - Cardinality(Columns(heights, n) \intersect last)
  <2> HIDE DEF last
  <2> QED BY <1>3, <1>6, FS_Union
<1>8. Cardinality(Columns(heights, n)) \in Nat /\ Cardinality({}) = 0
  BY <1>3, FS_CardinalityType, FS_EmptySet
<1>9. Area(heights, n + 1) = Cardinality(Columns(heights, n + 1)) /\ Area(heights, n) = Cardinality(Columns(heights, n))
  BY DEF Area, Columns
<1>10. Cardinality(Columns(heights, n + 1)) = Cardinality(Columns(heights, n)) + heights[n + 1]
  <2> HIDE DEF last
  <2>1. Cardinality(Columns(heights, n) \intersect last) = 0
    BY <1>2, <1>8, Zenon
  <2>2. Cardinality(Columns(heights, n + 1)) = Cardinality(Columns(heights, n) \union last)
    BY <1>1, Zenon
  <2>3. Cardinality(Columns(heights, n)) \in Nat
    BY <1>8
  <2> QED BY <1>0, <1>6, <1>7, <2>1, <2>2, <2>3
<1> QED BY <1>9, <1>10

LEMMA AreaRises ==
    ASSUME NEW n \in Nat, NEW m \in 0..n, NEW heights, \A j \in 1..n : heights[j] \in Nat
    PROVE  Area(heights, m) <= Area(heights, n)
<1>1. Columns(heights, m) \in SUBSET Columns(heights, n)
  BY DEF Columns
<1>2. IsFiniteSet(Columns(heights, n))
  BY ColumnsFinite
<1> QED BY <1>1, <1>2, FS_Subset DEF Area, Columns

-----------------------------------------------------------------------------
(* Ordinals.                                                               *)

LEMMA Counts ==
    ASSUME NEW s \in Seq(Segment)
    PROVE  /\ Len(s) \in Nat /\ DOMAIN s = 1..Len(s)
           /\ \A j \in 1..Len(s) : /\ s[j] \in Segment /\ s[j].seal.count \in Nat /\ s[j].synced \in Nat
                                   /\ s[j].data \in Seq(Half) /\ Len(s[j].data) \in Nat
<1>1. \A g \in Segment : g.seal \in Seal /\ g.synced \in Nat /\ g.data \in Seq(Half)
  BY DEF Segment
<1>2. \A l \in Seal : l.count \in Nat
  BY DEF Seal
<1>3. \A d \in Seq(Half) : Len(d) \in Nat
  OBVIOUS
<1>4. Len(s) \in Nat /\ DOMAIN s = 1..Len(s) /\ \A j \in 1..Len(s) : s[j] \in Segment
  OBVIOUS
<1> QED BY <1>1, <1>2, <1>3, <1>4

LEMMA Halves ==
    /\ \A n \in Nat : n \div 2 \in Nat /\ n % 2 \in {0, 1} /\ n = 2 * (n \div 2) + (n % 2)
    /\ \A m, n \in Nat : m % 2 = 0 /\ m + 2 <= n => (m \div 2) + 1 <= n \div 2
    /\ \A m \in Nat : (2 * m) \div 2 = m /\ (2 * m) % 2 = 0
    /\ \A m, n \in Nat : m <= n => m \div 2 <= n \div 2
    /\ \A n \in Nat : (n + 2) \div 2 = (n \div 2) + 1 /\ (n + 2) % 2 = n % 2
    /\ \A n \in Nat : n % 2 = 0 => (n + 1) % 2 = 1
    /\ \A n \in Nat : \A k \in 1..(n + 2) : k \in 1..n \/ k = n + 1 \/ k = n + 2
  OBVIOUS

LEMMA BaseNat ==
    ASSUME NEW s \in Seq(Segment), NEW i \in 1..(Len(s) + 1) PROVE Base(s, i) \in Nat
<1> DEFINE f == [j \in DOMAIN s |-> s[j].seal.count]
<1>1. i - 1 \in Nat /\ \A j \in 1..(i - 1) : f[j] \in Nat
  BY Counts
<1> HIDE DEF f
<1>2. Area(f, i - 1) \in Nat
  BY <1>1, AreaNat
<1> QED BY <1>2 DEF Base, f

LEMMA BaseFirst == ASSUME NEW s PROVE Base(s, 1) = 0
<1>1. \A h : UNION {{j} \X (1..h[j]) : j \in 1..0} = {}
  OBVIOUS
<1>2. \A h : Area(h, 1 - 1) = Cardinality({})
  BY <1>1 DEF Area
<1> QED BY <1>2, FS_EmptySet DEF Base

LEMMA BaseNext ==
    ASSUME NEW s \in Seq(Segment), NEW i \in 1..Len(s)
    PROVE  Base(s, i + 1) = Base(s, i) + s[i].seal.count
<1> DEFINE f == [j \in DOMAIN s |-> s[j].seal.count]
<1>1. i - 1 \in Nat /\ (\A j \in 1..((i - 1) + 1) : f[j] \in Nat) /\ f[(i - 1) + 1] = s[i].seal.count
      /\ (i - 1) + 1 = i /\ (i + 1) - 1 = i
  BY Counts
<1> HIDE DEF f
<1>2. Area(f, (i - 1) + 1) = Area(f, i - 1) + f[(i - 1) + 1]
  BY <1>1, AreaNext
<1> QED BY <1>1, <1>2 DEF Base, f

LEMMA BaseSame ==
    ASSUME NEW s \in Seq(Segment), NEW t \in Seq(Segment), NEW i \in 1..(Len(s) + 1), i <= Len(t) + 1,
           \A j \in 1..(i - 1) : t[j] = s[j]
    PROVE  Base(t, i) = Base(s, i)
<1> DEFINE f == [j \in DOMAIN s |-> s[j].seal.count]
           g == [j \in DOMAIN t |-> t[j].seal.count]
<1>1. i - 1 \in Nat /\ \A j \in 1..(i - 1) : f[j] = g[j]
  BY Counts
<1> HIDE DEF f, g
<1>2. Area(f, i - 1) = Area(g, i - 1)
  BY <1>1, AreaSame
<1> QED BY <1>2 DEF Base, f, g

LEMMA BaseRises ==
    ASSUME NEW s \in Seq(Segment), NEW k \in 1..(Len(s) + 1), NEW i \in 1..k
    PROVE  Base(s, i) <= Base(s, k)
<1> DEFINE f == [j \in DOMAIN s |-> s[j].seal.count]
<1>1. k - 1 \in Nat /\ i - 1 \in 0..(k - 1) /\ \A j \in 1..(k - 1) : f[j] \in Nat
  BY Counts
<1> HIDE DEF f
<1>2. Area(f, i - 1) <= Area(f, k - 1)
  BY <1>1, AreaRises
<1> QED BY <1>2 DEF Base, f

LEMMA TotalNat == ASSUME NEW s \in Seq(Segment) PROVE Total(s) \in Nat
<1>1. CASE s = <<>>
  BY <1>1 DEF Total
<1>2. CASE s # <<>>
  <2>1. Len(s) \in 1..(Len(s) + 1) /\ Len(s) \in 1..Len(s)
    BY <1>2
  <2>2. Base(s, Len(s)) \in Nat /\ Len(s[Len(s)].data) \in Nat
    BY <2>1, BaseNat, Counts
  <2>3. Total(s) = Base(s, Len(s)) + (Len(s[Len(s)].data) \div 2)
    BY <1>2 DEF Total
  <2>4. PICK b \in Nat : b = Base(s, Len(s))
    BY <2>2
  <2>5. PICK n \in Nat : n = Len(s[Len(s)].data)
    BY <2>2
  <2>6. Total(s) = b + (n \div 2)
    BY <2>3, <2>4, <2>5
  <2> QED BY <2>6, Halves
<1> QED BY <1>1, <1>2

\* What stands has its ordinal among those that are used up.
LEMMA OrdinalBound ==
    ASSUME NEW s \in Seq(Segment), Segments(s), NEW r \in Rec, Stands(s, r)
    PROVE  Ordinal(s, r) \in 1..Total(s)
<1>1. r.seg \in 1..Len(s) /\ r.off \in Nat /\ r.off % 2 = 0 /\ r.off + 2 <= Len(s[r.seg].data)
  BY Counts DEF Stands, Rec
<1>2. /\ Base(s, r.seg) \in Nat /\ Base(s, Len(s)) \in Nat
      /\ Len(s[r.seg].data) \in Nat /\ Len(s[Len(s)].data) \in Nat
  BY <1>1, BaseNat, Counts
<1>3. s # <<>>
  BY <1>1
<1>4. PICK b \in Nat : b = Base(s, Len(s))
  BY <1>2
<1>5. PICK c \in Nat : c = Base(s, r.seg)
  BY <1>2
<1>6. PICK n \in Nat : n = Len(s[Len(s)].data)
  BY <1>2
<1>7. PICK m \in Nat : m = Len(s[r.seg].data)
  BY <1>2
<1>8. PICK off \in Nat : off = r.off
  BY <1>1
<1>9. Total(s) = b + (n \div 2) /\ Ordinal(s, r) = c + (off \div 2) + 1
  BY <1>3, <1>4, <1>5, <1>6, <1>8 DEF Total, Ordinal
<1>10. (off \div 2) + 1 <= m \div 2 /\ off \div 2 \in Nat /\ m \div 2 \in Nat /\ n \div 2 \in Nat
  BY <1>1, <1>7, <1>8, Halves
<1>11. CASE r.seg = Len(s)
  <2>1. b = c /\ m = n
    BY <1>4, <1>5, <1>6, <1>7, <1>11
  <2> QED BY <1>9, <1>10, <2>1
<1>12. CASE r.seg < Len(s)
  <2>1. r.seg \in 1..(Len(s) - 1) /\ r.seg + 1 \in 1..Len(s) /\ Len(s) \in 1..(Len(s) + 1)
    BY <1>1, <1>12
  <2>2. PICK k \in Nat : k = s[r.seg].seal.count
    BY <1>1, Counts
  <2>3. m = 2 * k
    <3>1. Sound(s[r.seg]) /\ s[r.seg].seal.whole
      BY <1>1, <2>1, Counts DEF Segments
    <3> QED BY <1>7, <2>2, <3>1 DEF Sound
  <2>4. Base(s, r.seg + 1) = c + k
    BY <1>1, <1>5, <2>2, BaseNext
  <2>5. Base(s, r.seg + 1) <= b
    BY <1>4, <2>1, BaseRises
  <2>6. c + k <= b /\ m \div 2 = k
    BY <2>3, <2>4, <2>5, Halves
  <2> QED BY <1>9, <1>10, <2>6
<1> QED BY <1>1, <1>11, <1>12

-----------------------------------------------------------------------------
(* Steps of the segments.                                                  *)

\* What a step keeps of a record that stands.
Keeps(s, t, r) == /\ Stands(t, r) /\ Ordinal(t, r) = Ordinal(s, r)
                  /\ Durable(s, r) => Durable(t, r)

\* Segments only grow at their end.
Growth(s, t) ==
    /\ Len(s) <= Len(t) /\ \A j \in 1..(Len(s) - 1) : t[j] = s[j]
    /\ s # <<>> => /\ s[Len(s)].synced <= t[Len(s)].synced
                   /\ Len(s[Len(s)].data) <= Len(t[Len(s)].data)
                   /\ \A k \in 1..Len(s[Len(s)].data) : t[Len(s)].data[k] = s[Len(s)].data[k]

\* The last is cut, at what is synced or after it.
Cut(s, t, n) ==
    /\ Len(t) = Len(s) /\ \A j \in 1..(Len(s) - 1) : t[j] = s[j]
    /\ t[Len(s)].data = SubSeq(s[Len(s)].data, 1, n) /\ t[Len(s)].synced = n

LEMMA OrdinalKept ==
    ASSUME NEW s \in Seq(Segment), NEW t \in Seq(Segment), NEW r \in Rec, r.seg \in 1..Len(s),
           Len(s) <= Len(t), \A j \in 1..(Len(s) - 1) : t[j] = s[j]
    PROVE  Ordinal(t, r) = Ordinal(s, r)
<1>1. r.seg \in 1..(Len(s) + 1) /\ r.seg <= Len(t) + 1 /\ \A j \in 1..(r.seg - 1) : t[j] = s[j]
  BY Counts
<1>2. Base(t, r.seg) = Base(s, r.seg)
  BY <1>1, BaseSame
<1> QED BY <1>2 DEF Ordinal

LEMMA GrowthKeeps ==
    ASSUME NEW s \in Seq(Segment), NEW t \in Seq(Segment), Growth(s, t), NEW r \in Rec, Stands(s, r)
    PROVE  Keeps(s, t, r)
<1>1. r.seg \in 1..Len(s) /\ r.seg \in 1..Len(t) /\ r.off \in Nat
  BY Counts DEF Stands, Rec, Growth
<1>2. Ordinal(t, r) = Ordinal(s, r)
  BY <1>1, OrdinalKept DEF Growth
<1>3. CASE r.seg < Len(s)
  <2>1. t[r.seg] = s[r.seg]
    BY <1>1, <1>3 DEF Growth
  <2> QED BY <1>1, <1>2, <2>1, Counts DEF Keeps, Stands, Durable
<1>4. CASE r.seg = Len(s)
  <2>0. /\ s[r.seg].synced <= t[r.seg].synced
        /\ Len(s[r.seg].data) <= Len(t[r.seg].data)
        /\ \A k \in 1..Len(s[r.seg].data) : t[r.seg].data[k] = s[r.seg].data[k]
    BY <1>1, <1>4 DEF Growth
  <2>1. Len(s[r.seg].data) \in Nat /\ Len(t[r.seg].data) \in Nat /\ s[r.seg].synced \in Nat /\ t[r.seg].synced \in Nat
    BY <1>1, Counts
  <2>2. PICK n \in Nat : n = Len(s[r.seg].data)
    BY <2>1
  <2>3. r.off + 2 <= n
    BY <2>2 DEF Stands
  <2>4. r.off + 1 \in 1..n /\ r.off + 2 \in 1..n
    BY <1>1, <2>3
  <2>8. r.off + 2 <= Len(t[r.seg].data)
    <3>1. PICK m \in Nat : m = Len(t[r.seg].data)
      BY <2>1
    <3>2. n <= m
      BY <2>0, <2>2, <3>1
    <3> QED BY <1>1, <2>3, <3>1, <3>2
  <2>6. /\ t[r.seg].data[r.off + 1] = s[r.seg].data[r.off + 1]
        /\ t[r.seg].data[r.off + 2] = s[r.seg].data[r.off + 2]
    BY <2>0, <2>2, <2>4
  <2>7. Stands(t, r)
    BY <1>1, <2>6, <2>8 DEF Stands
  <2>5. Durable(s, r) => Durable(t, r)
    BY <1>1, <2>0, <2>1 DEF Durable
  <2> QED BY <1>2, <2>5, <2>7 DEF Keeps
<1> QED BY <1>1, <1>3, <1>4

LEMMA CutKeeps ==
    ASSUME NEW s \in Seq(Segment), NEW t \in Seq(Segment), s # <<>>,
           NEW n \in 0..Len(s[Len(s)].data), Cut(s, t, n),
           NEW r \in Rec, Stands(s, r), r.seg = Len(s) => r.off + 2 <= n
    PROVE  Keeps(s, t, r)
<1>1. r.seg \in 1..Len(s) /\ r.seg \in 1..Len(t) /\ r.off \in Nat
  BY Counts DEF Stands, Rec, Cut
<1>2. Ordinal(t, r) = Ordinal(s, r)
  BY <1>1, OrdinalKept DEF Cut
<1>3. CASE r.seg < Len(s)
  <2>1. t[r.seg] = s[r.seg]
    BY <1>1, <1>3 DEF Cut
  <2> QED BY <1>1, <1>2, <2>1, Counts DEF Keeps, Stands, Durable
<1>4. CASE r.seg = Len(s)
  <2>0. t[r.seg].data = SubSeq(s[r.seg].data, 1, n) /\ t[r.seg].synced = n /\ r.off + 2 <= n
    BY <1>1, <1>4 DEF Cut
  <2>1. n \in Nat /\ n <= Len(s[r.seg].data) /\ s[r.seg].data \in Seq(Half) /\ Len(s[r.seg].data) \in Nat
    BY <1>1, <1>4, Counts
  <2>2. Len(t[r.seg].data) = n /\ \A k \in 1..n : t[r.seg].data[k] = s[r.seg].data[k]
    BY <2>0, <2>1
  <2>3. r.off + 1 \in 1..n /\ r.off + 2 \in 1..n
    BY <1>1, <2>0, <2>1
  <2>4. Stands(t, r)
    BY <1>1, <2>0, <2>2, <2>3, Counts DEF Stands
  <2>5. Durable(t, r)
    BY <2>0 DEF Durable
  <2> QED BY <1>2, <2>4, <2>5 DEF Keeps
<1> QED BY <1>1, <1>3, <1>4

-----------------------------------------------------------------------------
(* The chain of committed and appended records.                            *)

Pending == IF laneAt = "answer" THEN <<>> ELSE laneCtx.recs

LEMMA PendingTyped == FilesTyped => Pending \in Seq(Rec)
  BY DEF FilesTyped, LaneCtx, Pending

LEMMA ChainIs ==
    FilesTyped => /\ Chain \in Seq(Rec) /\ Chain = committed \o Pending
                  /\ Len(committed) \in Nat /\ DOMAIN committed = 1..Len(committed)
                  /\ Len(Pending) \in Nat /\ DOMAIN Pending = 1..Len(Pending)
                  /\ Len(Chain) = Len(committed) + Len(Pending) /\ DOMAIN Chain = 1..Len(Chain)
                  /\ \A k \in DOMAIN committed : k \in DOMAIN Chain /\ Chain[k] = committed[k] /\ committed[k] \in Rec
                  /\ \A k \in DOMAIN Pending : /\ Len(committed) + k \in DOMAIN Chain
                                               /\ Chain[Len(committed) + k] = Pending[k] /\ Pending[k] \in Rec
                  /\ \A k \in DOMAIN Chain : Chain[k] \in Rec
<1> SUFFICES ASSUME FilesTyped PROVE
                  /\ Chain \in Seq(Rec) /\ Chain = committed \o Pending
                  /\ Len(committed) \in Nat /\ DOMAIN committed = 1..Len(committed)
                  /\ Len(Pending) \in Nat /\ DOMAIN Pending = 1..Len(Pending)
                  /\ Len(Chain) = Len(committed) + Len(Pending) /\ DOMAIN Chain = 1..Len(Chain)
                  /\ \A k \in DOMAIN committed : k \in DOMAIN Chain /\ Chain[k] = committed[k] /\ committed[k] \in Rec
                  /\ \A k \in DOMAIN Pending : /\ Len(committed) + k \in DOMAIN Chain
                                               /\ Chain[Len(committed) + k] = Pending[k] /\ Pending[k] \in Rec
                  /\ \A k \in DOMAIN Chain : Chain[k] \in Rec
  OBVIOUS
<1>1. Pending \in Seq(Rec) /\ committed \in Seq(Rec)
  BY PendingTyped DEF FilesTyped
<1>2. Chain = committed \o Pending
  BY DEF Chain, Pending
<1> HIDE DEF Pending, Chain
<1> QED BY <1>1, <1>2

\* A chain that is no longer than it was, of records that are kept.
LEMMA ChainStep ==
    ASSUME ChainSound, asked \in Nat, asked' \in Nat, asked <= asked',
           \A k \in DOMAIN Chain' : /\ k \in DOMAIN Chain /\ Chain'[k] = Chain[k]
                                    /\ Keeps(segs, segs', Chain[k])
    PROVE  /\ \A k \in DOMAIN Chain' : Stands(segs', Chain'[k]) /\ Chain'[k].id \in 1..asked'
           /\ \A i, k \in DOMAIN Chain' : i < k => Ordinal(segs', Chain'[i]) < Ordinal(segs', Chain'[k])
<1>1. ASSUME NEW k \in DOMAIN Chain' PROVE Stands(segs', Chain'[k]) /\ Chain'[k].id \in 1..asked'
  BY <1>1 DEF ChainSound, Keeps
<1>2. ASSUME NEW i \in DOMAIN Chain', NEW k \in DOMAIN Chain', i < k
      PROVE  Ordinal(segs', Chain'[i]) < Ordinal(segs', Chain'[k])
  <2>1. /\ Ordinal(segs', Chain'[i]) = Ordinal(segs, Chain[i])
        /\ Ordinal(segs', Chain'[k]) = Ordinal(segs, Chain[k])
    BY <1>2 DEF Keeps
  <2> QED BY <1>2, <2>1 DEF ChainSound
<1> QED BY <1>1, <1>2

LEMMA ChainKept ==
    ASSUME FilesTyped, ChainSound, segs' \in Seq(Segment), Growth(segs, segs')
    PROVE  \A k \in DOMAIN Chain : Keeps(segs, segs', Chain[k])
<1> SUFFICES ASSUME NEW k \in DOMAIN Chain PROVE Keeps(segs, segs', Chain[k])
  OBVIOUS
<1>1. Chain[k] \in Rec /\ segs \in Seq(Segment)
  BY ChainIs DEF FilesTyped
<1>2. Stands(segs, Chain[k])
  BY DEF ChainSound
<1> QED BY <1>1, <1>2, GrowthKeeps

\* A step of a commit that neither commits nor answers.
LEMMA GoesOn ==
    ASSUME FilesTyped, ChainSound, CursorsSound, ServedSound,
           FilesTyped', Growth(segs, segs'), asked <= asked',
           committed' = committed, served' = served, laneMode' = laneMode,
           laneAt # "answer", laneAt' # "answer",
           \/ laneCtx'.recs = laneCtx.recs /\ laneCtx'.cursors = laneCtx.cursors
           \/ laneCtx'.recs = <<>> /\ laneCtx'.cursors = <<>>,
           laneAt' = "marker" => \A k \in DOMAIN laneCtx'.recs : Durable(segs', laneCtx'.recs[k])
    PROVE  ChainSound' /\ CursorsSound' /\ ServedSound'
<1>0. segs \in Seq(Segment) /\ segs' \in Seq(Segment) /\ asked \in Nat /\ asked' \in Nat
  BY DEF FilesTyped
<1>1. \A k \in DOMAIN Chain : Keeps(segs, segs', Chain[k])
  BY <1>0, ChainKept
<1>2. Chain = committed \o laneCtx.recs /\ Chain' = committed \o laneCtx'.recs
  BY DEF Chain
<1>3. /\ committed \in Seq(Rec) /\ laneCtx.recs \in Seq(Rec)
  BY DEF FilesTyped, LaneCtx
<1>4. \A k \in DOMAIN committed : k \in DOMAIN Chain /\ Chain[k] = committed[k]
  BY ChainIs
<1>5. \A k \in DOMAIN Chain' : k \in DOMAIN Chain /\ Chain'[k] = Chain[k]
  <2>1. CASE laneCtx'.recs = laneCtx.recs
    BY <1>2, <2>1
  <2>2. CASE laneCtx'.recs = <<>>
    <3>1. Chain' = committed
      BY <1>2, <1>3, <2>2
    <3> QED BY <1>4, <3>1
  <2> QED BY <2>1, <2>2
<1>6. ChainSound'
  <2>1. /\ \A k \in DOMAIN Chain' : Stands(segs', Chain'[k]) /\ Chain'[k].id \in 1..asked'
        /\ \A i, k \in DOMAIN Chain' : i < k => Ordinal(segs', Chain'[i]) < Ordinal(segs', Chain'[k])
    <3> HIDE DEF Chain
    <3> QED BY <1>0, <1>1, <1>5, ChainStep
  <2>2. \A k \in DOMAIN committed' : Durable(segs', committed'[k])
    BY <1>1, <1>4 DEF ChainSound, Keeps
  <2> QED BY <2>1, <2>2 DEF ChainSound
<1>7. CursorsSound'
  <2>1. CASE laneCtx'.recs = <<>> /\ laneCtx'.cursors = <<>>
    BY <2>1 DEF CursorsSound
  <2>2. CASE laneCtx'.recs = laneCtx.recs /\ laneCtx'.cursors = laneCtx.cursors
    <3>1. \A k \in DOMAIN laneCtx.recs : Len(committed) + k \in DOMAIN Chain /\ Chain[Len(committed) + k] = laneCtx.recs[k]
      BY ChainIs DEF Pending
    <3>2. \A k \in DOMAIN laneCtx.recs : Ordinal(segs', laneCtx.recs[k]) = Ordinal(segs, laneCtx.recs[k])
      BY <1>1, <3>1 DEF Keeps
    <3> QED BY <2>2, <3>2 DEF CursorsSound
  <2> QED BY <2>1, <2>2
<1>8. ServedSound'
  <2>1. \A k \in DOMAIN committed : Entry(segs', committed[k]) = Entry(segs, committed[k])
    BY <1>1, <1>4 DEF Keeps, Entry
  <2>2. DOMAIN committed = 1..Len(committed) /\ Len(committed) \in Nat
    BY <1>3
  <2>3. DOMAIN served = 1..Len(served)
    BY DEF FilesTyped
  <2> QED BY <2>1, <2>2, <2>3 DEF ServedSound
<1> QED BY <1>6, <1>7, <1>8

-----------------------------------------------------------------------------
(* Changes of the last segment.                                            *)

\* d is as long as off says.
Long(d, off) == off \in Nat /\ Len(d) = off

\* t is s with g as its segment n.
Changed(s, n, g, t) == t = [s EXCEPT ![n] = g]

LEMMA TotalIs ==
    ASSUME NEW s, s \in Seq(Segment), NEW n, n \in Nat \ {0}, Long(s, n)
    PROVE  Total(s) = Base(s, n) + (Len(s[n].data) \div 2) /\ Base(s, n) \in Nat
<1>0. Len(s) = n
  BY DEF Long
<1>1. n \in 1..(Len(s) + 1) /\ s # <<>>
  BY <1>0
<1> QED BY <1>0, <1>1, BaseNat DEF Total

\* What t then is.
Becomes(s, n, g, t) ==
    /\ t \in Seq(Segment) /\ Segments(t) /\ t # <<>>
    /\ Long(t, n) /\ t[n] = g /\ \A j \in 1..(n - 1) : t[j] = s[j]
    /\ Base(t, n) = Base(s, n) /\ Base(s, n) \in Nat
    /\ Total(t) = Base(s, n) + (Len(g.data) \div 2)

LEMMA LastChanged ==
    ASSUME NEW s, s \in Seq(Segment), Segments(s), NEW n, n \in Nat \ {0}, Long(s, n), NEW g, g \in Segment, Sound(g),
           NEW t, Changed(s, n, g, t)
    PROVE  Becomes(s, n, g, t)
<1>1. Len(s) = n /\ DOMAIN s = 1..n /\ \A j \in 1..n : s[j] \in Segment
  BY Counts DEF Long
<1>2. t = [j \in 1..n |-> IF j = n THEN g ELSE s[j]]
  BY <1>1 DEF Changed
<1>3. /\ t \in Seq(Segment) /\ Long(t, n) /\ DOMAIN t = 1..n
      /\ t[n] = g /\ \A j \in 1..(n - 1) : t[j] = s[j]
  BY <1>1, <1>2 DEF Long
<1>4. Segments(t)
  <2>1. ASSUME NEW i \in 1..n PROVE Sound(t[i])
    <3>1. t[i] = g \/ t[i] = s[i]
      BY <1>2, <2>1
    <3> QED BY <1>1, <3>1 DEF Segments
  <2>2. \A i \in 1..(n - 1) : t[i].seal.whole
    BY <1>1, <1>3 DEF Segments
  <2>3. Len(t) = n
    BY <1>3 DEF Long
  <2> QED BY <1>3, <2>1, <2>2, <2>3 DEF Segments
<1>5. Base(t, n) = Base(s, n) /\ Base(s, n) \in Nat
  <2>0. Len(t) = n
    BY <1>3 DEF Long
  <2>1. n \in 1..(Len(s) + 1) /\ n <= Len(t) + 1
    BY <1>1, <2>0
  <2> QED BY <1>3, <2>1, BaseSame, BaseNat
<1>6. t # <<>>
  BY <1>3 DEF Long
<1>7. Total(t) = Base(t, n) + (Len(g.data) \div 2)
  BY <1>3, TotalIs
<1> QED BY <1>3, <1>4, <1>5, <1>6, <1>7, Zenon DEF Becomes

LEMMA TwoMore ==
    ASSUME NEW d \in Seq(Half), NEW b \in Half, NEW l \in Half
    PROVE  /\ d \o <<b, l>> \in Seq(Half) /\ Len(d \o <<b, l>>) = Len(d) + 2
           /\ \A k \in 1..Len(d) : (d \o <<b, l>>)[k] = d[k]
           /\ (d \o <<b, l>>)[Len(d) + 1] = b /\ (d \o <<b, l>>)[Len(d) + 2] = l
  OBVIOUS

\* e is d and one more line.
LineMore(d, off, id, e) ==
    /\ e \in Seq(Half) /\ Long(e, off + 2) /\ Alternates(e)
    /\ \A k \in 1..off : e[k] = d[k]
    /\ e[off + 1] = [id |-> id, half |-> "body"]
    /\ e[off + 2] = [id |-> id, half |-> "lf"]

LEMMA LineAdded ==
    ASSUME NEW d, d \in Seq(Half), Alternates(d), NEW off, Long(d, off), off % 2 = 0, NEW id, id \in Nat
    PROVE  LineMore(d, off, id, d \o Line(id))
<1> DEFINE b == [id |-> id, half |-> "body"]
           l == [id |-> id, half |-> "lf"]
           e == d \o <<b, l>>
<1>1. b \in Half /\ l \in Half /\ b.half = "body" /\ l.half = "lf" /\ d \o Line(id) = e
  BY DEF Half, Line
<1> HIDE DEF b, l
<1>0. DOMAIN d = 1..off /\ off \in Nat
  BY DEF Long
<1>2. /\ e \in Seq(Half) /\ Len(e) = off + 2 /\ \A k \in 1..off : e[k] = d[k]
      /\ e[off + 1] = b /\ e[off + 2] = l
  <2>1. /\ e \in Seq(Half) /\ Len(e) = Len(d) + 2 /\ \A k \in 1..Len(d) : e[k] = d[k]
        /\ e[Len(d) + 1] = b /\ e[Len(d) + 2] = l
    <3>1. b \in Half /\ l \in Half
      BY <1>1
    <3> QED BY <3>1, TwoMore
  <2>2. Len(d) = off
    BY DEF Long
  <2> HIDE DEF e
  <2> QED BY <2>1, <2>2, Zenon
<1> HIDE DEF e
<1>3. ASSUME NEW k \in 1..(off + 2) PROVE e[k].half = "lf" <=> k % 2 = 0
  <2>1. CASE k \in 1..off
    <3>1. d[k].half = "lf" <=> k % 2 = 0
      BY <1>0, <2>1, Zenon DEF Alternates
    <3> QED BY <1>2, <2>1, <3>1, Zenon
  <2>2. CASE k = off + 1
    <3>1. (off + 1) % 2 = 1
      BY <1>0, Halves
    <3>2. e[off + 1].half = "lf" <=> (off + 1) % 2 = 0
      BY <1>1, <1>2, <3>1
    <3> QED BY <2>2, <3>2, Zenon
  <2>3. CASE k = off + 2
    <3>1. (off + 2) % 2 = 0
      BY <1>0, Halves
    <3>2. e[off + 2].half = "lf" <=> (off + 2) % 2 = 0
      BY <1>1, <1>2, <3>1
    <3> QED BY <2>3, <3>2, Zenon
  <2>4. k \in 1..off \/ k = off + 1 \/ k = off + 2
    BY <1>0, Halves, Zenon
  <2> QED BY <2>1, <2>2, <2>3, <2>4, Zenon
<1>4. off + 2 \in Nat
  BY <1>0
<1>5. DOMAIN e = 1..(off + 2)
  BY <1>2
<1>6. Alternates(e)
  BY <1>3, <1>5, Zenon DEF Alternates
<1>7. LineMore(d, off, id, e)
  BY <1>1, <1>2, <1>4, <1>6, Zenon DEF Long, LineMore, b, l
<1> QED BY <1>1, <1>7, Zenon

LEMMA LastIs ==
    ASSUME NEW s, s \in Seq(Segment), Segments(s), NEW n, n \in Nat \ {0}, Long(s, n)
    PROVE  /\ s[n] \in Segment /\ Sound(s[n]) /\ s # <<>> /\ n \in 1..Len(s) /\ DOMAIN s = 1..n
           /\ \E d \in Seq(Half), y \in Nat, l \in Seal : s[n] = [data |-> d, synced |-> y, seal |-> l]
<1>1. s[n] \in Segment /\ n \in 1..Len(s) /\ DOMAIN s = 1..n /\ s # <<>>
  BY Counts DEF Long
<1>2. Sound(s[n])
  BY <1>1 DEF Segments
<1> QED BY <1>1, <1>2 DEF Segment

\* Growth, when only the last segment changes.
LEMMA LastGrows ==
    ASSUME NEW s, NEW n, n \in Nat \ {0}, Long(s, n), NEW t, Long(t, n),
           \A j \in 1..(n - 1) : t[j] = s[j], s[n].synced <= t[n].synced,
           NEW a, Long(s[n].data, a), NEW b, Long(t[n].data, b), a <= b,
           \A k \in 1..a : t[n].data[k] = s[n].data[k]
    PROVE  Growth(s, t)
<1>1. Len(s) = n /\ Len(t) = n /\ Len(s[n].data) = a /\ Len(t[n].data) = b /\ n \in Nat
  BY DEF Long
<1>2. n <= n
  BY <1>1
<1> QED BY <1>1, <1>2, Zenon DEF Growth

LEMMA Updates ==
    ASSUME NEW s, NEW n, NEW d, NEW y, NEW l, NEW x, s[n] = [data |-> d, synced |-> y, seal |-> l]
    PROVE  /\ Changed(s, n, [data |-> x, synced |-> y, seal |-> l], [s EXCEPT ![n].data = x])
           /\ Changed(s, n, [data |-> d, synced |-> x, seal |-> l], [s EXCEPT ![n].synced = x])
           /\ Changed(s, n, [data |-> d, synced |-> y, seal |-> x], [s EXCEPT ![n].seal = x])
<1>1. /\ [s[n] EXCEPT !.data = x] = [data |-> x, synced |-> y, seal |-> l]
      /\ [s[n] EXCEPT !.synced = x] = [data |-> d, synced |-> x, seal |-> l]
      /\ [s[n] EXCEPT !.seal = x] = [data |-> d, synced |-> y, seal |-> x]
  OBVIOUS
<1> QED BY <1>1, Zenon DEF Changed

\* t is s, grown at its segment n.
Grown(s, n, t) ==
    t \in Seq(Segment) /\ Segments(t) /\ Growth(s, t) /\ t # <<>> /\ Long(t, n)

\* What t is after the line of id was written at off.
LineOn(s, n, off, id, t) ==
    /\ Grown(s, n, t) /\ Total(t) = Total(s) + 1
    /\ Long(t[n].data, off + 2) /\ ~t[n].seal.whole
    /\ Stands(t, [seg |-> n, off |-> off, id |-> id])
    /\ Ordinal(t, [seg |-> n, off |-> off, id |-> id]) = Total(t)

Appended(s, n, id, t) == t = [s EXCEPT ![n].data = s[n].data \o Line(id)]

LEMMA LineAppended ==
    ASSUME NEW s, s \in Seq(Segment), Segments(s), NEW n, n \in Nat \ {0}, Long(s, n), ~s[n].seal.whole,
           NEW off, Long(s[n].data, off), off % 2 = 0, NEW id, id \in Nat,
           NEW t, Appended(s, n, id, t)
    PROVE  LineOn(s, n, off, id, t)
<1>1. PICK d \in Seq(Half), y \in Nat, l \in Seal : s[n] = [data |-> d, synced |-> y, seal |-> l]
  BY LastIs
<1>2. d = s[n].data /\ y = s[n].synced /\ l = s[n].seal
  BY <1>1
<1>3. Long(d, off) /\ ~l.whole /\ off \in Nat
  BY <1>2 DEF Long
<1>5. Len(d) = off
  BY <1>3 DEF Long
<1>4. Alternates(d) /\ y <= off
  <2>1. Sound(s[n])
    BY LastIs
  <2> QED BY <1>2, <1>5, <2>1 DEF Sound
<1> DEFINE e == d \o Line(id)
           g == [data |-> e, synced |-> y, seal |-> l]
<1>6. /\ e \in Seq(Half) /\ Long(e, off + 2) /\ Alternates(e)
      /\ \A k \in 1..off : e[k] = d[k]
      /\ e[off + 1] = [id |-> id, half |-> "body"] /\ e[off + 2] = [id |-> id, half |-> "lf"]
  <2>1. LineMore(d, off, id, e)
    BY <1>3, <1>4, LineAdded
  <2> QED BY <2>1, Zenon DEF LineMore
<1>7. Changed(s, n, g, t)
  <2>1. Changed(s, n, [data |-> e, synced |-> y, seal |-> l], [s EXCEPT ![n].data = e])
    <3> HIDE DEF e
    <3> QED BY <1>1, Updates
  <2>2. t = [s EXCEPT ![n].data = e]
    BY <1>2 DEF Appended
  <2> HIDE DEF e
  <2> QED BY <2>1, <2>2, Zenon
<1> HIDE DEF e
<1>8. g \in Segment /\ g.data = e /\ g.synced = y /\ g.seal = l
  BY <1>6 DEF Segment
<1> HIDE DEF g
<1>9. Sound(g)
  <2>1. y <= off + 2 /\ Len(e) = off + 2
    BY <1>3, <1>4, <1>6 DEF Long
  <2> QED BY <1>3, <1>6, <1>8, <2>1 DEF Sound
<1>10. /\ t \in Seq(Segment) /\ Segments(t) /\ t # <<>>
       /\ Long(t, n) /\ t[n] = g /\ \A j \in 1..(n - 1) : t[j] = s[j]
       /\ Base(t, n) = Base(s, n) /\ Base(s, n) \in Nat
       /\ Total(t) = Base(s, n) + (Len(g.data) \div 2)
  <2>1. g \in Segment
    BY <1>8
  <2>2. Becomes(s, n, g, t)
    BY <2>1, <1>7, <1>9, LastChanged
  <2> QED BY <2>2, Zenon DEF Becomes
<1>11. PICK b \in Nat : Base(s, n) = b
  BY <1>10, Zenon
<1>12. Total(s) = b + (off \div 2)
  <2>1. Total(s) = Base(s, n) + (Len(s[n].data) \div 2)
    BY TotalIs
  <2> QED BY <1>2, <1>5, <1>11, <2>1, Zenon
<1>13. Total(t) = b + ((off + 2) \div 2)
  <2>1. Len(g.data) = off + 2
    BY <1>6, <1>8, Zenon DEF Long
  <2> QED BY <1>10, <1>11, <2>1, Zenon
<1>14. Total(t) = b + (off \div 2) + 1 /\ Total(t) = Total(s) + 1
  <2>1. ((off + 2) \div 2) = (off \div 2) + 1 /\ off \div 2 \in Nat
    BY <1>3, Halves
  <2>2. PICK h \in Nat : off \div 2 = h
    BY <2>1, Zenon
  <2>3. Total(s) = b + h /\ Total(t) = b + (h + 1)
    BY <1>12, <1>13, <2>1, <2>2, Zenon
  <2>4. b \in Nat
    BY <1>10, <1>11, Zenon
  <2>5. b + (h + 1) = b + h + 1
    BY <2>2, <2>4
  <2> QED BY <2>2, <2>3, <2>5, Zenon
<1>15. Long(t[n].data, off + 2) /\ ~t[n].seal.whole
  BY <1>3, <1>6, <1>8, <1>10, Zenon
<1>16. Growth(s, t)
  <2>1. off <= off + 2 /\ y <= y
    BY <1>1, <1>3
  <2>2. s[n].synced <= t[n].synced
    BY <1>2, <1>8, <1>10, <2>1, Zenon
  <2>3. \A k \in 1..off : t[n].data[k] = s[n].data[k]
    BY <1>2, <1>6, <1>8, <1>10, Zenon
  <2>4. Long(t, n) /\ Long(t[n].data, off + 2) /\ \A j \in 1..(n - 1) : t[j] = s[j]
    BY <1>10, <1>15
  <2> QED BY <2>1, <2>2, <2>3, <2>4, LastGrows
<1>17. Stands(t, [seg |-> n, off |-> off, id |-> id])
  <2>1. n \in DOMAIN t
    BY <1>10 DEF Long
  <2>2. off + 2 <= Len(t[n].data)
    BY <1>3, <1>15 DEF Long
  <2>3. /\ t[n].data[off + 1] = [id |-> id, half |-> "body"]
        /\ t[n].data[off + 2] = [id |-> id, half |-> "lf"]
    BY <1>6, <1>8, <1>10, Zenon
  <2> QED BY <2>1, <2>2, <2>3 DEF Stands
<1>18. Ordinal(t, [seg |-> n, off |-> off, id |-> id]) = b + (off \div 2) + 1
  BY <1>10, <1>11 DEF Ordinal
<1> QED BY <1>10, <1>14, <1>15, <1>16, <1>17, <1>18, Zenon DEF LineOn, Grown

\* A segment with the bytes it had keeps the total.
LEMMA SameBytes ==
    ASSUME NEW s, s \in Seq(Segment), Segments(s), NEW n, n \in Nat \ {0}, Long(s, n),
           NEW g, g \in Segment, Sound(g), g.data = s[n].data, s[n].synced <= g.synced, NEW t, Changed(s, n, g, t)
    PROVE  Grown(s, n, t) /\ t[n] = g /\ Total(t) = Total(s)
<1>1. Becomes(s, n, g, t)
  BY LastChanged
<1>2. /\ t \in Seq(Segment) /\ Segments(t) /\ t # <<>> /\ Long(t, n) /\ t[n] = g
      /\ \A j \in 1..(n - 1) : t[j] = s[j]
      /\ Total(t) = Base(s, n) + (Len(g.data) \div 2)
  BY <1>1, Zenon DEF Becomes
<1>3. Total(s) = Base(s, n) + (Len(s[n].data) \div 2)
  BY TotalIs
<1>4. PICK a \in Nat : Long(s[n].data, a)
  <2>1. s[n] \in Segment
    BY LastIs
  <2>2. Len(s[n].data) \in Nat
    BY <2>1 DEF Segment
  <2> QED BY <2>2 DEF Long
<1>5. a <= a
  OBVIOUS
<1>6. Growth(s, t)
  <2>1. Long(t[n].data, a) /\ s[n].synced <= t[n].synced /\ \A k \in 1..a : t[n].data[k] = s[n].data[k]
    BY <1>2, <1>4, Zenon
  <2> QED BY <1>2, <1>4, <1>5, <2>1, LastGrows
<1> QED BY <1>2, <1>3, <1>6, Zenon DEF Grown

WasSynced(s, n, t) == t = [s EXCEPT ![n].synced = Len(s[n].data)]

\* What t is after the fsync of segment n.
SyncOn(s, n, t) ==
    /\ Grown(s, n, t) /\ Total(t) = Total(s)
    /\ t[n].data = s[n].data /\ t[n].seal = s[n].seal /\ t[n].synced = Len(s[n].data)

LEMMA LastSynced ==
    ASSUME NEW s, s \in Seq(Segment), Segments(s), NEW n, n \in Nat \ {0}, Long(s, n), NEW t, WasSynced(s, n, t)
    PROVE  SyncOn(s, n, t)
<1>1. PICK d \in Seq(Half), y \in Nat, l \in Seal : s[n] = [data |-> d, synced |-> y, seal |-> l]
  BY LastIs
<1>2. d = s[n].data /\ y = s[n].synced /\ l = s[n].seal
  BY <1>1
<1>3. PICK a \in Nat : Len(d) = a
  OBVIOUS
<1>4. Sound(s[n])
  BY LastIs
<1>5. /\ y <= a /\ Alternates(d)
      /\ l.whole => l.data = d /\ Len(d) = 2 * l.count
  BY <1>2, <1>3, <1>4 DEF Sound
<1> DEFINE g == [data |-> d, synced |-> a, seal |-> l]
<1>6. g \in Segment /\ g.data = d /\ g.synced = a /\ g.seal = l
  BY DEF Segment
<1>7. Changed(s, n, g, t)
  <2>1. Changed(s, n, g, [s EXCEPT ![n].synced = a])
    BY <1>1, Updates
  <2>2. t = [s EXCEPT ![n].synced = a]
    BY <1>2, <1>3 DEF WasSynced
  <2> QED BY <2>1, <2>2, Zenon
<1> HIDE DEF g
<1>8. Sound(g)
  <2>1. a <= a
    OBVIOUS
  <2> QED BY <1>3, <1>5, <1>6, <2>1, Zenon DEF Sound
<1>9. g \in Segment /\ g.data = s[n].data /\ s[n].synced <= g.synced
  BY <1>2, <1>5, <1>6, Zenon
<1>10. Grown(s, n, t) /\ t[n] = g /\ Total(t) = Total(s)
  BY <1>7, <1>8, <1>9, SameBytes
<1> QED BY <1>2, <1>3, <1>6, <1>10, Zenon DEF SyncOn

WasSealed(s, n, count, t) == t = [s EXCEPT ![n].seal = [whole |-> TRUE, count |-> count, data |-> s[n].data]]

\* What t is after the manifest of segment n.
SealOn(s, n, t) ==
    /\ Grown(s, n, t) /\ Total(t) = Total(s)
    /\ t[n].data = s[n].data /\ t[n].seal.whole /\ t[n].synced = s[n].synced

LEMMA LastSealed ==
    ASSUME NEW s, s \in Seq(Segment), Segments(s), NEW n, n \in Nat \ {0}, Long(s, n), NEW count, count \in Nat,
           s[n].synced = Len(s[n].data), Len(s[n].data) = 2 * count, NEW t, WasSealed(s, n, count, t)
    PROVE  SealOn(s, n, t)
<1>1. PICK d \in Seq(Half), y \in Nat, l \in Seal : s[n] = [data |-> d, synced |-> y, seal |-> l]
  BY LastIs
<1>2. d = s[n].data /\ y = s[n].synced
  BY <1>1
<1>4. Sound(s[n])
  BY LastIs
<1>5. y <= Len(d) /\ Alternates(d) /\ y = Len(d) /\ Len(d) = 2 * count
  BY <1>2, <1>4, Zenon DEF Sound
<1> DEFINE m == [whole |-> TRUE, count |-> count, data |-> d]
           g == [data |-> d, synced |-> y, seal |-> m]
<1>6. m \in Seal /\ m.whole /\ m.count = count /\ m.data = d
  BY DEF Seal
<1>7. Changed(s, n, g, t)
  <2>1. t = [s EXCEPT ![n].seal = m]
    BY <1>2, Zenon DEF WasSealed
  <2> HIDE DEF m
  <2>2. Changed(s, n, g, [s EXCEPT ![n].seal = m])
    BY <1>1, Updates
  <2> QED BY <2>1, <2>2, Zenon
<1> HIDE DEF m
<1>8. g \in Segment /\ g.data = d /\ g.synced = y /\ g.seal = m
  BY <1>6 DEF Segment
<1> HIDE DEF g
<1>9. Sound(g)
  BY <1>5, <1>6, <1>8, Zenon DEF Sound
<1>10. y <= y
  OBVIOUS
<1>11. g \in Segment /\ g.data = s[n].data /\ s[n].synced <= g.synced
  BY <1>2, <1>8, <1>10, Zenon
<1>12. Grown(s, n, t) /\ t[n] = g /\ Total(t) = Total(s)
  BY <1>7, <1>9, <1>11, SameBytes
<1> QED BY <1>2, <1>6, <1>8, <1>12, Zenon DEF SealOn

\* What t is after a segment was added.
NewOn(s, n, t) ==
    /\ Grown(s, n + 1, t) /\ Total(t) = Total(s)
    /\ t[n + 1] = EmptySegment /\ \A j \in 1..n : t[j] = s[j]

LEMMA EmptyIs ==
    /\ EmptySegment \in Segment /\ Sound(EmptySegment) /\ ~EmptySegment.seal.whole
    /\ EmptySegment.data = <<>> /\ EmptySegment.synced = 0
<1>1. NoManifest \in Seal /\ ~NoManifest.whole
  BY DEF NoManifest, Seal
<1>2. EmptySegment \in Segment /\ EmptySegment.seal = NoManifest /\ EmptySegment.data = <<>> /\ EmptySegment.synced = 0
  BY <1>1 DEF EmptySegment, Segment
<1>3. Alternates(EmptySegment.data) /\ EmptySegment.synced <= Len(EmptySegment.data)
  BY <1>2 DEF Alternates
<1> QED BY <1>1, <1>2, <1>3, Zenon DEF Sound

LEMMA SegmentAdded ==
    ASSUME NEW s, s \in Seq(Segment), Segments(s), NEW n, Long(s, n), n # 0 => s[n].seal.whole,
           NEW t, t = Append(s, EmptySegment)
    PROVE  NewOn(s, n, t)
<1>0. n \in Nat /\ Len(s) = n
  BY DEF Long
<1> DEFINE e == EmptySegment
<1>1. e \in Segment /\ Sound(e) /\ ~e.seal.whole /\ Len(e.data) = 0
  BY EmptyIs
<1> HIDE DEF e
<1>2. t \in Seq(Segment) /\ Len(t) = Len(s) + 1 /\ t[Len(s) + 1] = e /\ \A j \in 1..Len(s) : t[j] = s[j]
  BY <1>1 DEF e
<1>3. Long(t, n + 1) /\ t[n + 1] = e /\ \A j \in 1..n : t[j] = s[j]
  BY <1>0, <1>2 DEF Long
<1>4. t # <<>>
  BY <1>0, <1>2
<1>5. DOMAIN t = 1..(n + 1) /\ DOMAIN s = 1..n /\ Len(t) = n + 1
  BY <1>0, <1>2
<1>6. Segments(t)
  <2>1. ASSUME NEW i \in 1..(n + 1) PROVE Sound(t[i])
    <3>1. i \in 1..n \/ i = n + 1
      BY <1>0
    <3> QED BY <1>1, <1>3, <1>5, <3>1, Zenon DEF Segments
  <2>2. ASSUME NEW i \in 1..n PROVE t[i].seal.whole
    <3>1. i \in 1..(n - 1) \/ (i = n /\ n # 0)
      BY <1>0
    <3> QED BY <1>0, <1>3, <3>1 DEF Segments
  <2>3. (n + 1) - 1 = n
    BY <1>0
  <2> QED BY <1>5, <2>1, <2>2, <2>3, Zenon DEF Segments
<1>7. Growth(s, t)
  <2>1. Len(s) <= Len(t) /\ \A j \in 1..(Len(s) - 1) : t[j] = s[j]
    BY <1>0, <1>3, <1>5
  <2>2. CASE s = <<>>
    BY <2>1, <2>2 DEF Growth
  <2>3. CASE s # <<>>
    <3>1. Len(s) \in 1..Len(s) /\ n \in 1..n
      BY <1>0, <2>3
    <3>2. t[Len(s)] = s[Len(s)]
      BY <1>2, <3>1
    <3>3. s[Len(s)].synced \in Nat /\ Len(s[Len(s)].data) \in Nat
      BY <3>1, Counts
    <3> QED BY <2>1, <3>2, <3>3 DEF Growth
  <2> QED BY <2>2, <2>3
<1>8. Base(t, n + 1) = Base(s, n + 1)
  <2>1. n + 1 \in 1..(Len(s) + 1) /\ n + 1 <= Len(t) + 1 /\ \A j \in 1..((n + 1) - 1) : t[j] = s[j]
    BY <1>0, <1>3, <1>5
  <2> QED BY <1>2, <2>1, BaseSame
<1>9. Total(t) = Base(s, n + 1) /\ Base(s, n + 1) \in Nat
  <2>1. Total(t) = Base(t, n + 1) + (Len(t[n + 1].data) \div 2)
    <3>1. n + 1 \in Nat \ {0}
      BY <1>0
    <3> QED BY <1>2, <1>3, <3>1, TotalIs
  <2>2. Total(t) = Base(s, n + 1) + (0 \div 2)
    BY <1>1, <1>3, <1>8, <2>1, Zenon
  <2>3. n + 1 \in 1..(Len(s) + 1)
    BY <1>0
  <2>4. PICK b \in Nat : Base(s, n + 1) = b
    BY <2>3, BaseNat
  <2>5. Total(t) = b + (0 \div 2)
    BY <2>2, <2>4, Zenon
  <2> QED BY <2>4, <2>5
<1>10. Base(s, n + 1) = Total(s)
  <2>1. CASE n = 0
    <3>1. s = <<>> /\ 0 + 1 = 1
      BY <1>0, <2>1
    <3> QED BY <2>1, <3>1, BaseFirst DEF Total
  <2>2. CASE n # 0
    <3>1. n \in 1..Len(s) /\ n \in Nat \ {0}
      BY <1>0, <2>2
    <3>2. Base(s, n + 1) = Base(s, n) + s[n].seal.count
      BY <3>1, BaseNext
    <3>3. Total(s) = Base(s, n) + (Len(s[n].data) \div 2)
      BY <3>1, TotalIs
    <3>4. PICK c \in Nat : s[n].seal.count = c
      BY <3>1, Counts
    <3>5. Sound(s[n])
      BY <3>1, LastIs
    <3>6. Len(s[n].data) = 2 * c
      BY <2>2, <3>4, <3>5 DEF Sound
    <3>7. (2 * c) \div 2 = c
      BY Halves
    <3> QED BY <3>2, <3>3, <3>4, <3>6, <3>7, Zenon
  <2> QED BY <2>1, <2>2
<1>11. Total(t) = Total(s)
  BY <1>9, <1>10
<1> QED BY <1>2, <1>3, <1>4, <1>6, <1>7, <1>11, Zenon DEF NewOn, Grown, e

\* What t is after segment n was cut to its first k bytes.
CutOn(s, n, k, t) ==
    /\ t \in Seq(Segment) /\ Segments(t) /\ Cut(s, t, k) /\ t # <<>> /\ Long(t, n) /\ Total(t) <= Total(s)
    /\ t[n].seal = s[n].seal /\ Long(t[n].data, k)

LEMMA LastCut ==
    ASSUME NEW s, s \in Seq(Segment), Segments(s), NEW n, n \in Nat \ {0}, Long(s, n),
           NEW a, Long(s[n].data, a), NEW k, k \in 0..a, s[n].seal.whole => k = a,
           NEW t, Changed(s, n, [data |-> SubSeq(s[n].data, 1, k), synced |-> k, seal |-> s[n].seal], t)
    PROVE  CutOn(s, n, k, t)
<1>1. PICK d \in Seq(Half), y \in Nat, l \in Seal : s[n] = [data |-> d, synced |-> y, seal |-> l]
  BY LastIs
<1>2. d = s[n].data /\ l = s[n].seal
  BY <1>1
<1>3. a \in Nat /\ k \in Nat /\ k <= a
  BY DEF Long
<1>4. Len(d) = a
  BY <1>2 DEF Long
<1>5. Sound(s[n])
  BY LastIs
<1>6. Alternates(d) /\ (l.whole => l.data = d /\ Len(d) = 2 * l.count)
  BY <1>2, <1>5, Zenon DEF Sound
<1> DEFINE e == SubSeq(d, 1, k)
           g == [data |-> e, synced |-> k, seal |-> l]
<1>7. e \in Seq(Half) /\ Len(e) = k /\ DOMAIN e = 1..k /\ \A i \in 1..k : e[i] = d[i]
  BY <1>3, <1>4
<1>8. k = a => e = d
  BY <1>4, <1>7
<1>9. Alternates(e)
  <2>1. \A i \in 1..k : i \in DOMAIN d
    BY <1>3, <1>4
  <2> HIDE DEF e
  <2> QED BY <1>6, <1>7, <2>1, Zenon DEF Alternates
<1> HIDE DEF e
<1>10. g \in Segment /\ g.data = e /\ g.synced = k /\ g.seal = l
  BY <1>3, <1>7 DEF Segment
<1>11. Changed(s, n, g, t)
  BY <1>2, Zenon DEF e
<1> HIDE DEF g
<1>12. l.whole => l.data = e /\ Len(e) = 2 * l.count
  BY <1>2, <1>6, <1>8, Zenon
<1>13. Sound(g)
  <2>1. k <= k
    BY <1>3
  <2> QED BY <1>7, <1>9, <1>10, <1>12, <2>1, Zenon DEF Sound
<1>14. Becomes(s, n, g, t)
  <2>1. g \in Segment
    BY <1>10
  <2> QED BY <1>11, <1>13, <2>1, LastChanged
<1>15. /\ t \in Seq(Segment) /\ Segments(t) /\ t # <<>> /\ Long(t, n) /\ t[n] = g
       /\ \A j \in 1..(n - 1) : t[j] = s[j]
       /\ Total(t) = Base(s, n) + (Len(g.data) \div 2)
  BY <1>14, Zenon DEF Becomes
<1>16. Total(s) = Base(s, n) + (Len(s[n].data) \div 2) /\ Base(s, n) \in Nat
  BY TotalIs
<1>17. Total(t) <= Total(s)
  <2>1. PICK b \in Nat : Base(s, n) = b
    BY <1>16, Zenon
  <2>2. Total(s) = b + (a \div 2)
    BY <1>2, <1>4, <1>16, <2>1, Zenon
  <2>3. Total(t) = b + (k \div 2)
    BY <1>7, <1>10, <1>15, <2>1, Zenon
  <2>4. k \div 2 <= a \div 2 /\ k \div 2 \in Nat /\ a \div 2 \in Nat
    BY <1>3, Halves
  <2> QED BY <2>2, <2>3, <2>4
<1>18. Cut(s, t, k)
  <2>1. Len(s) = n /\ Len(t) = n
    BY <1>15 DEF Long
  <2> QED BY <1>2, <1>10, <1>15, <2>1, Zenon DEF Cut, e
<1>19. t[n].seal = s[n].seal /\ Long(t[n].data, k)
  BY <1>2, <1>3, <1>7, <1>10, <1>15, Zenon DEF Long
<1> QED BY <1>15, <1>17, <1>18, <1>19, Zenon DEF CutOn

-----------------------------------------------------------------------------
(* The steps of a commit.                                                  *)

LEMMA SameGrowth == ASSUME NEW s, s \in Seq(Segment) PROVE Growth(s, s)
<1>1. CASE s = <<>>
  BY <1>1 DEF Growth
<1>2. CASE s # <<>>
  <2>1. Len(s) \in 1..Len(s)
    BY <1>2
  <2>2. s[Len(s)].synced \in Nat /\ Len(s[Len(s)].data) \in Nat /\ Len(s) \in Nat
    BY <2>1, Counts
  <2> QED BY <2>2 DEF Growth
<1> QED BY <1>1, <1>2

LEMMA NoPutTyped == NoPut \in LaneCtx /\ NoPut.todo = 0 /\ NoPut.recs = <<>> /\ NoPut.cursors = <<>>
  BY DEF NoPut, LaneCtx

\* What a step of a commit that neither commits nor answers has to show.
Moves ==
    /\ FilesTyped' /\ Segments(segs') /\ Growth(segs, segs') /\ Total(segs') <= asked' /\ asked <= asked'
    /\ committed' = committed /\ served' = served /\ laneMode' = laneMode
    /\ laneAt # "answer" /\ laneAt' # "answer"
    /\ \/ laneCtx'.recs = laneCtx.recs /\ laneCtx'.cursors = laneCtx.cursors
       \/ laneCtx'.recs = <<>> /\ laneCtx'.cursors = <<>>
    /\ laneAt' = "marker" => \A k \in DOMAIN laneCtx'.recs : Durable(segs', laneCtx'.recs[k])
    /\ Control' /\ WriterSound'

LEMMA MovesKeep == ASSUME SegmentInv, Moves PROVE SegmentInv'
<1>1. FilesTyped /\ ChainSound /\ CursorsSound /\ ServedSound
  BY Zenon DEF SegmentInv
<1>2. ChainSound' /\ CursorsSound' /\ ServedSound'
  BY <1>1, GoesOn, Zenon DEF Moves
<1> QED BY <1>2, Zenon DEF SegmentInv, Moves

\* The steps that leave the files and the writer alone.
LEMMA Walks ==
    ASSUME SegmentInv, UNCHANGED <<meta, segs, committed, laneMode, writer, served, asked>>, laneMode = "up",
           laneAt # "answer", laneAt' \in LaneSteps \ {"answer", "marker"}, laneCtx' \in LaneCtx,
           asked + laneCtx'.todo <= MaxRecords,
           \/ laneCtx'.recs = laneCtx.recs /\ laneCtx'.cursors = laneCtx.cursors
           \/ laneCtx'.recs = <<>> /\ laneCtx'.cursors = <<>>,
           Control', WriterSound'
    PROVE  SegmentInv'
<1>1. FilesTyped /\ Segments(segs) /\ Total(segs) <= asked
  BY DEF SegmentInv
<1>2. segs \in Seq(Segment) /\ asked \in Nat
  BY <1>1 DEF FilesTyped
<1>3. FilesTyped'
  BY <1>1 DEF FilesTyped
<1>4. Growth(segs, segs') /\ asked <= asked' /\ Total(segs') <= asked' /\ Segments(segs')
  BY <1>1, <1>2, SameGrowth
<1>5. Moves
  BY <1>3, <1>4 DEF Moves
<1> QED BY <1>5, MovesKeep

LEMMA BeginSegments == ASSUME SegmentInv, NEW n \in Sizes, NEW d \in Digests \union {None}, BeginCommit(n, d) PROVE SegmentInv'
<1> USE LanesAssumption
<1>1. /\ UNCHANGED <<meta, segs, committed, laneMode, writer, served, asked>> /\ laneMode = "up" /\ laneAt = "idle"
      /\ asked + n <= MaxRecords /\ n \in Nat \ {0}
      /\ laneAt' \in {"writer", "object"}
  BY DEF BeginCommit, laneFiles, laneMemory, marks, bounds, At
<1>2. laneCtx' = [todo |-> n, recs |-> <<>>, cursors |-> <<>>, obj |-> d]
  BY DEF BeginCommit, NoPut
<1>3. laneCtx' \in LaneCtx /\ laneCtx'.todo = n /\ laneCtx'.recs = <<>> /\ laneCtx'.cursors = <<>> /\ n >= 1
  BY <1>1, <1>2 DEF LaneCtx
<1>4. Control'
  BY <1>1, <1>3 DEF SegmentInv, Control, Before, Appending
<1>5. WriterSound'
  BY <1>1 DEF SegmentInv, WriterSound, Sealed
<1>6. laneAt' \in LaneSteps \ {"answer", "marker"} /\ laneAt # "answer"
  BY <1>1 DEF LaneSteps, Before
<1> QED BY <1>1, <1>3, <1>4, <1>5, <1>6, Walks

\* Going on to a step that leaves the files and the writer alone, or giving up.
LEMMA Steps ==
    ASSUME SegmentInv, UNCHANGED <<meta, segs, committed, laneMode, writer, served, asked>>, laneMode = "up",
           laneAt # "answer", 
           \/ laneCtx' = laneCtx /\ laneAt' \in LaneSteps \ {"answer", "marker"}
           \/ laneCtx' = NoPut /\ laneAt' = "idle",
           Control', WriterSound'
    PROVE  SegmentInv'
<1>1. FilesTyped
  BY DEF SegmentInv
<1>2. laneAt' \in LaneSteps \ {"answer", "marker"}
  BY DEF LaneSteps
<1>3. laneCtx' \in LaneCtx /\ asked + laneCtx'.todo <= MaxRecords
  BY <1>1, NoPutTyped, LanesAssumption DEF FilesTyped, LaneCtx
<1>4. \/ laneCtx'.recs = laneCtx.recs /\ laneCtx'.cursors = laneCtx.cursors
      \/ laneCtx'.recs = <<>> /\ laneCtx'.cursors = <<>>
  BY NoPutTyped
<1> QED BY <1>2, <1>3, <1>4, Walks

\* Giving up, the files and the writer as they are.
LEMMA QuitSegments ==
    ASSUME SegmentInv, UNCHANGED <<meta, segs, committed, laneMode, writer, served, asked>>, laneMode = "up",
           laneAt # "answer", GivesUp
    PROVE  SegmentInv'
<1>1. laneCtx' = NoPut /\ laneAt' = "idle"
  BY DEF GivesUp
<1>2. Control /\ WriterSound
  BY DEF SegmentInv
<1>3. Control'
  BY <1>1, <1>2, NoPutTyped DEF Control, Before, Appending
<1>4. WriterSound'
  BY <1>1, <1>2 DEF WriterSound, Sealed
<1> QED BY <1>1, <1>3, <1>4, Steps

\* Going on among the steps before the first record.
LEMMA BeforeSegments ==
    ASSUME SegmentInv, UNCHANGED <<meta, segs, committed, laneMode, writer, served, asked>>, laneMode = "up",
           laneAt \in Before, NEW step \in {"bytes", "sync", "verify", "writer"}, Goto(step)
    PROVE  SegmentInv'
<1>1. laneCtx' = laneCtx /\ laneAt' = step
  BY DEF Goto
<1>2. Control /\ WriterSound
  BY DEF SegmentInv
<1>3. Control'
  BY <1>1, <1>2 DEF Control, Before, Appending
<1>4. WriterSound'
  BY <1>1, <1>2 DEF WriterSound, Sealed
<1>5. laneAt' \in LaneSteps \ {"answer", "marker"} /\ laneAt # "answer"
  BY <1>1 DEF LaneSteps, Before
<1> QED BY <1>1, <1>3, <1>4, <1>5, Steps

LEMMA PutObjectSegments == ASSUME SegmentInv, PutObject PROVE SegmentInv'
<1>1. UNCHANGED <<meta, segs, committed, laneMode, writer, served, asked>>
  BY DEF PutObject, laneFiles, laneMemory, marks
<1>2. laneMode = "up" /\ laneAt \in Before /\ laneAt # "answer"
  BY DEF PutObject, At, Before
<1>3. GivesUp \/ \E step \in {"bytes", "sync", "verify", "writer"} : Goto(step)
  BY DEF PutObject, GotoOrFail
<1> QED BY <1>1, <1>2, <1>3, QuitSegments, BeforeSegments

\* The writer a commit appends with.
LEMMA FoundWriter ==
    ASSUME SegmentInv, At("writer"), writer.made, Goto("append"),
           UNCHANGED <<meta, segs, committed, laneMode, writer, served, asked>>
    PROVE  SegmentInv'
<1>1. laneCtx' = laneCtx /\ laneAt' = "append" /\ laneMode = "up" /\ laneAt = "writer"
  BY DEF Goto, At
<1>2. Control /\ WriterSound
  BY DEF SegmentInv
<1>3. Control'
  BY <1>1, <1>2 DEF Control, Before, Appending
<1>4. WriterSound'
  BY <1>1, <1>2 DEF WriterSound, Sealed
<1>5. laneAt' \in LaneSteps \ {"answer", "marker"} /\ laneAt # "answer"
  BY <1>1 DEF LaneSteps, Appending
<1> QED BY <1>1, <1>3, <1>4, <1>5, Steps

\* The steps of writerFor that make lane.json or find it.
LEMMA MetaSteps ==
    ASSUME SegmentInv, laneMode = "up", laneAt \in {"writer", "meta"}, ~writer.made,
           laneAt = "writer" => meta # "short",
           meta' \in {"absent", "short", "whole"}, UNCHANGED <<segs, committed, laneMode, writer, served, asked>>,
           segs = <<>>,
           \/ laneCtx' = laneCtx /\ laneAt' \in {"meta", "first"} /\ (laneAt' = "first" => meta' = "whole")
           \/ laneCtx' = NoPut /\ laneAt' = "idle"
    PROVE  SegmentInv'
<1>0. FilesTyped /\ Segments(segs) /\ Total(segs) <= asked /\ Control
  BY DEF SegmentInv
<1>1. laneCtx' \in LaneCtx /\ asked + laneCtx'.todo <= MaxRecords /\ laneAt' \in LaneSteps
  BY <1>0, NoPutTyped, LanesAssumption DEF FilesTyped, LaneCtx, LaneSteps, Before
<1>2. FilesTyped'
  BY <1>0, <1>1 DEF FilesTyped
<1>3. Growth(segs, segs') /\ asked <= asked' /\ Total(segs') <= asked' /\ Segments(segs')
  <2>1. segs \in Seq(Segment) /\ asked \in Nat
    BY <1>0 DEF FilesTyped
  <2>2. segs' = segs /\ asked' = asked
    OBVIOUS
  <2>3. Growth(segs, segs')
    BY <1>0, <2>1, <2>2, SameGrowth, Zenon
  <2>4. asked <= asked
    BY <2>1
  <2> QED BY <1>0, <2>2, <2>3, <2>4, Zenon
<1>4. Control'
  BY <1>0, NoPutTyped DEF Control, Before, Appending
<1>5. WriterSound'
  BY DEF WriterSound
<1>6. \/ laneCtx'.recs = laneCtx.recs /\ laneCtx'.cursors = laneCtx.cursors
      \/ laneCtx'.recs = <<>> /\ laneCtx'.cursors = <<>>
  BY NoPutTyped
<1>7. laneAt # "answer" /\ laneAt' # "answer" /\ laneAt' # "marker"
  OBVIOUS
<1>8. Moves
  BY <1>2, <1>3, <1>4, <1>5, <1>6, <1>7 DEF Moves
<1> QED BY <1>8, MovesKeep

LEMMA WriterIs ==
    ASSUME NEW i \in Nat, NEW next \in Nat
    PROVE  /\ OnSegment(i, next) \in LaneWriter /\ OnSegment(i, next).made /\ OnSegment(i, next).seg = i
           /\ OnSegment(i, next).off = 0 /\ OnSegment(i, next).count = 0 /\ OnSegment(i, next).next = next
  BY DEF OnSegment, LaneWriter

\* LaneWriter.open on the one segment a create that failed has left.
LEMMA OpensFirst ==
    ASSUME SegmentInv, At("writer"), ~writer.made, segs # <<>>, writer' = OnSegment(1, 1), Goto("append"),
           UNCHANGED <<meta, segs, committed, laneMode, served, asked>>
    PROVE  SegmentInv'
<1>0. FilesTyped /\ Segments(segs) /\ Total(segs) <= asked /\ Control
  BY DEF SegmentInv
<1>1. laneCtx' = laneCtx /\ laneAt' = "append" /\ laneMode = "up" /\ laneAt = "writer"
  BY DEF Goto, At
<1>2. writer' \in LaneWriter /\ writer'.made /\ writer'.seg = 1 /\ writer'.off = 0 /\ writer'.count = 0 /\ writer'.next = 1
  BY WriterIs
<1>3. FilesTyped'
  BY <1>0, <1>1, <1>2 DEF FilesTyped, LaneSteps, Appending
<1>4. Growth(segs, segs') /\ asked <= asked' /\ Total(segs') <= asked' /\ Segments(segs')
  BY <1>0, SameGrowth DEF FilesTyped
<1>5. segs = <<EmptySegment>>
  BY <1>0, <1>1 DEF Control
<1>6. Control'
  BY <1>0, <1>1, <1>2 DEF Control, Before, Appending
<1>7. Len(segs) = 1 /\ segs[Len(segs)] = EmptySegment /\ Total(segs) = 0
  <2>1. Len(segs) = 1 /\ segs[1] = EmptySegment
    BY <1>5
  <2>2. Total(segs) = Base(segs, 1) + (Len(EmptySegment.data) \div 2)
    BY <1>5, <2>1 DEF Total
  <2>3. Len(EmptySegment.data) = 0
    BY EmptyIs
  <2>4. Base(segs, 1) = 0
    BY BaseFirst
  <2>5. Total(segs) = 0 + (0 \div 2)
    BY <2>2, <2>3, <2>4, Zenon
  <2> QED BY <2>1, <2>5
<1>8. WriterSound'
  BY <1>1, <1>2, <1>5, <1>7, EmptyIs DEF WriterSound, Sealed
<1>9. Moves
  BY <1>1, <1>3, <1>4, <1>6, <1>8 DEF Moves
<1> QED BY <1>9, MovesKeep

\* The first segment of a lane, and the writer on it.
LEMMA StartsFirst ==
    ASSUME SegmentInv, At("first"), segs' = <<EmptySegment>>, UNCHANGED <<meta, committed, laneMode, served, asked>>,
           \/ writer' = OnSegment(1, 1) /\ Goto("append")
           \/ writer' = writer /\ GivesUp
    PROVE  SegmentInv'
<1>0. FilesTyped /\ Segments(segs) /\ Total(segs) <= asked /\ Control
  BY DEF SegmentInv
<1>1. laneMode = "up" /\ laneAt = "first" /\ segs = <<>> /\ ~writer.made /\ meta = "whole"
      /\ segs \in Seq(Segment) /\ asked \in Nat
  BY <1>0 DEF At, Control, FilesTyped
<1>2. NewOn(segs, 0, segs')
  <2>1. segs' = Append(segs, EmptySegment) /\ Long(segs, 0)
    BY <1>1 DEF Long
  <2> QED BY <1>0, <1>1, <2>1, SegmentAdded
<1>3. Grown(segs, 0 + 1, segs') /\ Total(segs') = Total(segs)
  BY <1>2, Zenon DEF NewOn
<1>4. segs' \in Seq(Segment) /\ Segments(segs') /\ Growth(segs, segs') /\ Total(segs') <= asked' /\ asked <= asked'
  BY <1>0, <1>1, <1>3 DEF Grown
<1>5. Len(segs') = 1 /\ segs'[Len(segs')] = EmptySegment /\ segs' # <<>> /\ Total(segs') = 0
  BY <1>1, <1>3 DEF Total
<1>6. /\ OnSegment(1, 1) \in LaneWriter /\ OnSegment(1, 1).made /\ OnSegment(1, 1).seg = 1
      /\ OnSegment(1, 1).off = 0 /\ OnSegment(1, 1).count = 0 /\ OnSegment(1, 1).next = 1
  BY WriterIs
<1>7. \/ laneCtx' = laneCtx /\ laneAt' = "append" /\ writer' = OnSegment(1, 1)
      \/ laneCtx' = NoPut /\ laneAt' = "idle" /\ writer' = writer
  BY DEF Goto, GivesUp
<1>8. laneCtx' \in LaneCtx /\ asked + laneCtx'.todo <= MaxRecords /\ laneAt' \in LaneSteps /\ writer' \in LaneWriter
  BY <1>0, <1>6, <1>7, NoPutTyped, LanesAssumption DEF FilesTyped, LaneCtx, LaneSteps, Appending
<1>9. FilesTyped'
  BY <1>0, <1>4, <1>8 DEF FilesTyped
<1>10. Control'
  BY <1>0, <1>1, <1>5, <1>6, <1>7, NoPutTyped DEF Control, Before, Appending
<1>11. WriterSound'
  BY <1>1, <1>5, <1>6, <1>7, EmptyIs DEF WriterSound, Sealed
<1>12. \/ laneCtx'.recs = laneCtx.recs /\ laneCtx'.cursors = laneCtx.cursors
       \/ laneCtx'.recs = <<>> /\ laneCtx'.cursors = <<>>
  BY <1>7, NoPutTyped
<1>13. laneAt # "answer" /\ laneAt' # "answer" /\ laneAt' # "marker"
  BY <1>1, <1>7
<1>14. Moves
  BY <1>4, <1>9, <1>10, <1>11, <1>12, <1>13 DEF Moves
<1> QED BY <1>14, MovesKeep

LEMMA WriterForSegments == ASSUME SegmentInv, WriterFor PROVE SegmentInv'
<1>1. UNCHANGED <<committed, laneMode, served, asked>>
  BY DEF WriterFor, marks
<1>0. FilesTyped /\ Control
  BY DEF SegmentInv
<1>2. CASE At("writer") /\ writer.made /\ Goto("append") /\ UNCHANGED <<meta, segs, writer>>
  BY <1>1, <1>2, FoundWriter
<1>3. CASE At("writer") /\ ~writer.made /\ meta = "absent" /\ meta' = "short" /\ Goto("meta") /\ UNCHANGED <<segs, writer>>
  <2>1. laneMode = "up" /\ laneAt = "writer" /\ laneCtx' = laneCtx /\ laneAt' = "meta" /\ segs = <<>>
    BY <1>0, <1>3 DEF At, Goto, Control
  <2> QED BY <1>1, <1>3, <2>1, MetaSteps
<1>4. CASE At("writer") /\ GivesUp /\ UNCHANGED <<meta, segs, writer>>
  BY <1>1, <1>4, QuitSegments DEF At
<1>5. CASE At("writer") /\ ~writer.made /\ MetaRead /\ segs = <<>> /\ Goto("first") /\ UNCHANGED <<meta, segs, writer>>
  <2>1. laneMode = "up" /\ laneAt = "writer" /\ laneCtx' = laneCtx /\ laneAt' = "first" /\ meta = "whole"
    BY <1>5 DEF At, Goto, MetaRead
  <2> QED BY <1>1, <1>5, <2>1, MetaSteps
<1>6. CASE At("writer") /\ ~writer.made /\ segs # <<>> /\ writer' = OnSegment(1, 1) /\ Goto("append") /\ UNCHANGED <<meta, segs>>
  BY <1>1, <1>6, OpensFirst
<1>7. ASSUME NEW ok \in BOOLEAN, At("meta"), GotoOrFail(ok, "first"),
             meta' \in (IF ok THEN {"whole"} ELSE {"short", "whole"}), UNCHANGED <<segs, writer>>
      PROVE  SegmentInv'
  <2>1. laneMode = "up" /\ laneAt = "meta" /\ ~writer.made /\ segs = <<>>
    BY <1>0, <1>7 DEF At, Control
  <2>2. \/ laneCtx' = laneCtx /\ laneAt' = "first" /\ meta' = "whole"
        \/ laneCtx' = NoPut /\ laneAt' = "idle"
    BY <1>7 DEF GotoOrFail, Goto, GivesUp
  <2>3. meta' \in {"absent", "short", "whole"}
    BY <1>7
  <2> QED BY <1>1, <1>7, <2>1, <2>2, <2>3, MetaSteps
<1>8. ASSUME NEW ok \in BOOLEAN, At("first"), GotoOrFail(ok, "append"),
             segs' \in {<<EmptySegment>>} \union (IF ok THEN {} ELSE {segs}),
             writer' = IF ok THEN OnSegment(1, 1) ELSE writer, UNCHANGED meta
      PROVE  SegmentInv'
  <2>1. CASE ok
    BY <1>1, <1>8, <2>1, StartsFirst DEF GotoOrFail
  <2>2. CASE ~ok /\ segs' = <<EmptySegment>>
    BY <1>1, <1>8, <2>2, StartsFirst DEF GotoOrFail
  <2>3. CASE ~ok /\ segs' = segs
    BY <1>1, <1>8, <2>3, QuitSegments DEF GotoOrFail, At
  <2> QED BY <1>8, <2>1, <2>2, <2>3
<1> QED BY <1>2, <1>3, <1>4, <1>5, <1>6, <1>7, <1>8 DEF WriterFor

\* A record that could not be appended: its number is used all the same.
LEMMA AppendFails ==
    ASSUME SegmentInv, At("append"), GivesUp, asked' = asked + 1,
           UNCHANGED <<meta, segs, committed, laneMode, writer, served>>
    PROVE  SegmentInv'
<1>0. FilesTyped /\ Segments(segs) /\ Total(segs) <= asked /\ Control /\ WriterSound
  BY DEF SegmentInv
<1>1. laneMode = "up" /\ laneAt = "append" /\ laneCtx' = NoPut /\ laneAt' = "idle"
  BY DEF At, GivesUp
<1>2. asked \in Nat /\ laneCtx.todo \in Nat /\ laneCtx.todo >= 1 /\ asked + laneCtx.todo <= MaxRecords
      /\ segs \in Seq(Segment)
  BY <1>0, <1>1 DEF FilesTyped, LaneCtx, Control, Appending
<1>3. asked' \in Nat /\ asked <= asked' /\ asked' + 0 <= MaxRecords
  BY <1>2, LanesAssumption
<1>4. FilesTyped'
  BY <1>0, <1>1, <1>3, NoPutTyped DEF FilesTyped, LaneSteps
<1>5. Growth(segs, segs') /\ Total(segs') <= asked' /\ Segments(segs')
  <2>1. Total(segs) \in Nat
    BY <1>2, TotalNat
  <2> QED BY <1>0, <1>2, <1>3, <2>1, SameGrowth
<1>6. Control'
  BY <1>0, <1>1, NoPutTyped DEF Control, Before, Appending
<1>7. WriterSound'
  BY <1>0, <1>1 DEF WriterSound, Sealed
<1>8. laneCtx'.recs = <<>> /\ laneCtx'.cursors = <<>>
  BY <1>1, NoPutTyped
<1>9. Moves
  BY <1>1, <1>3, <1>4, <1>5, <1>6, <1>7, <1>8 DEF Moves
<1> QED BY <1>9, MovesKeep

\* A full or an old segment is to be rotated.
LEMMA RotatesFirst ==
    ASSUME SegmentInv, At("append"), writer.fh, Goto("seal"),
           UNCHANGED <<meta, segs, committed, laneMode, writer, served, asked>>
    PROVE  SegmentInv'
<1>1. laneCtx' = laneCtx /\ laneAt' = "seal" /\ laneMode = "up" /\ laneAt = "append"
  BY DEF Goto, At
<1>2. Control /\ WriterSound
  BY DEF SegmentInv
<1>3. Control'
  BY <1>1, <1>2 DEF Control, Before, Appending
<1>4. WriterSound'
  BY <1>1, <1>2 DEF WriterSound, Sealed
<1>5. laneAt' \in LaneSteps \ {"answer", "marker"} /\ laneAt # "answer"
  BY <1>1 DEF LaneSteps, Appending
<1> QED BY <1>1, <1>3, <1>4, <1>5, Steps

LEMMA ServedKept ==
    ASSUME FilesTyped, ChainSound, ServedSound, segs' \in Seq(Segment), Growth(segs, segs'),
           committed' = committed, served' = served, laneMode' = laneMode, laneAt # "answer", laneAt' # "answer"
    PROVE  ServedSound'
<1>1. \A k \in DOMAIN Chain : Keeps(segs, segs', Chain[k])
  BY ChainKept
<1>2. \A k \in DOMAIN committed : k \in DOMAIN Chain /\ Chain[k] = committed[k]
  BY ChainIs
<1>3. \A k \in DOMAIN committed : Entry(segs', committed[k]) = Entry(segs, committed[k])
  BY <1>1, <1>2 DEF Keeps, Entry
<1>4. DOMAIN committed = 1..Len(committed) /\ Len(committed) \in Nat /\ DOMAIN served = 1..Len(served)
  BY DEF FilesTyped
<1> QED BY <1>3, <1>4 DEF ServedSound

\* The writer on the last segment.
LEMMA WriterHas ==
    ASSUME SegmentInv, writer.made
    PROVE  /\ segs \in Seq(Segment) /\ Segments(segs) /\ segs # <<>>
           /\ writer.seg \in Nat \ {0} /\ Long(segs, writer.seg) /\ Long(segs[writer.seg].data, writer.off)
           /\ writer.off \in Nat /\ writer.count \in Nat /\ writer.off = 2 * writer.count /\ writer.off % 2 = 0
           /\ writer.next = Total(segs) + 1 /\ Total(segs) \in Nat
           /\ writer.fh => ~segs[writer.seg].seal.whole
<1>1. /\ segs \in Seq(Segment) /\ Segments(segs) /\ writer \in LaneWriter /\ segs # <<>>
      /\ writer.seg = Len(segs) /\ writer.off = Len(segs[Len(segs)].data)
      /\ writer.off = 2 * writer.count /\ writer.next = Total(segs) + 1 /\ (writer.fh => ~Sealed(Len(segs)))
  BY DEF SegmentInv, FilesTyped, WriterSound
<1>2. writer.seg \in Nat /\ writer.off \in Nat /\ writer.count \in Nat
  BY <1>1 DEF LaneWriter
<1>3. writer.seg # 0
  BY <1>1
<1>4. Long(segs, writer.seg) /\ Long(segs[writer.seg].data, writer.off)
  BY <1>1, <1>2, Zenon DEF Long
<1>5. (2 * writer.count) % 2 = 0
  BY <1>2, Halves
<1>6. writer.off % 2 = 0
  BY <1>1, <1>5, Zenon
<1>7. Total(segs) \in Nat
  BY <1>1, TotalNat
<1>8. writer.fh => ~segs[writer.seg].seal.whole
  BY <1>1, Zenon DEF Sealed
<1> QED BY <1>1, <1>2, <1>3, <1>4, <1>6, <1>7, <1>8

\* d is c with x behind it, of n elements.
Extends(c, n, x, d) ==
    /\ n \in Nat /\ Len(c) = n /\ DOMAIN c = 1..n /\ Len(d) = n + 1 /\ DOMAIN d = 1..(n + 1)
    /\ \A k \in 1..n : d[k] = c[k]
    /\ d[n + 1] = x

LEMMA Longer ==
    ASSUME NEW S, NEW a \in Seq(S), NEW b \in Seq(S), NEW x \in S
    PROVE  \E n \in Nat : Extends(a \o b, n, x, a \o Append(b, x))
<1>1. Append(b, x) \in Seq(S) /\ Len(Append(b, x)) = Len(b) + 1 /\ Append(b, x)[Len(b) + 1] = x
      /\ \A k \in 1..Len(b) : Append(b, x)[k] = b[k]
  OBVIOUS
<1>2. PICK c \in Seq(S) : c = Append(b, x)
  BY <1>1
<1>3. Len(c) = Len(b) + 1 /\ c[Len(b) + 1] = x /\ \A k \in 1..Len(b) : c[k] = b[k]
  BY <1>1, <1>2
<1>4. /\ a \o c \in Seq(S) /\ Len(a \o c) = Len(a \o b) + 1 /\ DOMAIN (a \o c) = 1..(Len(a \o b) + 1)
      /\ DOMAIN (a \o b) = 1..Len(a \o b) /\ Len(a \o b) \in Nat
      /\ \A k \in 1..Len(a \o b) : (a \o c)[k] = (a \o b)[k]
      /\ (a \o c)[Len(a \o b) + 1] = x
  BY <1>3
<1>5. PICK n \in Nat : Len(a \o b) = n
  BY <1>4
<1>6. Extends(a \o b, n, x, a \o c)
  BY <1>4, <1>5, Zenon DEF Extends
<1> QED BY <1>2, <1>6, Zenon

LEMMA AddedOne ==
    ASSUME NEW S, NEW b \in Seq(S), NEW x \in S
    PROVE  \E n \in Nat : Extends(b, n, x, Append(b, x))
<1>1. PICK n \in Nat : Len(b) = n
  OBVIOUS
<1>2. Append(b, x) \in Seq(S) /\ Len(Append(b, x)) = n + 1 /\ Append(b, x)[n + 1] = x
      /\ \A k \in 1..n : Append(b, x)[k] = b[k]
  BY <1>1
<1>3. DOMAIN b = 1..n /\ DOMAIN Append(b, x) = 1..(n + 1)
  BY <1>1, <1>2
<1> QED BY <1>1, <1>2, <1>3, Zenon DEF Extends

\* The writer behind a line it has appended.
LEMMA WriterMoves ==
    ASSUME NEW w \in LaneWriter, NEW v, v = [w EXCEPT !.off = @ + 2, !.count = @ + 1, !.next = @ + 1]
    PROVE  /\ v \in LaneWriter /\ v.made = w.made /\ v.fh = w.fh /\ v.seg = w.seg
           /\ v.off = w.off + 2 /\ v.count = w.count + 1 /\ v.next = w.next + 1
<1>1. /\ w = [made |-> w.made, fh |-> w.fh, seg |-> w.seg, off |-> w.off, count |-> w.count, next |-> w.next]
      /\ w.made \in BOOLEAN /\ w.fh \in BOOLEAN /\ w.seg \in Nat /\ w.off \in Nat /\ w.count \in Nat /\ w.next \in Nat
  BY DEF LaneWriter
<1>2. v = [made |-> w.made, fh |-> w.fh, seg |-> w.seg, off |-> w.off + 2, count |-> w.count + 1, next |-> w.next + 1]
  BY <1>1
<1>3. w.off + 2 \in Nat /\ w.count + 1 \in Nat /\ w.next + 1 \in Nat
  BY <1>1
<1> QED BY <1>1, <1>2, <1>3 DEF LaneWriter

LEMMA AppendWorks ==
    ASSUME SegmentInv, At("append"), writer.fh, asked' = asked + 1,
           segs' = [segs EXCEPT ![writer.seg].data = @ \o Line(asked + 1)],
           writer' = [writer EXCEPT !.off = @ + 2, !.count = @ + 1, !.next = @ + 1],
           laneCtx' = [laneCtx EXCEPT !.todo = @ - 1,
                         !.recs = Append(@, [seg |-> writer.seg, off |-> writer.off, id |-> asked + 1]),
                         !.cursors = Append(@, writer.next)],
           laneAt' = IF laneCtx.todo = 1 THEN "fsync" ELSE "append",
           UNCHANGED <<meta, committed, laneMode, served>>
    PROVE  SegmentInv'
<1>0. FilesTyped /\ Segments(segs) /\ Total(segs) <= asked /\ Control /\ WriterSound /\ ChainSound /\ CursorsSound /\ ServedSound
  BY DEF SegmentInv
<1>1. laneMode = "up" /\ laneAt = "append" /\ laneAt' \in {"fsync", "append"} /\ writer.made
      /\ (laneAt' = "append" <=> laneCtx.todo # 1)
  BY <1>0 DEF At, Control, Appending
<1>2. asked \in Nat /\ laneCtx.todo \in Nat /\ laneCtx.todo >= 1 /\ asked + laneCtx.todo <= MaxRecords
      /\ laneCtx.recs \in Seq(Rec) /\ laneCtx.cursors \in Seq(Nat) /\ laneCtx.obj \in Digests \union {None}
      /\ committed \in Seq(Rec) /\ writer \in LaneWriter
  BY <1>0, <1>1 DEF FilesTyped, LaneCtx, Control, Appending
<1>3. /\ segs \in Seq(Segment) /\ segs # <<>>
      /\ writer.seg \in Nat \ {0} /\ Long(segs, writer.seg) /\ Long(segs[writer.seg].data, writer.off)
      /\ writer.off \in Nat /\ writer.count \in Nat /\ writer.off = 2 * writer.count /\ writer.off % 2 = 0
      /\ writer.next = Total(segs) + 1 /\ Total(segs) \in Nat
      /\ ~segs[writer.seg].seal.whole
  BY <1>1, WriterHas
<1> DEFINE rec == [seg |-> writer.seg, off |-> writer.off, id |-> asked + 1]
<1>4. LineOn(segs, writer.seg, writer.off, asked + 1, segs')
  <2>1. Appended(segs, writer.seg, asked + 1, segs')
    BY Zenon DEF Appended
  <2>2. asked + 1 \in Nat
    BY <1>2
  <2> QED BY <1>0, <1>3, <2>1, <2>2, LineAppended
<1>5. /\ segs' \in Seq(Segment) /\ Segments(segs') /\ Growth(segs, segs') /\ segs' # <<>> /\ Long(segs', writer.seg)
      /\ Total(segs') = Total(segs) + 1
      /\ Long(segs'[writer.seg].data, writer.off + 2) /\ ~segs'[writer.seg].seal.whole
      /\ Stands(segs', rec) /\ Ordinal(segs', rec) = Total(segs')
  BY <1>4, Zenon DEF LineOn, Grown
<1>6. rec \in Rec /\ rec.id = asked + 1
  BY <1>2, <1>3 DEF Rec
<1> HIDE DEF rec
<1>7. /\ laneCtx'.todo = laneCtx.todo - 1 /\ laneCtx'.recs = Append(laneCtx.recs, rec)
      /\ laneCtx'.cursors = Append(laneCtx.cursors, writer.next) /\ laneCtx'.obj = laneCtx.obj
      /\ laneCtx' = [todo |-> laneCtx'.todo, recs |-> laneCtx'.recs, cursors |-> laneCtx'.cursors, obj |-> laneCtx'.obj]
  <2>1. laneCtx \in LaneCtx
    BY <1>0 DEF FilesTyped
  <2> QED BY <2>1 DEF LaneCtx, rec
<1>8. laneCtx' \in LaneCtx /\ laneCtx'.todo \in Nat /\ asked' + laneCtx'.todo <= MaxRecords
  <2>1. Append(laneCtx.recs, rec) \in Seq(Rec) /\ Append(laneCtx.cursors, writer.next) \in Seq(Nat)
    BY <1>2, <1>3, <1>6
  <2>2. laneCtx.todo - 1 \in Nat
    BY <1>2
  <2>3. laneCtx' \in LaneCtx
    BY <1>2, <1>7, <2>1, <2>2 DEF LaneCtx
  <2> QED BY <1>2, <1>7, <2>2, <2>3, LanesAssumption
<1>9. /\ writer' \in LaneWriter /\ writer'.made /\ writer'.fh /\ writer'.seg = writer.seg
      /\ writer'.off = writer.off + 2 /\ writer'.count = writer.count + 1 /\ writer'.next = writer.next + 1
  BY <1>1, <1>2, WriterMoves
<1>10. FilesTyped'
  BY <1>0, <1>1, <1>2, <1>5, <1>8, <1>9 DEF FilesTyped, LaneSteps, Appending
<1>11. Total(segs') <= asked' /\ asked \in Nat /\ asked' \in Nat /\ asked <= asked'
  <2>1. PICK u \in Nat : Total(segs) = u
    BY <1>3, Zenon
  <2>2. PICK a \in Nat : asked = a
    BY <1>2, Zenon
  <2>3. u <= a /\ Total(segs') = u + 1 /\ asked' = a + 1
    BY <1>0, <1>5, <2>1, <2>2, Zenon
  <2>4. u + 1 <= a + 1 /\ a + 1 \in Nat /\ a <= a + 1
    BY <2>1, <2>2, <2>3
  <2> QED BY <2>2, <2>3, <2>4, Zenon
<1>12. PICK n \in Nat : Extends(Chain, n, rec, Chain')
  <2>1. Chain = committed \o laneCtx.recs /\ Chain' = committed \o Append(laneCtx.recs, rec)
    BY <1>1, <1>7 DEF Chain
  <2>2. \E n \in Nat : Extends(committed \o laneCtx.recs, n, rec, committed \o Append(laneCtx.recs, rec))
    BY <1>2, <1>6, Longer
  <2> QED BY <2>1, <2>2, Zenon
<1>13. /\ DOMAIN Chain = 1..n /\ DOMAIN Chain' = 1..(n + 1) /\ \A k \in 1..n : Chain'[k] = Chain[k]
       /\ Chain'[n + 1] = rec
  BY <1>12, Zenon DEF Extends
<1>14. \A k \in DOMAIN Chain : Keeps(segs, segs', Chain[k])
  BY <1>0, <1>5, ChainKept
<1>15. ASSUME NEW k \in DOMAIN Chain'
       PROVE  Stands(segs', Chain'[k]) /\ Chain'[k].id \in 1..asked' /\ Ordinal(segs', Chain'[k]) <= Total(segs')
              /\ (k \in 1..n => Ordinal(segs', Chain'[k]) <= Total(segs) /\ Ordinal(segs', Chain'[k]) = Ordinal(segs, Chain[k]))
  <2>1. CASE k \in 1..n
    <3>1. Chain'[k] = Chain[k] /\ k \in DOMAIN Chain
      BY <1>13, <2>1, Zenon
    <3>2. Stands(segs, Chain[k]) /\ Chain[k].id \in 1..asked /\ Chain[k] \in Rec
      BY <1>0, <3>1, ChainIs DEF ChainSound
    <3>3. Keeps(segs, segs', Chain[k])
      BY <1>14, <3>1
    <3>4. Ordinal(segs, Chain[k]) \in 1..Total(segs)
      BY <1>0, <1>3, <3>2, OrdinalBound
    <3>5. Ordinal(segs', Chain'[k]) = Ordinal(segs, Chain[k]) /\ Stands(segs', Chain'[k])
      BY <3>1, <3>3, Zenon DEF Keeps
    <3>6. Chain'[k].id \in 1..asked'
      BY <1>2, <3>1, <3>2
    <3> HIDE DEF Chain
    <3> QED BY <1>3, <1>5, <3>4, <3>5, <3>6
  <2>2. CASE k = n + 1
    <3>1. Chain'[k] = rec
      BY <1>13, <2>2, Zenon
    <3>2. ~(k \in 1..n)
      BY <2>2
    <3>3. rec.id \in 1..asked'
      BY <1>2, <1>6
    <3>4. Ordinal(segs', rec) <= Total(segs')
      <4>1. PICK u \in Nat : u = Total(segs)
        BY <1>3
      <4>2. PICK v \in Nat : v = Total(segs')
        BY <1>5, <4>1
      <4>3. Ordinal(segs', rec) = v
        BY <1>5, <4>2
      <4> QED BY <4>2, <4>3
    <3> QED BY <1>5, <3>1, <3>2, <3>3, <3>4, Zenon
  <2>3. k \in 1..n \/ k = n + 1
    BY <1>13, <1>15
  <2> QED BY <2>1, <2>2, <2>3
<1>16. \A i, k \in DOMAIN Chain' : i < k => Ordinal(segs', Chain'[i]) < Ordinal(segs', Chain'[k])
  <2> SUFFICES ASSUME NEW i \in DOMAIN Chain', NEW k \in DOMAIN Chain', i < k
               PROVE  Ordinal(segs', Chain'[i]) < Ordinal(segs', Chain'[k])
    OBVIOUS
  <2>1. i \in 1..n /\ (k \in 1..n \/ k = n + 1)
    BY <1>13
  <2>2. CASE k \in 1..n
    <3>1. Ordinal(segs', Chain'[i]) = Ordinal(segs, Chain[i]) /\ Ordinal(segs', Chain'[k]) = Ordinal(segs, Chain[k])
      BY <1>15, <2>1, <2>2
    <3>2. i \in DOMAIN Chain /\ k \in DOMAIN Chain
      BY <1>13, <2>1, <2>2, Zenon
    <3> QED BY <1>0, <3>1, <3>2 DEF ChainSound
  <2>3. CASE k = n + 1
    <3>1. Chain'[k] = rec
      BY <1>13, <2>3, Zenon
    <3>2. Ordinal(segs', Chain'[k]) = Total(segs) + 1
      BY <1>5, <3>1, Zenon
    <3>3. Ordinal(segs', Chain'[i]) <= Total(segs)
      BY <1>15, <2>1
    <3>4. Ordinal(segs', Chain'[i]) \in Nat
      <4>1. i \in DOMAIN Chain /\ Chain[i] \in Rec /\ Stands(segs, Chain[i])
        BY <1>0, <1>13, <2>1, ChainIs DEF ChainSound
      <4>2. Ordinal(segs, Chain[i]) \in 1..Total(segs)
        BY <1>0, <1>3, <4>1, OrdinalBound
      <4>3. Ordinal(segs', Chain'[i]) = Ordinal(segs, Chain[i])
        BY <1>15, <2>1
      <4> QED BY <1>3, <4>2, <4>3
    <3> QED BY <1>3, <3>2, <3>3, <3>4
  <2> QED BY <2>1, <2>2, <2>3
<1>17. ChainSound'
  <2>1. \A k \in DOMAIN committed : k \in DOMAIN Chain /\ Chain[k] = committed[k]
    BY <1>0, ChainIs
  <2>2. \A k \in DOMAIN committed' : Durable(segs', committed'[k])
    BY <1>0, <1>14, <2>1 DEF ChainSound, Keeps
  <2>3. laneAt' # "marker"
    BY <1>1
  <2> QED BY <1>15, <1>16, <2>2, <2>3 DEF ChainSound
<1>18. CursorsSound'
  <2>1. \A k \in DOMAIN laneCtx.recs : Len(committed) + k \in DOMAIN Chain /\ Chain[Len(committed) + k] = laneCtx.recs[k]
    BY <1>0, <1>1, ChainIs DEF Pending
  <2>2. \A k \in DOMAIN laneCtx.recs : Ordinal(segs', laneCtx.recs[k]) = Ordinal(segs, laneCtx.recs[k])
    BY <1>14, <2>1 DEF Keeps
  <2>3. writer.next = Ordinal(segs', rec) /\ writer.next \in Nat
    BY <1>3, <1>5
  <2>4. PICK m \in Nat : Extends(laneCtx.recs, m, rec, laneCtx'.recs)
    BY <1>2, <1>6, <1>7, AddedOne
  <2>5. PICK l \in Nat : Extends(laneCtx.cursors, l, writer.next, laneCtx'.cursors)
    BY <1>2, <1>7, <2>3, AddedOne
  <2>7. l = m
    BY <1>0, <2>4, <2>5, Zenon DEF CursorsSound, Extends
  <2>6. ASSUME NEW k \in 1..(m + 1) PROVE laneCtx'.cursors[k] = Ordinal(segs', laneCtx'.recs[k])
    <3>1. CASE k \in 1..m
      <4>1. laneCtx'.recs[k] = laneCtx.recs[k] /\ laneCtx'.cursors[k] = laneCtx.cursors[k] /\ k \in DOMAIN laneCtx.recs
        BY <2>4, <2>5, <2>7, <3>1, Zenon DEF Extends
      <4>2. laneCtx.cursors[k] = Ordinal(segs, laneCtx.recs[k])
        BY <1>0, <4>1, Zenon DEF CursorsSound
      <4> QED BY <2>2, <4>1, <4>2, Zenon
    <3>2. CASE k = m + 1
      <4>1. laneCtx'.recs[k] = rec /\ laneCtx'.cursors[k] = writer.next
        BY <2>4, <2>5, <2>7, <3>2, Zenon DEF Extends
      <4> QED BY <2>3, <4>1, Zenon
    <3>3. k \in 1..m \/ k = m + 1
      OBVIOUS
    <3> QED BY <3>1, <3>2, <3>3
  <2>8. DOMAIN laneCtx'.recs = 1..(m + 1) /\ Len(laneCtx'.cursors) = m + 1 /\ Len(laneCtx'.recs) = m + 1
    BY <2>4, <2>5, <2>7, Zenon DEF Extends
  <2> QED BY <2>6, <2>8, Zenon DEF CursorsSound
<1>19. ServedSound'
  <2>1. laneAt # "answer" /\ laneAt' # "answer"
    BY <1>1
  <2> QED BY <1>0, <1>5, <2>1, ServedKept
<1>20. Control'
  <2>1. laneCtx'.recs # <<>>
    <3>1. PICK m \in Nat : Extends(laneCtx.recs, m, rec, laneCtx'.recs)
      BY <1>2, <1>6, <1>7, AddedOne
    <3>2. Len(laneCtx'.recs) = m + 1
      BY <3>1, Zenon DEF Extends
    <3> QED BY <3>2
  <2>2. laneAt' = "append" => laneCtx'.todo >= 1
    BY <1>1, <1>2, <1>7
  <2>3. segs # <<>>
    BY <1>3
  <2> QED BY <1>0, <1>1, <1>5, <1>9, <2>1, <2>2, <2>3 DEF Control, Before, Appending
<1>21. WriterSound'
  <2>1. Len(segs') = writer.seg /\ Len(segs'[writer.seg].data) = writer.off + 2
    BY <1>5 DEF Long
  <2>2. writer.off + 2 = 2 * (writer.count + 1) /\ writer.next + 1 = Total(segs') + 1
    BY <1>3, <1>5
  <2>3. laneAt' \notin {"seal", "manifest", "next"}
    BY <1>1
  <2> QED BY <1>5, <1>9, <2>1, <2>2, <2>3 DEF WriterSound, Sealed
<1> QED BY <1>5, <1>10, <1>11, <1>17, <1>18, <1>19, <1>20, <1>21, Zenon DEF SegmentInv

LEMMA AppendSegments == ASSUME SegmentInv, Append1 PROVE SegmentInv'
<1>1. UNCHANGED <<meta, committed, laneMode, served>> /\ At("append")
  BY DEF Append1, marks
<1>2. laneMode = "up" /\ laneAt # "answer"
  BY <1>1 DEF At
<1>3. CASE GivesUp /\ UNCHANGED <<segs, writer, asked>>
  BY <1>1, <1>2, <1>3, QuitSegments
<1>4. CASE writer.fh /\ Goto("seal") /\ UNCHANGED <<segs, writer, asked>>
  BY <1>1, <1>4, RotatesFirst
<1>5. ASSUME NEW ok \in BOOLEAN, writer.fh, asked' = asked + 1, ~ok, GivesUp, UNCHANGED <<segs, writer>>
      PROVE  SegmentInv'
  BY <1>1, <1>5, AppendFails
<1>6. CASE /\ writer.fh /\ asked' = asked + 1
           /\ segs' = [segs EXCEPT ![writer.seg].data = @ \o Line(asked + 1)]
           /\ writer' = [writer EXCEPT !.off = @ + 2, !.count = @ + 1, !.next = @ + 1]
           /\ laneCtx' = [laneCtx EXCEPT !.todo = @ - 1,
                            !.recs = Append(@, [seg |-> writer.seg, off |-> writer.off, id |-> asked + 1]),
                            !.cursors = Append(@, writer.next)]
           /\ laneAt' = IF laneCtx.todo = 1 THEN "fsync" ELSE "append"
  BY <1>1, <1>6, AppendWorks
<1> QED BY <1>1, <1>3, <1>4, <1>5, <1>6 DEF Append1

\* A step of rotate, that keeps what the records and the writer's ordinal rest on.
LEMMA RotateSteps ==
    ASSUME SegmentInv, laneMode = "up", laneAt \in Appending, NEW n, Grown(segs, n, segs'), Total(segs') = Total(segs),
           UNCHANGED <<meta, committed, laneMode, served, asked>>, writer' \in LaneWriter, writer'.made, meta = "whole",
           \/ laneCtx' = laneCtx /\ laneAt' \in Appending
           \/ laneCtx' = NoPut /\ laneAt' = "idle",
           WriterSound'
    PROVE  SegmentInv'
<1>0. FilesTyped /\ Segments(segs) /\ Total(segs) <= asked /\ Control
  BY DEF SegmentInv
<1>1. segs' \in Seq(Segment) /\ Segments(segs') /\ Growth(segs, segs')
  BY Zenon DEF Grown
<1>2. laneCtx' \in LaneCtx /\ asked + laneCtx'.todo <= MaxRecords /\ laneAt' \in LaneSteps
  BY <1>0, NoPutTyped, LanesAssumption DEF FilesTyped, LaneCtx, LaneSteps
<1>3. FilesTyped'
  BY <1>0, <1>1, <1>2 DEF FilesTyped
<1>4. Total(segs') <= asked' /\ asked <= asked'
  BY <1>0 DEF FilesTyped
<1>5. Control'
  BY <1>0, NoPutTyped DEF Control, Before, Appending
<1>6. \/ laneCtx'.recs = laneCtx.recs /\ laneCtx'.cursors = laneCtx.cursors
      \/ laneCtx'.recs = <<>> /\ laneCtx'.cursors = <<>>
  BY NoPutTyped
<1>7. laneAt # "answer" /\ laneAt' # "answer" /\ laneAt' # "marker"
  BY DEF Appending
<1>8. Moves
  BY <1>1, <1>3, <1>4, <1>5, <1>6, <1>7 DEF Moves
<1> QED BY <1>8, MovesKeep

LEMMA SealStep ==
    ASSUME SegmentInv, At("seal"), NEW ok \in BOOLEAN, GotoOrFail(ok, "manifest"),
           segs' = IF ok THEN Synced(writer.seg) ELSE segs, writer' = [writer EXCEPT !.fh = ~ok],
           UNCHANGED <<meta, committed, laneMode, served, asked>>
    PROVE  SegmentInv'
<1>0. FilesTyped /\ Segments(segs) /\ Control /\ WriterSound
  BY DEF SegmentInv
<1>1. laneMode = "up" /\ laneAt = "seal" /\ laneAt \in Appending /\ writer.made /\ writer \in LaneWriter
  BY <1>0 DEF At, Appending, Control, FilesTyped
<1>2. /\ segs \in Seq(Segment) /\ segs # <<>> /\ writer.seg \in Nat \ {0} /\ Long(segs, writer.seg)
      /\ writer.off = 2 * writer.count /\ Long(segs[writer.seg].data, writer.off)
      /\ writer.next = Total(segs) + 1 /\ writer.fh /\ ~segs[writer.seg].seal.whole
  BY <1>0, <1>1, WriterHas DEF WriterSound
<1>3. meta = "whole"
  BY <1>0, <1>2 DEF Control
<1>4. /\ writer' \in LaneWriter /\ writer'.made /\ writer'.fh = ~ok /\ writer'.seg = writer.seg /\ writer'.off = writer.off
      /\ writer'.count = writer.count /\ writer'.next = writer.next
  BY <1>1 DEF LaneWriter
<1>5. \/ ok /\ laneCtx' = laneCtx /\ laneAt' = "manifest"
      \/ ~ok /\ laneCtx' = NoPut /\ laneAt' = "idle"
  BY DEF GotoOrFail, Goto, GivesUp
<1>6. CASE ok
  <2>1. WasSynced(segs, writer.seg, segs')
    BY <1>6, Zenon DEF WasSynced, Synced
  <2>2. SyncOn(segs, writer.seg, segs')
    BY <1>0, <1>2, <2>1, LastSynced
  <2>3. /\ Grown(segs, writer.seg, segs') /\ Total(segs') = Total(segs)
        /\ segs'[writer.seg].data = segs[writer.seg].data /\ segs'[writer.seg].seal = segs[writer.seg].seal
        /\ segs'[writer.seg].synced = Len(segs[writer.seg].data)
    BY <2>2, Zenon DEF SyncOn
  <2>4. Len(segs') = writer.seg /\ segs' # <<>> /\ Len(segs[writer.seg].data) = writer.off
    BY <1>2, <2>3, Zenon DEF Grown, Long
  <2>5. WriterSound'
    BY <1>2, <1>4, <1>5, <1>6, <2>3, <2>4, Zenon DEF WriterSound, Sealed
  <2>6. laneCtx' = laneCtx /\ laneAt' \in Appending
    BY <1>5, <1>6 DEF Appending
  <2> QED BY <1>1, <1>3, <1>4, <2>3, <2>5, <2>6, RotateSteps
<1>7. CASE ~ok
  <2>1. segs' = segs
    BY <1>7
  <2>2. Grown(segs, writer.seg, segs')
    BY <1>0, <1>2, <2>1, SameGrowth DEF Grown
  <2>3. WriterSound'
    BY <1>0, <1>1, <1>4, <1>5, <1>7, <2>1, Zenon DEF WriterSound, Sealed
  <2>4. laneCtx' = NoPut /\ laneAt' = "idle"
    BY <1>5, <1>7
  <2> QED BY <1>1, <1>3, <1>4, <2>1, <2>2, <2>3, <2>4, RotateSteps
<1> QED BY <1>6, <1>7

LEMMA ManifestStep ==
    ASSUME SegmentInv, At("manifest"), NEW ok \in BOOLEAN, GotoOrFail(ok, "next"),
           segs' = [segs EXCEPT ![writer.seg].seal = Manifest],
           UNCHANGED <<meta, committed, laneMode, writer, served, asked>>
    PROVE  SegmentInv'
<1>0. FilesTyped /\ Segments(segs) /\ Control /\ WriterSound
  BY DEF SegmentInv
<1>1. laneMode = "up" /\ laneAt = "manifest" /\ laneAt \in Appending /\ writer.made /\ writer \in LaneWriter
  BY <1>0 DEF At, Appending, Control, FilesTyped
<1>2. /\ segs \in Seq(Segment) /\ segs # <<>> /\ writer.seg \in Nat \ {0} /\ Long(segs, writer.seg)
      /\ writer.count \in Nat /\ writer.off = 2 * writer.count /\ Long(segs[writer.seg].data, writer.off)
      /\ writer.next = Total(segs) + 1
  BY <1>1, WriterHas
<1>3. meta = "whole" /\ ~writer.fh /\ segs[writer.seg].synced = Len(segs[writer.seg].data)
      /\ Len(segs[writer.seg].data) = 2 * writer.count
  BY <1>0, <1>1, <1>2 DEF Control, WriterSound, Long
<1>4. \/ laneCtx' = laneCtx /\ laneAt' = "next"
      \/ laneCtx' = NoPut /\ laneAt' = "idle"
  BY DEF GotoOrFail, Goto, GivesUp
<1>5. WasSealed(segs, writer.seg, writer.count, segs')
  BY Zenon DEF WasSealed, Manifest
<1>6. SealOn(segs, writer.seg, segs')
  BY <1>0, <1>2, <1>3, <1>5, LastSealed
<1>7. /\ Grown(segs, writer.seg, segs') /\ Total(segs') = Total(segs)
      /\ segs'[writer.seg].data = segs[writer.seg].data /\ segs'[writer.seg].seal.whole
  BY <1>6, Zenon DEF SealOn
<1>8. Len(segs') = writer.seg /\ segs' # <<>> /\ Len(segs[writer.seg].data) = writer.off
  BY <1>2, <1>7, Zenon DEF Grown, Long
<1>9. WriterSound'
  BY <1>2, <1>3, <1>4, <1>7, <1>8, Zenon DEF WriterSound, Sealed
<1>10. \/ laneCtx' = laneCtx /\ laneAt' \in Appending
       \/ laneCtx' = NoPut /\ laneAt' = "idle"
  BY <1>4 DEF Appending
<1> QED BY <1>1, <1>3, <1>7, <1>9, <1>10, RotateSteps

LEMMA NextStep ==
    ASSUME SegmentInv, At("next"), NEW ok \in BOOLEAN, GotoOrFail(ok, "append"),
           segs' = Append(segs, EmptySegment), writer' = OnSegment(writer.seg + 1, writer.next),
           UNCHANGED <<meta, committed, laneMode, served, asked>>
    PROVE  SegmentInv'
<1>0. FilesTyped /\ Segments(segs) /\ Control /\ WriterSound
  BY DEF SegmentInv
<1>1. laneMode = "up" /\ laneAt = "next" /\ laneAt \in Appending /\ writer.made
  BY <1>0 DEF At, Appending, Control
<1>2. /\ segs \in Seq(Segment) /\ segs # <<>> /\ writer.seg \in Nat \ {0} /\ Long(segs, writer.seg)
      /\ writer.next = Total(segs) + 1 /\ Total(segs) \in Nat
  BY <1>1, WriterHas
<1>3. meta = "whole" /\ segs[writer.seg].seal.whole
  BY <1>0, <1>1, <1>2, Zenon DEF Control, WriterSound, Sealed, Long
<1>4. \/ laneCtx' = laneCtx /\ laneAt' = "append"
      \/ laneCtx' = NoPut /\ laneAt' = "idle"
  BY DEF GotoOrFail, Goto, GivesUp
<1>5. NewOn(segs, writer.seg, segs')
  BY <1>0, <1>2, <1>3, SegmentAdded
<1>6. /\ Grown(segs, writer.seg + 1, segs') /\ Total(segs') = Total(segs) /\ segs'[writer.seg + 1] = EmptySegment
  BY <1>5, Zenon DEF NewOn
<1>7. Len(segs') = writer.seg + 1 /\ segs' # <<>>
  BY <1>6, Zenon DEF Grown, Long
<1>8. writer.seg + 1 \in Nat /\ writer.next \in Nat
  BY <1>2
<1>9. /\ writer' \in LaneWriter /\ writer'.made /\ writer'.seg = writer.seg + 1
      /\ writer'.off = 0 /\ writer'.count = 0 /\ writer'.next = writer.next
  BY <1>8, WriterIs
<1>10. Len(EmptySegment.data) = 0 /\ ~EmptySegment.seal.whole
  BY EmptyIs
<1>11. laneAt' \notin {"seal", "manifest", "next"}
  BY <1>4
<1>12. WriterSound'
  <2>1. Len(segs'[Len(segs')].data) = 0 /\ ~Sealed(Len(segs))'
    BY <1>6, <1>7, <1>10, Zenon DEF Sealed
  <2>2. 0 = 2 * 0
    OBVIOUS
  <2> QED BY <1>2, <1>6, <1>7, <1>9, <1>11, <2>1, <2>2 DEF WriterSound
<1>13. \/ laneCtx' = laneCtx /\ laneAt' \in Appending
       \/ laneCtx' = NoPut /\ laneAt' = "idle"
  BY <1>4 DEF Appending
<1> QED BY <1>1, <1>3, <1>6, <1>9, <1>12, <1>13, RotateSteps

LEMMA RotateSegments == ASSUME SegmentInv, Rotate PROVE SegmentInv'
<1>1. UNCHANGED <<meta, committed, laneMode, served, asked>>
  BY DEF Rotate, marks
<1>2. PICK ok \in BOOLEAN :
         \/ /\ At("seal") /\ GotoOrFail(ok, "manifest")
            /\ segs' = IF ok THEN Synced(writer.seg) ELSE segs
            /\ writer' = [writer EXCEPT !.fh = ~ok]
         \/ /\ At("manifest") /\ GotoOrFail(ok, "next") /\ UNCHANGED writer
            /\ segs' \in {[segs EXCEPT ![writer.seg].seal = Manifest]}
                         \union (IF ok THEN {} ELSE {segs})
         \/ /\ At("next") /\ GotoOrFail(ok, "append")
            /\ \/ /\ segs' = Append(segs, EmptySegment)
                  /\ writer' = OnSegment(writer.seg + 1, writer.next)
               \/ ~ok /\ UNCHANGED <<segs, writer>>
  BY Zenon DEF Rotate
<1>3. CASE /\ At("seal") /\ GotoOrFail(ok, "manifest")
           /\ segs' = IF ok THEN Synced(writer.seg) ELSE segs
           /\ writer' = [writer EXCEPT !.fh = ~ok]
  BY <1>1, <1>3, SealStep
<1>4. CASE /\ At("manifest") /\ GotoOrFail(ok, "next") /\ UNCHANGED writer
           /\ segs' = [segs EXCEPT ![writer.seg].seal = Manifest]
  BY <1>1, <1>4, ManifestStep
<1>5. CASE /\ At("next") /\ GotoOrFail(ok, "append") /\ segs' = Append(segs, EmptySegment)
           /\ writer' = OnSegment(writer.seg + 1, writer.next)
  BY <1>1, <1>5, NextStep
<1>6. CASE /\ At("manifest") \/ At("next") 
           /\ ~ok /\ UNCHANGED <<segs, writer>> /\ (GotoOrFail(ok, "next") \/ GotoOrFail(ok, "append"))
  <2>1. laneMode = "up" /\ laneAt # "answer" /\ GivesUp
    BY <1>6 DEF At, GotoOrFail
  <2> QED BY <1>1, <1>6, <2>1, QuitSegments
<1> QED BY <1>2, <1>3, <1>4, <1>5, <1>6

-----------------------------------------------------------------------------
(* The end of a commit.                                                    *)

\* When the last segment is synced, all that stands is durable.
LEMMA AllDurable ==
    ASSUME NEW s, s \in Seq(Segment), Segments(s), s[Len(s)].synced = Len(s[Len(s)].data), NEW r, r \in Rec, Stands(s, r)
    PROVE  Durable(s, r)
<1>1. Len(s) \in Nat /\ r.seg \in 1..Len(s) /\ r.off + 2 <= Len(s[r.seg].data)
  BY Counts DEF Stands
<1>2. CASE r.seg = Len(s)
  BY <1>1, <1>2 DEF Durable
<1>3. CASE r.seg # Len(s)
  <2>1. r.seg \in 1..(Len(s) - 1) /\ r.seg \in DOMAIN s
    BY <1>1, <1>3
  <2>2. s[r.seg].synced = Len(s[r.seg].data)
    BY <2>1, Zenon DEF Segments, Sound
  <2> QED BY <1>1, <2>2 DEF Durable
<1> QED BY <1>2, <1>3

LEMMA FsyncStep ==
    ASSUME SegmentInv, At("fsync"), segs' = Synced(writer.seg), Goto("marker"),
           UNCHANGED <<meta, committed, laneMode, writer, served, asked>>
    PROVE  SegmentInv'
<1>0. FilesTyped /\ Segments(segs) /\ Total(segs) <= asked /\ Control /\ WriterSound /\ ChainSound
  BY DEF SegmentInv
<1>1. laneMode = "up" /\ laneAt = "fsync" /\ writer.made /\ laneCtx' = laneCtx /\ laneAt' = "marker"
  BY <1>0 DEF At, Goto, Control
<1>2. /\ segs \in Seq(Segment) /\ segs # <<>> /\ writer.seg \in Nat \ {0} /\ Long(segs, writer.seg)
      /\ writer.off = 2 * writer.count /\ Long(segs[writer.seg].data, writer.off)
      /\ writer.next = Total(segs) + 1 /\ (writer.fh => ~segs[writer.seg].seal.whole)
  BY <1>1, WriterHas
<1>3. WasSynced(segs, writer.seg, segs')
  BY Zenon DEF WasSynced, Synced
<1>4. SyncOn(segs, writer.seg, segs')
  BY <1>0, <1>2, <1>3, LastSynced
<1>5. /\ Grown(segs, writer.seg, segs') /\ Total(segs') = Total(segs)
      /\ segs'[writer.seg].data = segs[writer.seg].data /\ segs'[writer.seg].seal = segs[writer.seg].seal
      /\ segs'[writer.seg].synced = Len(segs[writer.seg].data)
  BY <1>4, Zenon DEF SyncOn
<1>6. /\ segs' \in Seq(Segment) /\ Segments(segs') /\ Growth(segs, segs') /\ Len(segs') = writer.seg
      /\ segs' # <<>> /\ Len(segs[writer.seg].data) = writer.off
  BY <1>2, <1>5, Zenon DEF Grown, Long
<1>7. FilesTyped'
  BY <1>0, <1>1, <1>6 DEF FilesTyped, LaneSteps
<1>8. Control'
  BY <1>0, <1>1, <1>2 DEF Control, Before, Appending
<1>9. WriterSound'
  BY <1>1, <1>2, <1>5, <1>6 DEF WriterSound, Sealed
<1>10. ASSUME NEW k \in DOMAIN laneCtx.recs PROVE Durable(segs', laneCtx.recs[k])
  <2>1. PICK m \in DOMAIN Chain : Chain[m] = laneCtx.recs[k] /\ Chain[m] \in Rec
    BY <1>0, <1>1, ChainIs DEF Pending
  <2>2. Keeps(segs, segs', Chain[m])
    BY <1>0, <1>6, ChainKept
  <2>3. Stands(segs', laneCtx.recs[k]) /\ laneCtx.recs[k] \in Rec
    BY <2>1, <2>2, Zenon DEF Keeps
  <2>4. segs'[Len(segs')].synced = Len(segs'[Len(segs')].data)
    BY <1>5, <1>6, Zenon
  <2> QED BY <1>6, <2>3, <2>4, AllDurable
<1>11. Total(segs') <= asked' /\ asked <= asked'
  BY <1>0, <1>5 DEF FilesTyped
<1>12. Moves
  BY <1>1, <1>6, <1>7, <1>8, <1>9, <1>10, <1>11 DEF Moves
<1> QED BY <1>12, MovesKeep

\* d is a of n elements with b of m behind it.
Joins(a, n, b, m, d) ==
    /\ n \in Nat /\ m \in Nat /\ Len(a) = n /\ DOMAIN a = 1..n /\ Len(b) = m /\ DOMAIN b = 1..m
    /\ Len(d) = n + m /\ DOMAIN d = 1..(n + m)
    /\ \A k \in 1..n : d[k] = a[k]
    /\ \A k \in 1..m : d[n + k] = b[k]

LEMMA Joined ==
    ASSUME NEW S, NEW a \in Seq(S), NEW b \in Seq(S)
    PROVE  \E n, m \in Nat : Joins(a, n, b, m, a \o b)
<1>1. PICK n \in Nat : Len(a) = n
  OBVIOUS
<1>2. PICK m \in Nat : Len(b) = m
  OBVIOUS
<1>3. DOMAIN a = 1..n /\ DOMAIN b = 1..m /\ Len(a \o b) = n + m /\ DOMAIN (a \o b) = 1..(n + m)
  BY <1>1, <1>2
<1>4. ASSUME NEW k \in 1..n PROVE (a \o b)[k] = a[k]
  BY <1>1, <1>2
<1>5. ASSUME NEW k \in 1..m PROVE (a \o b)[n + k] = b[k]
  BY <1>1, <1>2
<1> QED BY <1>1, <1>2, <1>3, <1>4, <1>5, Zenon DEF Joins

\* The marker is written and synced.
LEMMA MarkerStep ==
    ASSUME SegmentInv, At("marker"), committed' = committed \o laneCtx.recs, Goto("answer"),
           UNCHANGED <<meta, segs, laneMode, writer, served, asked>>
    PROVE  SegmentInv'
<1>0. FilesTyped /\ Segments(segs) /\ Total(segs) <= asked /\ Control /\ WriterSound /\ ChainSound /\ CursorsSound /\ ServedSound
  BY DEF SegmentInv
<1>1. laneMode = "up" /\ laneAt = "marker" /\ writer.made /\ laneCtx' = laneCtx /\ laneAt' = "answer"
  BY <1>0 DEF At, Goto, Control
<1>2. committed \in Seq(Rec) /\ laneCtx.recs \in Seq(Rec) /\ served \in Seq(Shown)
  BY <1>0 DEF FilesTyped, LaneCtx
<1>3. committed' \in Seq(Rec)
  BY <1>2
<1>4. FilesTyped'
  BY <1>0, <1>1, <1>3 DEF FilesTyped, LaneSteps
<1>5. Chain' = Chain /\ Chain' = committed'
  BY <1>1, <1>2, <1>3 DEF Chain
<1>6. PICK c \in Nat, m \in Nat : Joins(committed, c, laneCtx.recs, m, committed')
  BY <1>2, Joined
<1>7. Len(committed) = c /\ DOMAIN committed = 1..c /\ Len(laneCtx.recs) = m /\ DOMAIN laneCtx.recs = 1..m
  BY <1>6, Zenon DEF Joins
<1>8. /\ Len(committed') = c + m /\ DOMAIN committed' = 1..(c + m)
      /\ \A k \in 1..c : committed'[k] = committed[k]
      /\ \A k \in 1..m : committed'[c + k] = laneCtx.recs[k]
  BY <1>6, Zenon DEF Joins
<1>9. ChainSound'
  <2>1. ASSUME NEW k \in DOMAIN committed' PROVE Durable(segs, committed'[k])
    <3>1. CASE k \in 1..c
      BY <1>0, <1>7, <1>8, <3>1 DEF ChainSound
    <3>2. CASE k \in (c + 1)..(c + m)
      <4>1. k - c \in 1..m /\ k = c + (k - c)
        BY <1>6, <1>7, <3>2
      <4>2. committed'[k] = laneCtx.recs[k - c]
        BY <1>8, <4>1, Zenon
      <4> QED BY <1>0, <1>1, <1>7, <4>1, <4>2 DEF ChainSound
    <3>3. k \in 1..c \/ k \in (c + 1)..(c + m)
      BY <1>6, <1>7, <1>8
    <3> QED BY <3>1, <3>2, <3>3
  <2> QED BY <1>0, <1>1, <1>5, <2>1 DEF ChainSound
<1>10. CursorsSound'
  BY <1>0, <1>1 DEF CursorsSound
<1>11. ServedSound'
  <2>1. Len(served) = c /\ DOMAIN served = 1..c /\ \A k \in DOMAIN served : served[k] = Entry(segs, committed[k])
    BY <1>0, <1>1, <1>2, <1>7 DEF ServedSound
  <2>2. \A k \in DOMAIN served : k <= c + m /\ served[k] = Entry(segs, committed'[k])
    BY <1>6, <1>7, <1>8, <2>1
  <2>3. \A k \in DOMAIN laneCtx.recs : committed'[Len(served) + k] = laneCtx.recs[k]
    BY <1>7, <1>8, <2>1, Zenon
  <2>4. Len(committed') = Len(served) + Len(laneCtx.recs)
    BY <1>7, <1>8, <2>1, Zenon
  <2> QED BY <1>1, <1>8, <2>2, <2>3, <2>4 DEF ServedSound
<1>12. Control'
  BY <1>0, <1>1 DEF Control, Before, Appending, Active, ExtentEnd, Committed
<1>13. WriterSound'
  BY <1>0, <1>1 DEF WriterSound, Sealed
<1> QED BY <1>0, <1>4, <1>9, <1>10, <1>11, <1>12, <1>13 DEF SegmentInv

\* What a commit answers with.
Answers == [k \in DOMAIN laneCtx.recs |-> [id |-> laneCtx.recs[k].id, cursor |-> laneCtx.cursors[k]]]

LEMMA AnswersAre ==
    ASSUME SegmentInv
    PROVE  /\ Answers \in Seq(Shown) /\ Len(Answers) = Len(laneCtx.recs)
           /\ \A k \in DOMAIN laneCtx.recs : Answers[k] = Entry(segs, laneCtx.recs[k])
<1>1. laneCtx.recs \in Seq(Rec) /\ laneCtx.cursors \in Seq(Nat) /\ Len(laneCtx.cursors) = Len(laneCtx.recs)
      /\ \A k \in DOMAIN laneCtx.recs : laneCtx.cursors[k] = Ordinal(segs, laneCtx.recs[k])
  BY DEF SegmentInv, FilesTyped, LaneCtx, CursorsSound
<1>2. PICK m \in Nat : Len(laneCtx.recs) = m /\ DOMAIN laneCtx.recs = 1..m /\ DOMAIN laneCtx.cursors = 1..m
  BY <1>1
<1>3. ASSUME NEW k \in 1..m PROVE Answers[k] = Entry(segs, laneCtx.recs[k]) /\ Answers[k] \in Shown
  <2>1. laneCtx.recs[k] \in Rec /\ laneCtx.cursors[k] \in Nat
    BY <1>1, <1>2
  <2>2. laneCtx.recs[k].id \in Nat
    BY <2>1 DEF Rec
  <2>3. Answers[k] = [id |-> laneCtx.recs[k].id, cursor |-> laneCtx.cursors[k]]
    BY <1>2 DEF Answers
  <2>4. Answers[k] \in Shown
    BY <2>1, <2>2, <2>3 DEF Shown
  <2> QED BY <1>1, <1>2, <2>3, <2>4, Zenon DEF Entry
<1>4. Answers = [k \in 1..m |-> Answers[k]]
  BY <1>2 DEF Answers
<1> HIDE DEF Answers
<1>5. Answers \in Seq(Shown) /\ Len(Answers) = m
  BY <1>3, <1>4
<1> QED BY <1>2, <1>3, <1>5

LEMMA AnswerStep ==
    ASSUME SegmentInv, At("answer"), GivesUp, served' = served \o Answers,
           UNCHANGED <<meta, segs, committed, laneMode, writer, asked>>
    PROVE  SegmentInv'
<1>0. FilesTyped /\ Segments(segs) /\ Total(segs) <= asked /\ Control /\ WriterSound /\ ChainSound /\ ServedSound
  BY DEF SegmentInv
<1>1. laneMode = "up" /\ laneAt = "answer" /\ writer.made /\ laneCtx' = NoPut /\ laneAt' = "idle"
  BY <1>0 DEF At, GivesUp, Control
<1>2. committed \in Seq(Rec) /\ served \in Seq(Shown) /\ asked \in Nat /\ asked + laneCtx.todo <= MaxRecords
      /\ laneCtx.todo \in Nat
  BY <1>0 DEF FilesTyped, LaneCtx
<1>3. Answers \in Seq(Shown) /\ Len(Answers) = Len(laneCtx.recs)
      /\ \A k \in DOMAIN laneCtx.recs : Answers[k] = Entry(segs, laneCtx.recs[k])
  BY AnswersAre
<1>4. PICK c \in Nat, m \in Nat : Joins(served, c, Answers, m, served')
  BY <1>2, <1>3, Joined
<1>5. /\ Len(served) = c /\ DOMAIN served = 1..c /\ Len(Answers) = m /\ DOMAIN Answers = 1..m
      /\ Len(served') = c + m /\ DOMAIN served' = 1..(c + m)
      /\ \A k \in 1..c : served'[k] = served[k]
      /\ \A k \in 1..m : served'[c + k] = Answers[k]
  BY <1>4, Zenon DEF Joins
<1>6. laneCtx.recs \in Seq(Rec) /\ DOMAIN laneCtx.recs = 1..m
  <2>1. laneCtx.recs \in Seq(Rec)
    BY <1>0 DEF FilesTyped, LaneCtx
  <2>2. Len(laneCtx.recs) = m
    BY <1>3, <1>5, Zenon
  <2> QED BY <2>1, <2>2
<1>7. served' \in Seq(Shown)
  BY <1>2, <1>3
<1>8. FilesTyped'
  <2>1. asked + 0 <= MaxRecords
    BY <1>2, LanesAssumption
  <2> QED BY <1>0, <1>1, <1>7, <2>1, NoPutTyped DEF FilesTyped, LaneSteps
<1>9. Chain' = Chain /\ Chain = committed
  <2>1. NoPut.recs = <<>> /\ committed \o <<>> = committed
    BY <1>2, NoPutTyped
  <2> QED BY <1>1, <2>1, Zenon DEF Chain
<1>10. ChainSound'
  BY <1>0, <1>1, <1>9 DEF ChainSound
<1>11. CursorsSound'
  BY <1>1, NoPutTyped DEF CursorsSound
<1>12. /\ \A k \in 1..c : k <= Len(committed) /\ served[k] = Entry(segs, committed[k])
       /\ Len(committed) = c + m
       /\ \A k \in 1..m : committed[c + k] = laneCtx.recs[k]
  <2>1. Len(laneCtx.recs) = m
    BY <1>3, <1>5
  <2> QED BY <1>0, <1>1, <1>5, <1>6, <2>1 DEF ServedSound
<1>13. ASSUME NEW k \in DOMAIN served' PROVE k <= Len(committed) /\ served'[k] = Entry(segs, committed[k])
  <2>1. CASE k \in 1..c
    BY <1>5, <1>12, <2>1
  <2>2. CASE k \in (c + 1)..(c + m)
    <3>1. k - c \in 1..m /\ k = c + (k - c) /\ k <= c + m
      BY <2>2
    <3>2. served'[k] = Answers[k - c] /\ committed[k] = laneCtx.recs[k - c] 
      BY <1>5, <1>12, <3>1, Zenon
    <3>3. k <= Len(committed)
      BY <1>12, <3>1, Zenon
    <3> QED BY <1>3, <1>6, <3>1, <3>2, <3>3, Zenon
  <2>3. k \in 1..c \/ k \in (c + 1)..(c + m)
    BY <1>5
  <2> QED BY <2>1, <2>2, <2>3
<1>14. ServedSound'
  BY <1>1, <1>5, <1>12, <1>13 DEF ServedSound
<1>15. Control'
  BY <1>0, <1>1, NoPutTyped DEF Control, Before, Appending
<1>16. WriterSound'
  BY <1>0, <1>1 DEF WriterSound, Sealed
<1> QED BY <1>0, <1>8, <1>10, <1>11, <1>14, <1>15, <1>16 DEF SegmentInv

LEMMA FinishSegments == ASSUME SegmentInv, FinishCommit PROVE SegmentInv'
<1>1. UNCHANGED <<meta, laneMode, writer, asked>>
  BY DEF FinishCommit
<1>2. ASSUME NEW ok \in BOOLEAN, At("fsync"), GotoOrFail(ok, "marker"),
             segs' = IF ok THEN Synced(writer.seg) ELSE segs, UNCHANGED <<committed, served>>
      PROVE  SegmentInv'
  <2>1. CASE ok
    BY <1>1, <1>2, <2>1, FsyncStep DEF GotoOrFail
  <2>2. CASE ~ok
    BY <1>1, <1>2, <2>2, QuitSegments DEF GotoOrFail, At
  <2> QED BY <2>1, <2>2
<1>3. ASSUME NEW ok \in BOOLEAN, At("marker"), GotoOrFail(ok, "answer"),
             committed' = IF ok THEN committed \o laneCtx.recs ELSE committed, UNCHANGED <<segs, served>>
      PROVE  SegmentInv'
  <2>1. CASE ok
    BY <1>1, <1>3, <2>1, MarkerStep DEF GotoOrFail
  <2>2. CASE ~ok
    BY <1>1, <1>3, <2>2, QuitSegments DEF GotoOrFail, At
  <2> QED BY <2>1, <2>2
<1>4. CASE At("answer") /\ GivesUp /\ served' = served \o Answers /\ UNCHANGED <<segs, committed>>
  BY <1>1, <1>4, AnswerStep
<1> QED BY <1>2, <1>3, <1>4, Zenon DEF FinishCommit, Answers, marks

-----------------------------------------------------------------------------
(* A crash, and recovery.                                                  *)

\* A chain that keeps its committed records only, all of them kept.
LEMMA ChainCut ==
    ASSUME FilesTyped, ChainSound, laneCtx'.recs = <<>>, laneCtx'.cursors = <<>>, laneAt' = "idle", committed' = committed, asked' = asked,
           \A k \in DOMAIN committed : Keeps(segs, segs', committed[k]) /\ Durable(segs', committed[k])
    PROVE  ChainSound' /\ CursorsSound'
<1>1. committed \in Seq(Rec) /\ asked \in Nat
  BY DEF FilesTyped
<1>2. Chain' = committed
  <2>1. committed \o <<>> = committed
    BY <1>1
  <2> QED BY <2>1, Zenon DEF Chain
<1>3. \A k \in DOMAIN committed : k \in DOMAIN Chain /\ Chain[k] = committed[k]
  BY ChainIs
<1>4. \A k \in DOMAIN Chain' : /\ k \in DOMAIN Chain /\ Chain'[k] = Chain[k]
                               /\ Keeps(segs, segs', Chain[k])
  BY <1>2, <1>3, Zenon
<1>5. asked <= asked' /\ asked' \in Nat
  BY <1>1
<1>6. /\ \A k \in DOMAIN Chain' : Stands(segs', Chain'[k]) /\ Chain'[k].id \in 1..asked'
      /\ \A i, k \in DOMAIN Chain' : i < k => Ordinal(segs', Chain'[i]) < Ordinal(segs', Chain'[k])
  BY <1>1, <1>4, <1>5, ChainStep
<1>7. ChainSound'
  BY <1>6 DEF ChainSound
<1> QED BY <1>7 DEF CursorsSound

\* What stands and does not reach beyond the cut is kept.
LEMMA CutKept ==
    ASSUME NEW s, s \in Seq(Segment), NEW n, n \in Nat \ {0}, Long(s, n), NEW a, Long(s[n].data, a),
           NEW k, k \in 0..a, NEW t, CutOn(s, n, k, t), NEW r, r \in Rec, Stands(s, r), r.seg = n => r.off + 2 <= k
    PROVE  Keeps(s, t, r)
<1>1. t \in Seq(Segment) /\ Cut(s, t, k)
  BY Zenon DEF CutOn
<1>2. Len(s) = n /\ Len(s[Len(s)].data) = a /\ s # <<>>
  BY DEF Long
<1>3. k \in 0..Len(s[Len(s)].data) /\ (r.seg = Len(s) => r.off + 2 <= k)
  BY <1>2, Zenon
<1> QED BY <1>1, <1>2, <1>3, CutKeeps

\* Two fields of one element.
LEMMA TwoFields ==
    ASSUME NEW s, NEW n, n \in DOMAIN s, NEW d, NEW y, NEW l, NEW x, NEW z, s[n] = [data |-> d, synced |-> y, seal |-> l],
           NEW t, t = [s EXCEPT ![n].data = x, ![n].synced = z]
    PROVE  Changed(s, n, [data |-> x, synced |-> z, seal |-> l], t)
<1>1. [s[n] EXCEPT !.data = x] = [data |-> x, synced |-> y, seal |-> l]
  OBVIOUS
<1>2. [s EXCEPT ![n].data = x] = [s EXCEPT ![n] = [data |-> x, synced |-> y, seal |-> l]]
  BY <1>1, Zenon
<1>3. t = [[s EXCEPT ![n].data = x] EXCEPT ![n].synced = z]
  OBVIOUS
<1>4. t = [[s EXCEPT ![n] = [data |-> x, synced |-> y, seal |-> l]] EXCEPT ![n].synced = z]
  BY <1>2, <1>3
<1> QED BY <1>4 DEF Changed

LEMMA CrashSegments == ASSUME SegmentInv, Crash PROVE SegmentInv'
<1>0. FilesTyped /\ Segments(segs) /\ Total(segs) <= asked /\ Control /\ ChainSound
  BY DEF SegmentInv
<1>1. /\ laneMode' = "down" /\ writer' = NoWriter /\ served' = <<>> /\ laneAt' = "idle" /\ laneCtx' = NoPut
      /\ UNCHANGED <<committed, asked>>
      /\ meta' \in (IF meta = "short" /\ (laneAt = "meta" \/ laneMode = "meta") THEN {"absent", "short", "whole"} ELSE {meta})
  BY DEF Crash, marks
<1>2. segs \in Seq(Segment) /\ asked \in Nat /\ laneCtx.todo \in Nat /\ asked + laneCtx.todo <= MaxRecords
      /\ committed \in Seq(Rec) /\ meta \in {"absent", "short", "whole"}
  BY <1>0 DEF FilesTyped, LaneCtx
<1>3. asked + 0 <= MaxRecords
  BY <1>2, LanesAssumption
<1>4. NoWriter \in LaneWriter /\ ~NoWriter.made
  BY DEF NoWriter, LaneWriter
<1>5. meta' \in {"absent", "short", "whole"} /\ (meta' # "whole" => meta # "whole")
  BY <1>1, <1>2
<1>6. ASSUME segs' \in Seq(Segment) PROVE FilesTyped'
  BY <1>0, <1>1, <1>3, <1>4, <1>5, <1>6, NoPutTyped DEF FilesTyped, LaneModes, LaneSteps
<1>7. ASSUME segs = <<>> => segs' = <<>> PROVE Control'
  BY <1>0, <1>1, <1>4, <1>5, <1>7, NoPutTyped DEF Control, Before, Appending
<1>8. ServedSound' /\ WriterSound'
  BY <1>1, <1>4 DEF ServedSound, WriterSound
<1>9. CASE segs = <<>>
  <2>1. segs' = segs
    BY <1>9 DEF Crash
  <2>2. \A k \in DOMAIN committed : Keeps(segs, segs', committed[k]) /\ Durable(segs', committed[k])
    BY <1>0, <2>1, ChainIs DEF ChainSound, Keeps
  <2>3. ChainSound' /\ CursorsSound'
    BY <1>0, <1>1, <2>2, NoPutTyped, ChainCut
  <2> QED BY <1>0, <1>1, <1>2, <1>6, <1>7, <1>8, <1>9, <2>1, <2>3 DEF SegmentInv
<1>10. CASE segs # <<>>
  <2>1. PICK n \in Nat : Len(segs) = n
    BY <1>2
  <2>2. n \in Nat \ {0} /\ Long(segs, n)
    BY <1>2, <1>10, <2>1 DEF Long
  <2>3. PICK d \in Seq(Half), y \in Nat, l \in Seal : segs[n] = [data |-> d, synced |-> y, seal |-> l]
    BY <1>0, <1>2, <2>2, LastIs
  <2>4. d = segs[n].data /\ y = segs[n].synced /\ l = segs[n].seal
    BY <2>3
  <2>5. PICK a \in Nat : Len(d) = a
    OBVIOUS
  <2>6. Sound(segs[n])
    BY <1>0, <1>2, <2>2, LastIs
  <2>7. y <= a /\ (l.whole => y = a)
    BY <2>4, <2>5, <2>6, Zenon DEF Sound
  <2>8. PICK k \in y..a : segs' = [segs EXCEPT ![n].data = SubSeq(@, 1, k), ![n].synced = k]
    BY <1>10, <2>1, <2>4, <2>5, Zenon DEF Crash, Last
  <2>9. Changed(segs, n, [data |-> SubSeq(segs[n].data, 1, k), synced |-> k, seal |-> segs[n].seal], segs')
    <3>1. n \in DOMAIN segs
      BY <1>2, <2>1, <2>2
    <3>3. segs' = [segs EXCEPT ![n].data = SubSeq(d, 1, k), ![n].synced = k]
      BY <2>4, <2>8
    <3>2. Changed(segs, n, [data |-> SubSeq(d, 1, k), synced |-> k, seal |-> l], segs')
      BY <2>3, <3>1, <3>3, TwoFields
    <3> QED BY <2>4, <3>2, Zenon
  <2>10. k \in Nat /\ k \in 0..a /\ y <= k /\ (l.whole => k = a) /\ Long(segs[n].data, a)
    BY <2>4, <2>5, <2>7, <2>8 DEF Long
  <2>11. CutOn(segs, n, k, segs')
    BY <1>0, <1>2, <2>2, <2>4, <2>9, <2>10, LastCut
  <2>12. segs' \in Seq(Segment) /\ Segments(segs') /\ Cut(segs, segs', k) /\ Total(segs') <= Total(segs)
         /\ Long(segs', n) /\ segs'[n].synced = k
    BY <2>1, <2>11, Zenon DEF CutOn, Cut
  <2>13. ASSUME NEW j \in DOMAIN committed PROVE Keeps(segs, segs', committed[j]) /\ Durable(segs', committed[j])
    <3>1. committed[j] \in Rec /\ Stands(segs, committed[j]) /\ Durable(segs, committed[j])
      BY <1>0, ChainIs DEF ChainSound
    <3>2. committed[j].seg = n => committed[j].off + 2 <= k
      BY <2>4, <2>10, <3>1 DEF Durable, Rec
    <3>3. Keeps(segs, segs', committed[j])
      BY <1>2, <2>2, <2>10, <2>11, <3>1, <3>2, CutKept
    <3> QED BY <3>1, <3>3, Zenon DEF Keeps
  <2>14. ChainSound' /\ CursorsSound'
    BY <1>0, <1>1, <2>13, NoPutTyped, ChainCut
  <2>15. Total(segs') <= asked'
    <3>1. Total(segs') \in Nat /\ Total(segs) \in Nat
      BY <1>2, <2>12, TotalNat
    <3> QED BY <1>0, <1>1, <1>2, <2>12, <3>1
  <2> QED BY <1>6, <1>7, <1>8, <1>10, <2>12, <2>14, <2>15 DEF SegmentInv
<1> QED BY <1>9, <1>10

\* Where the lines of n bytes start.
Firsts(n) == {e \in Nat : e % 2 = 0 /\ e + 2 <= n}

LEMMA FirstsCount ==
    ASSUME NEW n \in Nat
    PROVE  IsFiniteSet(Firsts(n)) /\ Cardinality(Firsts(n)) = n \div 2
<1>1. PICK m \in Nat : m = n \div 2 /\ (n = 2 * m \/ n = 2 * m + 1)
  BY Halves
<1>2. ASSUME NEW e PROVE e \in Firsts(n) <=> e \in Evens(m)
  <2>1. ASSUME e \in Firsts(n) PROVE e \in Evens(m)
    <3>1. e \in Nat /\ e % 2 = 0 /\ e + 2 <= n
      BY <2>1 DEF Firsts
    <3>2. PICK j \in Nat : e = 2 * j
      BY <3>1, Halves
    <3>3. j \in 0..(m - 1)
      BY <1>1, <3>1, <3>2
    <3> QED BY <3>2, <3>3 DEF Evens
  <2>2. ASSUME e \in Evens(m) PROVE e \in Firsts(n)
    <3>1. PICK j \in 0..(m - 1) : e = 2 * j
      BY <2>2 DEF Evens
    <3>2. (2 * j) % 2 = 0 /\ j \in Nat
      BY <3>1, Halves
    <3>3. e \in Nat /\ e + 2 <= n
      BY <1>1, <3>1
    <3> QED BY <3>1, <3>2, <3>3 DEF Firsts
  <2> QED BY <2>1, <2>2
<1>3. Firsts(n) = Evens(m)
  BY <1>2
<1>4. Cardinality(Evens(m)) = m
  BY <1>1, EvensCount
<1>5. IsFiniteSet(Firsts(n))
  <2>1. IsFiniteSet(0..n) /\ Firsts(n) \in SUBSET (0..n)
    BY FS_Interval DEF Firsts
  <2> QED BY <2>1, FS_Subset
<1> QED BY <1>1, <1>3, <1>4, <1>5

LEMMA StartsAre ==
    ASSUME NEW d \in Seq(Half), Alternates(d), NEW n \in Nat, Len(d) = n
    PROVE  LineStarts(d) = Firsts(n)
<1> DEFINE ends == {0} \union {k \in DOMAIN d : d[k].half = "lf"}
<1>1. ASSUME NEW e PROVE e \in ends <=> e \in Nat /\ e % 2 = 0 /\ e <= n
  <2>1. DOMAIN d = 1..n /\ 0 % 2 = 0
    OBVIOUS
  <2>2. e \in ends <=> e = 0 \/ (e \in 1..n /\ e % 2 = 0)
    BY <2>1 DEF Alternates
  <2> QED BY <2>1, <2>2
<1>2. LineStarts(d) = {e \in ends : \E k \in ends : k > e}
  BY Zenon DEF LineStarts
<1> HIDE DEF ends
<1>3. ASSUME NEW e PROVE e \in LineStarts(d) <=> e \in Firsts(n)
  <2>1. ASSUME e \in LineStarts(d) PROVE e \in Firsts(n)
    <3>1. PICK k \in ends : e \in ends /\ k > e
      BY <1>2, <2>1
    <3>2. e \in Nat /\ e % 2 = 0 /\ k \in Nat /\ k % 2 = 0 /\ k <= n
      BY <1>1, <3>1
    <3>3. PICK a \in Nat : e = 2 * a
      BY <3>2, Halves
    <3>4. PICK b \in Nat : k = 2 * b
      BY <3>2, Halves
    <3>5. e + 2 <= n
      BY <3>1, <3>2, <3>3, <3>4
    <3> QED BY <3>2, <3>5 DEF Firsts
  <2>2. ASSUME e \in Firsts(n) PROVE e \in LineStarts(d)
    <3>1. e \in Nat /\ e % 2 = 0 /\ e + 2 <= n
      BY <2>2 DEF Firsts
    <3>2. (e + 2) % 2 = 0 /\ e <= n /\ e + 2 > e
      BY <3>1, Halves
    <3>3. e \in ends /\ e + 2 \in ends
      BY <1>1, <3>1, <3>2
    <3> QED BY <1>2, <3>2, <3>3
  <2> QED BY <2>1, <2>2
<1> QED BY <1>3

\* Those up to one of them.
LEMMA FirstsUpTo ==
    ASSUME NEW n \in Nat, NEW off \in Nat, off % 2 = 0, off + 2 <= n
    PROVE  {e \in Firsts(n) : e <= off} = Firsts(off + 2)
<1> SUFFICES ASSUME NEW e \in Nat, e % 2 = 0 PROVE e + 2 <= n /\ e <= off <=> e + 2 <= off + 2
  BY DEF Firsts
<1> QED OBVIOUS

\* Those before one of them, or before the end of one of them.
LEMMA FirstsBefore ==
    ASSUME NEW n \in Nat, NEW end \in Nat, end % 2 = 0, end <= n
    PROVE  {e \in Firsts(n) : e < end} = Firsts(end)
<1> SUFFICES ASSUME NEW e \in Nat, e % 2 = 0 PROVE e + 2 <= n /\ e < end <=> e + 2 <= end
  BY DEF Firsts
<1>1. PICK a \in Nat : e = 2 * a
  BY Halves
<1>2. PICK b \in Nat : end = 2 * b
  BY Halves
<1> QED BY <1>1, <1>2

-----------------------------------------------------------------------------
(* What recovery derives from the files.                                   *)

LEMMA CommittedAre ==
    ASSUME SegmentInv, NEW r \in Range(committed)
    PROVE  r \in Rec /\ Stands(segs, r) /\ Durable(segs, r)
<1>1. PICK k \in DOMAIN committed : r = committed[k]
  BY DEF Range
<1> QED BY <1>1, ChainIs DEF SegmentInv, ChainSound

ExtentSound(i) ==
    /\ ExtentEnd(i) \in Nat /\ ExtentEnd(i) % 2 = 0
    /\ \A n \in Nat : Len(segs[i].data) = n => ExtentEnd(i) <= n
    /\ \A r \in Range(committed) : r.seg = i => r.off + 2 <= ExtentEnd(i)

LEMMA ExtentIs ==
    ASSUME SegmentInv, NEW i
    PROVE  ExtentSound(i)
<1>1. CASE Committed(i) = {}
  <2>1. ExtentEnd(i) = 0 /\ 0 % 2 = 0
    BY <1>1 DEF ExtentEnd
  <2>2. \A r \in Range(committed) : r.seg # i
    BY <1>1 DEF Committed
  <2>3. \A n \in Nat : 0 <= n
    OBVIOUS
  <2> QED BY <2>1, <2>2, <2>3 DEF ExtentSound
<1>2. CASE Committed(i) # {}
  <2> DEFINE ends == {r.off + 2 : r \in Committed(i)}
  <2>1. ASSUME NEW r \in Committed(i)
        PROVE  r \in Range(committed) /\ r.seg = i /\ r \in Rec /\ Stands(segs, r) /\ r.off \in Nat /\ r.off % 2 = 0
               /\ i \in DOMAIN segs /\ r.off + 2 <= Len(segs[i].data)
    <3>1. r \in Range(committed) /\ r.seg = i
      BY DEF Committed
    <3>2. r \in Rec /\ Stands(segs, r)
      BY <3>1, CommittedAre
    <3> QED BY <3>1, <3>2 DEF Stands, Rec
  <2>2. segs \in Seq(Segment) /\ i \in DOMAIN segs
    BY <1>2, <2>1 DEF SegmentInv, FilesTyped
  <2>3. PICK n \in Nat : Len(segs[i].data) = n
    BY <2>2, Counts
  <2>4. \A r \in Committed(i) : r.off + 2 \in Nat /\ r.off + 2 <= n /\ (r.off + 2) % 2 = 0
    BY <2>1, <2>3, Halves
  <2>5. ends \subseteq Nat /\ ends # {} /\ \A m \in ends : m <= n
    BY <1>2, <2>4
  <2>6. \A m \in ends : m % 2 = 0
    BY <2>4
  <2>7. ExtentEnd(i) = Max(ends)
    BY <1>2 DEF ExtentEnd
  <2>8. \A r \in Range(committed) : r.seg = i => r.off + 2 \in ends
    BY DEF Committed
  <2> HIDE DEF ends
  <2>9. Max(ends) \in ends /\ \A m \in ends : m <= Max(ends)
    BY <2>5, Largest
  <2>10. PICK e \in Nat : ExtentEnd(i) = e
    BY <2>5, <2>7, <2>9
  <2>11. e % 2 = 0 /\ e <= n /\ \A m \in ends : m <= e
    BY <2>5, <2>6, <2>7, <2>9, <2>10
  <2>12. \A k \in Nat : Len(segs[i].data) = k => e <= k
    BY <2>3, <2>11
  <2> QED BY <2>8, <2>10, <2>11, <2>12, Zenon DEF ExtentSound
<1> QED BY <1>1, <1>2

\* The lines recovery retains are the first ones of the segment.
Keeping(i) == IF Sealed(i) THEN Len(segs[i].data) ELSE ExtentEnd(i)

LEMMA RetainedIs ==
    ASSUME SegmentInv, NEW i \in DOMAIN segs
    PROVE  /\ Retained(i) = Firsts(Keeping(i)) /\ Keeping(i) \in Nat /\ Keeping(i) % 2 = 0
           /\ LineStarts(segs[i].data) = Firsts(Len(segs[i].data))
           /\ Sealed(i) => segs[i].seal.data = segs[i].data /\ Len(segs[i].data) = 2 * segs[i].seal.count
<1>1. segs \in Seq(Segment) /\ Sound(segs[i]) /\ segs[i].data \in Seq(Half) /\ segs[i].seal.count \in Nat
  BY Counts DEF SegmentInv, FilesTyped, Segments
<1>2. Alternates(segs[i].data)
  BY <1>1 DEF Sound
<1>3. PICK n \in Nat : Len(segs[i].data) = n
  BY <1>1
<1>4. LineStarts(segs[i].data) = Firsts(n)
  BY <1>1, <1>2, <1>3, StartsAre
<1>5. ExtentSound(i)
  BY ExtentIs
<1>6. PICK e \in Nat : ExtentEnd(i) = e
  BY <1>5 DEF ExtentSound
<1>7. e % 2 = 0 /\ e <= n
  BY <1>3, <1>5, <1>6, Zenon DEF ExtentSound
<1>8. CASE Sealed(i)
  <2>1. segs[i].seal.data = segs[i].data /\ Len(segs[i].data) = 2 * segs[i].seal.count
    BY <1>1, <1>8 DEF Sound, Sealed
  <2>2. n % 2 = 0
    BY <1>1, <1>3, <2>1, Halves
  <2>3. Retained(i) = Firsts(n)
    BY <1>4, <1>8, Zenon DEF Retained
  <2>4. Keeping(i) = n
    BY <1>3, <1>8 DEF Keeping
  <2> QED BY <1>3, <1>4, <2>1, <2>2, <2>3, <2>4
<1>9. CASE ~Sealed(i)
  <2>1. {s \in Firsts(n) : s < e} = Firsts(e)
    BY <1>7, FirstsBefore
  <2>2. Retained(i) = {s \in Firsts(n) : s < e}
    BY <1>4, <1>6, <1>9, Zenon DEF Retained
  <2>3. Keeping(i) = e
    BY <1>6, <1>9 DEF Keeping
  <2> QED BY <1>3, <1>4, <1>7, <1>9, <2>1, <2>2, <2>3
<1> QED BY <1>8, <1>9

\* A committed record is among them.
LEMMA RetainedHas ==
    ASSUME SegmentInv, NEW r \in Range(committed)
    PROVE  /\ r \in Rec /\ Stands(segs, r) /\ r.off \in Nat /\ r.off % 2 = 0 /\ r.off + 2 <= Keeping(r.seg)
           /\ Keeping(r.seg) \in Nat /\ Retained(r.seg) = Firsts(Keeping(r.seg)) /\ r.off \in Retained(r.seg)
<1>1. r \in Rec /\ Stands(segs, r) /\ r.seg \in DOMAIN segs /\ r.off \in Nat /\ r.off % 2 = 0 /\ r.off + 2 <= Len(segs[r.seg].data)
  BY CommittedAre DEF Stands, Rec
<1>2. Retained(r.seg) = Firsts(Keeping(r.seg)) /\ Keeping(r.seg) \in Nat
  BY <1>1, RetainedIs
<1>3. r.off + 2 <= ExtentEnd(r.seg)
  BY ExtentIs DEF ExtentSound
<1>4. r.off + 2 <= Keeping(r.seg)
  BY <1>1, <1>3 DEF Keeping
<1>5. r.off \in Firsts(Keeping(r.seg))
  BY <1>1, <1>4, Zenon DEF Firsts
<1> QED BY <1>1, <1>2, <1>4, <1>5, Zenon

LEMMA TwoOf ==
    ASSUME NEW S, NEW d \in Seq(S), NEW m \in Nat \ {0}, NEW n, n = m + 1, n <= Len(d)
    PROVE  SubSeq(d, m, n) = <<d[m], d[n]>>
<1>1. /\ SubSeq(d, m, n) \in Seq(S)
      /\ Len(SubSeq(d, m, n)) = IF m <= n THEN n - m + 1 ELSE 0
      /\ \A i \in 1..(n - m + 1) : SubSeq(d, m, n)[i] = d[m + i - 1]
  <2>1. m \in Int /\ n \in Int /\ \A i \in m..n : d[i] \in S
    OBVIOUS
  <2> QED BY <2>1, SubSeqProperties
<1>2. PICK t \in Seq(S) : t = SubSeq(d, m, n)
  BY <1>1
<1>3. Len(t) = 2
  BY <1>1, <1>2
<1>4. t[1] = d[m + 1 - 1] /\ t[2] = d[m + 2 - 1]
  BY <1>1, <1>2
<1>5. t[1] = d[m] /\ t[2] = d[n]
  BY <1>4
<1>6. t = <<t[1], t[2]>>
  BY <1>3
<1> QED BY <1>2, <1>5, <1>6

LEMMA NeverCorrupt == ASSUME SegmentInv PROVE ~Corrupt
<1>1. ASSUME NEW i \in DOMAIN segs, Sealed(i)
      PROVE  segs[i].seal.data = segs[i].data /\ segs[i].seal.count = Cardinality(LineStarts(segs[i].data))
  <2>1. /\ LineStarts(segs[i].data) = Firsts(Len(segs[i].data))
        /\ segs[i].seal.data = segs[i].data /\ Len(segs[i].data) = 2 * segs[i].seal.count
    BY <1>1, RetainedIs
  <2>2. PICK c \in Nat : segs[i].seal.count = c
    BY Counts DEF SegmentInv, FilesTyped
  <2>3. Cardinality(Firsts(2 * c)) = (2 * c) \div 2 /\ (2 * c) \div 2 = c
    BY <2>2, FirstsCount, Halves
  <2> QED BY <2>1, <2>2, <2>3, Zenon
<1>2. ASSUME NEW r \in Range(committed)
      PROVE  r.seg \in DOMAIN segs /\ r.off \in Retained(r.seg) /\ Slice(r) = Line(r.id)
  <2>1. r.off \in Retained(r.seg) /\ Stands(segs, r) /\ r.off \in Nat
    BY RetainedHas
  <2>2. r.seg \in DOMAIN segs /\ r.off + 2 <= Len(segs[r.seg].data) /\ segs[r.seg].data \in Seq(Half)
    BY <2>1, Counts DEF Stands, SegmentInv, FilesTyped
  <2>3. PICK d \in Seq(Half) : d = segs[r.seg].data
    BY <2>2
  <2>4. PICK o \in Nat : o = r.off
    BY <2>1
  <2>5. o + 2 <= Len(d) /\ d[o + 1] = [id |-> r.id, half |-> "body"] /\ d[o + 2] = [id |-> r.id, half |-> "lf"]
    BY <2>1, <2>2, <2>3, <2>4 DEF Stands
  <2>6. SubSeq(d, o + 1, o + 2) = <<d[o + 1], d[o + 2]>>
    <3>1. o + 1 \in Nat \ {0} /\ o + 2 \in Nat /\ o + 2 = (o + 1) + 1 /\ o + 2 <= Len(d)
      BY <2>5
    <3> QED BY <3>1, TwoOf, Zenon
  <2> QED BY <2>1, <2>2, <2>3, <2>4, <2>5, <2>6, Zenon DEF Slice, Line
<1> QED BY <1>1, <1>2 DEF Corrupt

LEMMA WrittenArea ==
    ASSUME NEW n \in Nat, NEW h, \A j \in 1..n : h[j] = Consumed(j)
    PROVE  WrittenBase(n + 1) = Area(h, n)
<1>1. {{j} \X (1..Consumed(j)) : j \in 1..n} = {{j} \X (1..h[j]) : j \in 1..n}
  BY Zenon
<1>2. (n + 1) - 1 = n
  OBVIOUS
<1> QED BY <1>1, <1>2, Zenon DEF WrittenBase, Area

\* Recovery counts the ordinals of the segments before one as its manifests do.
LEMMA WrittenIs ==
    ASSUME SegmentInv, NEW n \in Nat, n + 1 <= Len(segs)
    PROVE  WrittenBase(n + 1) = Base(segs, n + 1)
<1> DEFINE f == [j \in DOMAIN segs |-> segs[j].seal.count]
<1>1. segs \in Seq(Segment) /\ Segments(segs)
  BY DEF SegmentInv, FilesTyped
<1>2. ASSUME NEW j \in 1..n PROVE f[j] = Consumed(j)
  <2>1. j \in DOMAIN segs /\ j \in 1..(Len(segs) - 1)
    BY <1>1
  <2>2. Sealed(j)
    BY <1>1, <2>1 DEF Segments, Sealed
  <2> QED BY <2>1, <2>2 DEF Consumed
<1>3. Base(segs, n + 1) = Area(f, n)
  BY DEF Base
<1> HIDE DEF f
<1> QED BY <1>2, <1>3, WrittenArea

LEMMA CursorIs ==
    ASSUME SegmentInv, NEW r \in Range(committed)
    PROVE  Cursor(r) = Ordinal(segs, r) /\ r.id \in Nat
<1>1. /\ r \in Rec /\ Stands(segs, r) /\ r.off \in Nat /\ r.off % 2 = 0 /\ r.off + 2 <= Keeping(r.seg)
      /\ Keeping(r.seg) \in Nat /\ Retained(r.seg) = Firsts(Keeping(r.seg))
  BY RetainedHas
<1>2. segs \in Seq(Segment) /\ r.seg \in 1..Len(segs)
  BY <1>1 DEF SegmentInv, FilesTyped, Stands
<1>3. r.seg - 1 \in Nat /\ (r.seg - 1) + 1 = r.seg /\ (r.seg - 1) + 1 <= Len(segs) /\ r.seg \in 1..(Len(segs) + 1)
  BY <1>2
<1>4. WrittenBase(r.seg) = Base(segs, r.seg) /\ Base(segs, r.seg) \in Nat
  BY <1>2, <1>3, WrittenIs, BaseNat
<1>5. {s \in Retained(r.seg) : s <= r.off} = Firsts(r.off + 2)
  BY <1>1, FirstsUpTo
<1>6. Cardinality(Firsts(r.off + 2)) = (r.off \div 2) + 1 /\ r.off \div 2 \in Nat
  <2>1. r.off + 2 \in Nat /\ (r.off + 2) \div 2 = (r.off \div 2) + 1 /\ r.off \div 2 \in Nat
    BY <1>1, Halves
  <2> QED BY <2>1, FirstsCount
<1>7. PICK b \in Nat : b = Base(segs, r.seg)
  BY <1>4
<1>8. PICK h \in Nat : h = r.off \div 2
  BY <1>6
<1>9. Cursor(r) = b + (h + 1)
  BY <1>4, <1>5, <1>6, <1>7, <1>8, Zenon DEF Cursor
<1>10. Ordinal(segs, r) = b + h + 1
  BY <1>7, <1>8, Zenon DEF Ordinal
<1>11. r.id \in Nat
  BY <1>1 DEF Rec
<1> QED BY <1>9, <1>10, <1>11

LEMMA DerivedIs ==
    ASSUME SegmentInv
    PROVE  /\ Derived = [k \in DOMAIN committed |-> Entry(segs, committed[k])]
           /\ Derived \in Seq(Shown) /\ Len(Derived) = Len(committed) /\ DOMAIN Derived = DOMAIN committed
           /\ \A k \in DOMAIN committed : Derived[k] = Entry(segs, committed[k]) /\ Entry(segs, committed[k]) \in Shown
<1>1. PICK c \in Nat : Len(committed) = c /\ DOMAIN committed = 1..c
  BY DEF SegmentInv, FilesTyped
<1>2. ASSUME NEW k \in DOMAIN committed
      PROVE  [id |-> committed[k].id, cursor |-> Cursor(committed[k])] = Entry(segs, committed[k])
             /\ Entry(segs, committed[k]) \in Shown
  <2>1. committed[k] \in Range(committed)
    BY DEF Range
  <2>2. Cursor(committed[k]) = Ordinal(segs, committed[k]) /\ committed[k].id \in Nat
    BY <2>1, CursorIs
  <2>3. Ordinal(segs, committed[k]) \in Nat
    <3>1. committed[k] \in Rec /\ Stands(segs, committed[k])
      BY <2>1, CommittedAre
    <3>2. segs \in Seq(Segment) /\ Segments(segs) /\ Total(segs) \in Nat
      BY TotalNat DEF SegmentInv, FilesTyped
    <3>3. Ordinal(segs, committed[k]) \in 1..Total(segs)
      BY <3>1, <3>2, OrdinalBound
    <3> QED BY <3>2, <3>3
  <2>4. Entry(segs, committed[k]) = [id |-> committed[k].id, cursor |-> Ordinal(segs, committed[k])]
    BY DEF Entry
  <2> QED BY <2>2, <2>3, <2>4 DEF Shown
<1>3. Derived = [k \in 1..c |-> Entry(segs, committed[k])]
  BY <1>1, <1>2, Zenon DEF Derived
<1> QED BY <1>1, <1>2, <1>3

\* The ordinal a reopened writer goes on with.
LEMMA NextIs ==
    ASSUME SegmentInv, laneMode = "open"
    PROVE  NextOrdinal = Total(segs) + 1
<1>1. segs \in Seq(Segment) /\ Segments(segs) /\ Len(segs) \in Nat
  BY DEF SegmentInv, FilesTyped
<1>2. CASE segs = <<>>
  <2>1. WrittenBase(0 + 1) = Area(<<>>, 0)
    BY WrittenArea
  <2>2. \A h : {{j} \X (1..h[j]) : j \in 1..0} = {}
    OBVIOUS
  <2>3. Area(<<>>, 0) = 0
    <3>1. UNION {{j} \X (1..<<>>[j]) : j \in 1..0} = {}
      BY <2>2
    <3> QED BY <3>1, FS_EmptySet, Zenon DEF Area
  <2>4. Len(segs) = 0 /\ Total(segs) = 0
    BY <1>2 DEF Total
  <2> QED BY <2>1, <2>3, <2>4 DEF NextOrdinal
<1>3. CASE segs # <<>>
  <2>1. PICK n \in Nat : Len(segs) = n
    BY <1>1
  <2>2. n \in Nat \ {0} /\ Long(segs, n) /\ n \in DOMAIN segs
    BY <1>1, <1>3, <2>1 DEF Long
  <2> DEFINE h == [j \in 1..n |-> Consumed(j)]
  <2>3. ASSUME NEW j \in 1..n PROVE h[j] \in Nat /\ (j = n => h[j] = Len(segs[n].data) \div 2)
    <3>1. h[j] = Consumed(j) /\ j \in DOMAIN segs
      BY <1>1, <2>1
    <3>2. CASE Sealed(j)
      <4>1. PICK c \in Nat : segs[j].seal.count = c
        BY <1>1, <3>1, Counts
      <4>2. Len(segs[j].data) = 2 * c /\ (2 * c) \div 2 = c
        BY <3>1, <3>2, <4>1, RetainedIs, Halves
      <4>3. Consumed(j) = c
        BY <3>2, <4>1 DEF Consumed
      <4>4. Len(segs[j].data) \div 2 = c
        BY <4>2, Zenon
      <4> QED BY <3>1, <4>3, <4>4
    <3>3. CASE ~Sealed(j)
      <4>1. j = n
        <5>1. j \in 1..(Len(segs) - 1) => segs[j].seal.whole
          BY <1>1 DEF Segments
        <5> QED BY <2>1, <3>3, <5>1 DEF Sealed
      <4>2. j \in Active /\ Active = {n}
        BY <1>3, <2>1, <3>3, <4>1 DEF Active
      <4>3. Len(segs[j].data) = ExtentEnd(j)
        BY <4>2 DEF SegmentInv, Control
      <4>4. Retained(j) = Firsts(Keeping(j)) /\ Keeping(j) \in Nat
        BY <3>1, RetainedIs
      <4>5. Keeping(j) = Len(segs[j].data)
        BY <3>3, <4>3 DEF Keeping
      <4>6. PICK a \in Nat : Len(segs[j].data) = a
        BY <4>4, <4>5
      <4>7. Cardinality(Retained(j)) = a \div 2 /\ a \div 2 \in Nat
        BY <4>4, <4>5, <4>6, FirstsCount, Halves
      <4>8. Consumed(j) = Cardinality(Retained(j))
        BY <2>1, <3>3, <4>1 DEF Consumed
      <4> QED BY <3>1, <4>1, <4>6, <4>7, <4>8
    <3> QED BY <3>2, <3>3
  <2>4. PICK m \in Nat : n = m + 1
    <3>1. n - 1 \in Nat /\ n = (n - 1) + 1
      BY <2>2
    <3> QED BY <3>1
  <2>5. \A j \in 1..n : h[j] = Consumed(j)
    OBVIOUS
  <2>6. n \in 1..n
    BY <2>2
  <2> HIDE DEF h
  <2>7. WrittenBase(n + 1) = Area(h, n)
    BY <2>5, WrittenArea
  <2>8. Area(h, n) = Area(h, m) + h[n]
    <3>1. \A j \in 1..(m + 1) : h[j] \in Nat
      BY <2>3, <2>4
    <3> QED BY <2>4, <3>1, AreaNext
  <2>9. WrittenBase(m + 1) = Area(h, m)
    <3>1. \A j \in 1..m : h[j] = Consumed(j)
      BY <2>4, <2>5
    <3> QED BY <3>1, WrittenArea
  <2>10. WrittenBase(m + 1) = Base(segs, m + 1)
    <3>1. m + 1 <= Len(segs)
      BY <2>1, <2>4
    <3> QED BY <3>1, WrittenIs
  <2>11. h[n] = Len(segs[n].data) \div 2
    BY <2>3, <2>6
  <2>12. Total(segs) = Base(segs, n) + (Len(segs[n].data) \div 2)
    BY <1>1, <2>2, TotalIs
  <2>13. WrittenBase(n + 1) = Total(segs)
    BY <2>4, <2>7, <2>8, <2>9, <2>10, <2>11, <2>12, Zenon
  <2> QED BY <2>1, <2>13, Zenon DEF NextOrdinal
<1> QED BY <1>2, <1>3

-----------------------------------------------------------------------------
(* Recovery.                                                               *)

\* What a step of recovery has to show.
Recovers ==
    /\ laneMode # "up" /\ laneMode' \in LaneModes /\ UNCHANGED <<committed, laneAt, laneCtx, asked>>
    /\ segs' \in Seq(Segment) /\ Segments(segs') /\ Total(segs') <= Total(segs)
    /\ \A k \in DOMAIN committed : Keeps(segs, segs', committed[k]) /\ Durable(segs', committed[k])
    /\ meta' \in {"absent", "short", "whole"} /\ (meta' # "whole" => segs' = <<>>)
    /\ writer' \in LaneWriter /\ served' \in Seq(Shown) /\ ServedSound' /\ WriterSound'
    /\ laneMode' # "up" => ~writer'.made /\ served' = <<>>
    /\ laneMode' = "up" /\ ~writer'.made => segs' = <<>>
    /\ laneMode' \in {"open", "meta"} => (\A i \in Active : Len(segs[i].data) = ExtentEnd(i))'

LEMMA RecoverySteps == ASSUME SegmentInv, Recovers PROVE SegmentInv'
<1>0. FilesTyped /\ Segments(segs) /\ Total(segs) <= asked /\ Control /\ ChainSound /\ CursorsSound
  BY DEF SegmentInv
<1>1. laneAt = "idle" /\ laneAt' = "idle" /\ laneCtx' = laneCtx /\ committed' = committed /\ asked' = asked
      /\ laneCtx.recs = <<>>
  BY <1>0 DEF Recovers, Control
<1>2. laneCtx'.recs = <<>> /\ laneCtx'.cursors = <<>>
  <2>1. Len(laneCtx.cursors) = Len(<<>>) /\ laneCtx.cursors \in Seq(Nat)
    BY <1>0, <1>1 DEF CursorsSound, FilesTyped, LaneCtx
  <2> QED BY <1>1, <2>1
<1>3. ChainSound' /\ CursorsSound'
  BY <1>0, <1>1, <1>2, ChainCut DEF Recovers
<1>4. FilesTyped'
  BY <1>0, <1>1 DEF Recovers, FilesTyped
<1>5. Total(segs') <= asked'
  <2>1. Total(segs') \in Nat /\ Total(segs) \in Nat /\ asked \in Nat
    BY <1>0, TotalNat DEF Recovers, FilesTyped
  <2> QED BY <1>0, <1>1, <2>1 DEF Recovers
<1>6. Control'
  BY <1>1 DEF Recovers, Control, Before, Appending
<1> QED BY <1>3, <1>4, <1>5, <1>6 DEF SegmentInv, Recovers

\* Where the segments stay, the records do.
LEMMA StandStill ==
    ASSUME SegmentInv, segs' = segs
    PROVE  /\ segs' \in Seq(Segment) /\ Segments(segs') /\ Total(segs') <= Total(segs)
           /\ \A k \in DOMAIN committed : Keeps(segs, segs', committed[k]) /\ Durable(segs', committed[k])
<1>1. FilesTyped /\ ChainSound /\ segs \in Seq(Segment) /\ Segments(segs)
  BY DEF SegmentInv, FilesTyped
<1>2. Total(segs) \in Nat
  BY <1>1, TotalNat
<1>3. \A k \in DOMAIN committed : Keeps(segs, segs', committed[k]) /\ Durable(segs', committed[k])
  BY <1>1, ChainIs DEF ChainSound, Keeps
<1> QED BY <1>1, <1>2, <1>3

LEMMA PreserveSegments == ASSUME SegmentInv, Preserve PROVE SegmentInv'
<1>1. laneMode = "down" /\ laneMode' = "tail" /\ UNCHANGED <<meta, segs, committed, writer, served, laneAt, laneCtx, asked>>
  BY NeverCorrupt DEF Preserve, marks, commitVars, bounds
<1>2. FilesTyped /\ Control
  BY DEF SegmentInv
<1>3. ~writer.made /\ served = <<>> /\ (meta # "whole" => segs = <<>>)
  BY <1>1, <1>2 DEF Control
<1>4. meta' \in {"absent", "short", "whole"} /\ writer' \in LaneWriter /\ served' \in Seq(Shown)
  BY <1>1, <1>2 DEF FilesTyped
<1>5. ServedSound' /\ WriterSound'
  BY <1>1, <1>3 DEF ServedSound, WriterSound
<1>6. Recovers
  BY <1>1, <1>3, <1>4, <1>5, StandStill DEF Recovers, LaneModes
<1> QED BY <1>6, RecoverySteps

LEMMA CutTailSegments == ASSUME SegmentInv, CutTail PROVE SegmentInv'
<1>1. laneMode = "tail" /\ laneMode' = "open" /\ UNCHANGED <<meta, committed, writer, served, laneAt, laneCtx, asked>>
  BY DEF CutTail, marks, commitVars, bounds
<1>2. FilesTyped /\ Segments(segs) /\ Control /\ ChainSound /\ segs \in Seq(Segment)
  BY DEF SegmentInv, FilesTyped
<1>3. ~writer.made /\ served = <<>> /\ (meta # "whole" => segs = <<>>)
  BY <1>1, <1>2 DEF Control
<1>4. meta' \in {"absent", "short", "whole"} /\ writer' \in LaneWriter /\ served' \in Seq(Shown)
  BY <1>1, <1>2 DEF FilesTyped
<1>5. ServedSound' /\ WriterSound'
  BY <1>1, <1>3 DEF ServedSound, WriterSound
<1>6. ASSUME segs' \in Seq(Segment) /\ Segments(segs') /\ Total(segs') <= Total(segs),
             \A k \in DOMAIN committed : Keeps(segs, segs', committed[k]) /\ Durable(segs', committed[k]),
             segs = <<>> => segs' = <<>>,
             (\A i \in Active : Len(segs[i].data) = ExtentEnd(i))'
      PROVE  SegmentInv'
  <2>1. Recovers
    BY <1>1, <1>3, <1>4, <1>5, <1>6 DEF Recovers, LaneModes
  <2> QED BY <2>1, RecoverySteps
<1>7. CASE Active = {}
  <2>1. segs' = segs
    <3>1. segs' = [i \in DOMAIN segs |-> segs[i]]
      BY <1>7 DEF CutTail
    <3> QED BY <1>2, <3>1
  <2>2. Active' = {}
    BY <1>7, <2>1 DEF Active, Sealed
  <2> QED BY <1>6, <2>1, <2>2, StandStill
<1>8. CASE Active # {}
  <2>1. PICK n \in Nat : Len(segs) = n
    BY <1>2
  <2>2. segs # <<>> /\ ~Sealed(n) /\ Active = {n}
    BY <1>8, <2>1 DEF Active
  <2>3. n \in Nat \ {0} /\ Long(segs, n) /\ DOMAIN segs = 1..n /\ n \in DOMAIN segs
    BY <1>2, <2>1, <2>2 DEF Long
  <2>4. PICK a \in Nat : Long(segs[n].data, a)
    BY <1>2, <2>3, Counts DEF Long
  <2>5. ExtentSound(n)
    BY ExtentIs
  <2>6. PICK e \in Nat : ExtentEnd(n) = e
    BY <2>5 DEF ExtentSound
  <2>7. e <= a /\ \A r \in Range(committed) : r.seg = n => r.off + 2 <= e
    BY <2>4, <2>5, <2>6, Zenon DEF ExtentSound, Long
  <2>8. e \in 0..a /\ (segs[n].seal.whole => e = a)
    BY <2>2, <2>4, <2>7 DEF Sealed, Long
  <2>9. Changed(segs, n, [data |-> SubSeq(segs[n].data, 1, e), synced |-> e, seal |-> segs[n].seal], segs')
    <3>1. PICK d \in Seq(Half), y \in Nat, l \in Seal : segs[n] = [data |-> d, synced |-> y, seal |-> l]
      BY <1>2, <2>3, LastIs
    <3>2. [segs[n] EXCEPT !.data = SubSeq(@, 1, e), !.synced = e] = [data |-> SubSeq(d, 1, e), synced |-> e, seal |-> l]
      <4>1. segs[n].data = d
        BY <3>1
      <4>2. PICK x : x = SubSeq(d, 1, e)
        OBVIOUS
      <4>3. [[data |-> d, synced |-> y, seal |-> l] EXCEPT !.data = x, !.synced = e] = [data |-> x, synced |-> e, seal |-> l]
        <5>1. [[data |-> d, synced |-> y, seal |-> l] EXCEPT !.data = x] = [data |-> x, synced |-> y, seal |-> l]
          OBVIOUS
        <5>2. [[data |-> x, synced |-> y, seal |-> l] EXCEPT !.synced = e] = [data |-> x, synced |-> e, seal |-> l]
          OBVIOUS
        <5> QED BY <5>1, <5>2, Zenon
      <4> QED BY <3>1, <4>1, <4>2, <4>3, Zenon
    <3>3. segs' = [i \in DOMAIN segs |-> IF i = n THEN [segs[i] EXCEPT !.data = SubSeq(@, 1, ExtentEnd(i)), !.synced = ExtentEnd(i)]
                                         ELSE segs[i]]
      BY <2>2 DEF CutTail
    <3>4. segs' = [i \in DOMAIN segs |-> IF i = n THEN [data |-> SubSeq(d, 1, e), synced |-> e, seal |-> l] ELSE segs[i]]
      BY <2>6, <3>2, <3>3, Zenon
    <3>5. segs' = [segs EXCEPT ![n] = [data |-> SubSeq(d, 1, e), synced |-> e, seal |-> l]]
      BY <1>2, <3>4
    <3>6. d = segs[n].data /\ l = segs[n].seal
      BY <3>1
    <3> QED BY <3>5, <3>6, Zenon DEF Changed
  <2>10. CutOn(segs, n, e, segs')
    BY <1>2, <2>3, <2>4, <2>8, <2>9, LastCut
  <2>11. /\ segs' \in Seq(Segment) /\ Segments(segs') /\ Cut(segs, segs', e) /\ segs' # <<>> /\ Long(segs', n)
         /\ Total(segs') <= Total(segs) /\ segs'[n].seal = segs[n].seal /\ Long(segs'[n].data, e) /\ segs'[n].synced = e
    BY <2>1, <2>10, Zenon DEF CutOn, Cut
  <2>12. ASSUME NEW k \in DOMAIN committed PROVE Keeps(segs, segs', committed[k]) /\ Durable(segs', committed[k])
    <3>1. committed[k] \in Range(committed)
      BY DEF Range
    <3>2. committed[k] \in Rec /\ Stands(segs, committed[k]) /\ Durable(segs, committed[k])
      BY <3>1, CommittedAre
    <3>3. Keeps(segs, segs', committed[k])
      BY <1>2, <2>3, <2>4, <2>7, <2>8, <2>10, <3>1, <3>2, CutKept
    <3> QED BY <3>2, <3>3, Zenon DEF Keeps
  <2>13. (\A i \in Active : Len(segs[i].data) = ExtentEnd(i))'
    <3>1. Active' = {n}
      BY <2>2, <2>11, Zenon DEF Active, Sealed, Long
    <3>2. ExtentEnd(n)' = ExtentEnd(n)
      BY <1>1, Zenon DEF ExtentEnd, Committed
    <3>3. Len(segs'[n].data) = e
      BY <2>11, Zenon DEF Long
    <3> QED BY <2>6, <3>1, <3>2, <3>3
  <2> QED BY <1>6, <2>2, <2>11, <2>12, <2>13
<1> QED BY <1>7, <1>8

\* What a reopened lane serves.
LEMMA ServesDerived ==
    ASSUME SegmentInv, laneMode' = "up", laneAt' = "idle", served' = Derived, committed' = committed,
           \A k \in DOMAIN committed : Keeps(segs, segs', committed[k])
    PROVE  served' \in Seq(Shown) /\ ServedSound'
<1>1. /\ Derived \in Seq(Shown) /\ Len(Derived) = Len(committed) /\ DOMAIN Derived = DOMAIN committed
      /\ \A k \in DOMAIN committed : Derived[k] = Entry(segs, committed[k])
  BY DerivedIs
<1>2. \A k \in DOMAIN committed : Entry(segs', committed[k]) = Entry(segs, committed[k])
  BY DEF Keeps, Entry
<1>3. \A k \in DOMAIN committed : k <= Len(committed)
  BY DEF SegmentInv, FilesTyped
<1>4. \A k \in DOMAIN served' : k <= Len(committed') /\ served'[k] = Entry(segs', committed'[k])
  BY <1>1, <1>2, <1>3, Zenon
<1> QED BY <1>1, <1>4 DEF ServedSound

\* A lane without lane.json.
LEMMA OpensBare ==
    ASSUME SegmentInv, laneMode \in {"open", "meta"}, laneMode' \in {"up", "meta", "open", "stuck"},
           laneMode' = "up" => meta = "absent", meta' \in {"absent", "short", "whole"},
           UNCHANGED <<segs, committed, writer, served, laneAt, laneCtx, asked>>,
           meta' # "whole" => meta # "whole"
    PROVE  SegmentInv'
<1>1. FilesTyped /\ Control /\ ChainSound
  BY DEF SegmentInv
<1>2. ~writer.made /\ served = <<>> /\ (meta # "whole" => segs = <<>>) /\ laneAt = "idle"
  BY <1>1 DEF Control
<1>3. writer' \in LaneWriter /\ served' \in Seq(Shown)
  BY <1>1 DEF FilesTyped
<1>4. segs = <<>> => committed = <<>>
  <2> SUFFICES ASSUME segs = <<>>, committed # <<>> PROVE FALSE
    OBVIOUS
  <2>1. committed \in Seq(Rec)
    BY <1>1 DEF FilesTyped
  <2>2. 1 \in DOMAIN committed
    BY <2>1
  <2>3. committed[1] \in Range(committed)
    BY <2>2 DEF Range
  <2>4. Stands(segs, committed[1])
    BY <2>3, CommittedAre
  <2> QED BY <2>4 DEF Stands
<1>5. ServedSound'
  <2>1. laneMode' = "up" => segs = <<>> /\ committed' = <<>> /\ served' = <<>> /\ laneAt' = "idle"
    BY <1>2, <1>4
  <2> QED BY <2>1 DEF ServedSound
<1>6. WriterSound'
  BY <1>2 DEF WriterSound
<1>7. (\A i \in Active : Len(segs[i].data) = ExtentEnd(i))'
  <2>1. \A i \in Active : Len(segs[i].data) = ExtentEnd(i)
    BY <1>1 DEF Control
  <2>2. Active' = Active /\ \A i : ExtentEnd(i)' = ExtentEnd(i)
    BY Zenon DEF Active, Sealed, ExtentEnd, Committed
  <2> QED BY <2>1, <2>2
<1>8. Recovers
  BY <1>2, <1>3, <1>5, <1>6, <1>7, StandStill DEF Recovers, LaneModes
<1> QED BY <1>8, RecoverySteps

\* A lane whose last segment is sealed, or that has none, gets the next one.
LEMMA OpensNext ==
    ASSUME SegmentInv, laneMode = "open", meta = "whole", laneMode' = "up", served' = Derived, Active = {},
           segs' = Append(segs, EmptySegment), writer' = OnSegment(Len(segs) + 1, NextOrdinal),
           UNCHANGED <<meta, committed, laneAt, laneCtx, asked>>
    PROVE  SegmentInv'
<1>1. FilesTyped /\ Control /\ ChainSound /\ segs \in Seq(Segment) /\ Segments(segs) /\ Total(segs) \in Nat
  BY TotalNat DEF SegmentInv, FilesTyped
<1>2. laneAt = "idle" /\ laneAt' = "idle"
  BY <1>1 DEF Control
<1>3. PICK n \in Nat : Len(segs) = n
  BY <1>1
<1>4. Long(segs, n) /\ (n # 0 => segs[n].seal.whole)
  BY <1>1, <1>3 DEF Active, Sealed, Long
<1>5. NewOn(segs, n, segs')
  BY <1>1, <1>4, SegmentAdded
<1>6. Grown(segs, n + 1, segs') /\ Total(segs') = Total(segs) /\ segs'[n + 1] = EmptySegment
  BY <1>5, Zenon DEF NewOn
<1>7. segs' \in Seq(Segment) /\ Segments(segs') /\ Growth(segs, segs') /\ Len(segs') = n + 1 /\ segs' # <<>>
  BY <1>6, Zenon DEF Grown, Long
<1>8. NextOrdinal = Total(segs) + 1
  BY NextIs
<1>9. n + 1 \in Nat /\ NextOrdinal \in Nat
  BY <1>1, <1>8
<1>10. /\ writer' \in LaneWriter /\ writer'.made /\ writer'.seg = n + 1
       /\ writer'.off = 0 /\ writer'.count = 0 /\ writer'.next = NextOrdinal
  BY <1>3, <1>9, WriterIs
<1>11. Len(EmptySegment.data) = 0 /\ ~EmptySegment.seal.whole
  BY EmptyIs
<1>12. WriterSound'
  <2>1. Len(segs'[Len(segs')].data) = 0 /\ ~Sealed(Len(segs))'
    BY <1>6, <1>7, <1>11, Zenon DEF Sealed
  <2>2. 0 = 2 * 0
    OBVIOUS
  <2> QED BY <1>2, <1>6, <1>7, <1>8, <1>10, <2>1, <2>2 DEF WriterSound
<1>13. ASSUME NEW k \in DOMAIN committed PROVE Keeps(segs, segs', committed[k]) /\ Durable(segs', committed[k])
  <2>1. committed[k] \in Range(committed)
    BY DEF Range
  <2>2. committed[k] \in Rec /\ Stands(segs, committed[k]) /\ Durable(segs, committed[k])
    BY <2>1, CommittedAre
  <2>3. Keeps(segs, segs', committed[k])
    BY <1>1, <1>7, <2>2, GrowthKeeps
  <2> QED BY <2>2, <2>3, Zenon DEF Keeps
<1>14. served' \in Seq(Shown) /\ ServedSound'
  BY <1>2, <1>13, ServesDerived
<1>15. Total(segs') <= Total(segs)
  BY <1>1, <1>6
<1>16. Recovers
  BY <1>7, <1>10, <1>12, <1>13, <1>14, <1>15 DEF Recovers, LaneModes
<1> QED BY <1>16, RecoverySteps

\* A lane whose last segment goes on.
LEMMA OpensLast ==
    ASSUME SegmentInv, laneMode = "open", meta = "whole", laneMode' = "up", served' = Derived, Active # {},
           segs' = segs, writer' = [OnSegment(Len(segs), NextOrdinal) EXCEPT
                                      !.off = ExtentEnd(Len(segs)), !.count = Cardinality(Retained(Len(segs)))],
           UNCHANGED <<meta, committed, laneAt, laneCtx, asked>>
    PROVE  SegmentInv'
<1>1. FilesTyped /\ Control /\ ChainSound /\ segs \in Seq(Segment) /\ Segments(segs) /\ Total(segs) \in Nat
  BY TotalNat DEF SegmentInv, FilesTyped
<1>2. laneAt = "idle" /\ laneAt' = "idle"
  BY <1>1 DEF Control
<1>3. PICK n \in Nat : Len(segs) = n
  BY <1>1
<1>4. segs # <<>> /\ ~Sealed(n) /\ n \in Active /\ n \in DOMAIN segs
  BY <1>1, <1>3 DEF Active
<1>5. ExtentSound(n)
  BY ExtentIs
<1>6. PICK e \in Nat : ExtentEnd(n) = e
  BY <1>5 DEF ExtentSound
<1>7. Len(segs[n].data) = e /\ e % 2 = 0
  BY <1>1, <1>4, <1>5, <1>6 DEF Control, ExtentSound
<1>8. Retained(n) = Firsts(e)
  BY <1>4, <1>6, RetainedIs DEF Keeping
<1>9. PICK c \in Nat : Cardinality(Retained(n)) = c /\ e = 2 * c
  BY <1>7, <1>8, FirstsCount, Halves
<1>10. NextOrdinal = Total(segs) + 1
  BY NextIs
<1>11. PICK x \in Nat : NextOrdinal = x
  BY <1>1, <1>10
<1>12. writer' = [OnSegment(n, x) EXCEPT !.off = e, !.count = c]
  BY <1>3, <1>6, <1>9, <1>11
<1>13. /\ writer' \in LaneWriter /\ writer'.made /\ writer'.seg = n
       /\ writer'.off = e /\ writer'.count = c /\ writer'.next = x
  BY <1>12 DEF OnSegment, LaneWriter
<1>14. WriterSound'
  BY <1>2, <1>3, <1>4, <1>7, <1>9, <1>10, <1>11, <1>13 DEF WriterSound, Sealed
<1>15. \A k \in DOMAIN committed : Keeps(segs, segs', committed[k])
  BY StandStill
<1>16. served' \in Seq(Shown) /\ ServedSound'
  BY <1>2, <1>15, ServesDerived
<1>17. Recovers
  BY <1>13, <1>14, <1>16, StandStill DEF Recovers, LaneModes
<1> QED BY <1>17, RecoverySteps

LEMMA OpenSegments == ASSUME SegmentInv, OpenWriter PROVE SegmentInv'
<1>1. UNCHANGED <<committed, laneAt, laneCtx, asked>>
  BY DEF OpenWriter, marks, commitVars, bounds
<1>2. CASE laneMode = "open" /\ meta = "absent" /\ laneMode' = "up" /\ UNCHANGED <<meta, served, segs, writer>>
  BY <1>1, <1>2, OpensBare
<1>3. CASE laneMode = "open" /\ meta = "absent" /\ laneMode' = "meta" /\ meta' = "short" /\ UNCHANGED <<served, segs, writer>>
  BY <1>1, <1>3, OpensBare
<1>4. CASE laneMode = "meta" /\ laneMode' = "open" /\ meta' = "whole" /\ UNCHANGED <<segs, writer, served>>
  BY <1>1, <1>4, OpensBare
<1>5. CASE laneMode = "open" /\ meta = "short" /\ laneMode' = "stuck" /\ UNCHANGED <<meta, segs, writer, served>>
  BY <1>1, <1>5, OpensBare
<1>6. CASE laneMode = "open" /\ MetaRead /\ laneMode' = "up" /\ served' = Derived /\ Active = {}
           /\ segs' = Append(segs, EmptySegment) /\ writer' = OnSegment(Len(segs) + 1, NextOrdinal) /\ UNCHANGED meta
  BY <1>1, <1>6, OpensNext DEF MetaRead
<1>7. CASE laneMode = "open" /\ MetaRead /\ laneMode' = "up" /\ served' = Derived /\ Active # {} /\ UNCHANGED segs
           /\ writer' = [OnSegment(Len(segs), NextOrdinal) EXCEPT
                           !.off = ExtentEnd(Len(segs)), !.count = Cardinality(Retained(Len(segs)))] /\ UNCHANGED meta
  BY <1>1, <1>7, OpensLast DEF MetaRead
<1> QED BY <1>2, <1>3, <1>4, <1>5, <1>6, <1>7 DEF OpenWriter

-----------------------------------------------------------------------------
(* The lane serves what recovery would derive.                             *)

LEMMA SegmentsBegin == FilesInit => SegmentInv
<1> SUFFICES ASSUME FilesInit PROVE SegmentInv
  OBVIOUS
<1>1. /\ meta = "absent" /\ segs = <<>> /\ committed = <<>> /\ laneMode = "up" /\ writer = NoWriter /\ served = <<>>
      /\ laneAt = "idle" /\ laneCtx = NoPut /\ asked = 0
  BY DEF FilesInit
<1>2. NoWriter \in LaneWriter /\ ~NoWriter.made
  BY DEF NoWriter, LaneWriter
<1>3. NoPut \in LaneCtx /\ NoPut.todo = 0 /\ NoPut.recs = <<>> /\ NoPut.cursors = <<>>
  BY NoPutTyped
<1>4. FilesTyped
  BY <1>1, <1>2, <1>3, LanesAssumption DEF FilesTyped, LaneModes, LaneSteps
<1>5. Segments(segs) /\ Total(segs) <= asked
  BY <1>1 DEF Segments, Total
<1>6. Chain = <<>>
  BY <1>1, <1>3 DEF Chain
<1>7. ChainSound /\ CursorsSound /\ ServedSound
  BY <1>1, <1>3, <1>6 DEF ChainSound, CursorsSound, ServedSound
<1>8. Control /\ WriterSound
  BY <1>1, <1>2, <1>3 DEF Control, WriterSound, Before, Appending
<1> QED BY <1>4, <1>5, <1>7, <1>8 DEF SegmentInv

LEMMA SegmentsStay == ASSUME SegmentInv, UNCHANGED filesVars PROVE SegmentInv'
<1>1. UNCHANGED <<meta, segs, committed, laneMode, writer, served, laneAt, laneCtx, asked>>
  BY DEF filesVars, laneFiles, laneMemory, commitVars, bounds, marks
<1>2. Chain' = Chain
  BY <1>1 DEF Chain
<1>3. /\ FilesTyped' = FilesTyped /\ CursorsSound' = CursorsSound /\ ServedSound' = ServedSound /\ ChainSound' = ChainSound
  BY <1>1, <1>2 DEF FilesTyped, CursorsSound, ServedSound, ChainSound
<1>4. Control' = Control /\ WriterSound' = WriterSound
  BY <1>1 DEF Control, WriterSound, Active, Sealed, ExtentEnd, Committed
<1> QED BY <1>1, <1>3, <1>4 DEF SegmentInv

LEMMA SegmentsStep == SegmentInv /\ [FilesNext]_filesVars => SegmentInv'
<1> SUFFICES ASSUME SegmentInv, [FilesNext]_filesVars PROVE SegmentInv'
  OBVIOUS
<1>1. CASE UNCHANGED filesVars
  BY <1>1, SegmentsStay
<1>2. ASSUME NEW n \in Sizes, NEW d \in Digests \union {None}, BeginCommit(n, d) PROVE SegmentInv'
  BY <1>2, BeginSegments
<1>3. CASE PutObject
  BY <1>3, PutObjectSegments
<1>4. CASE WriterFor
  BY <1>4, WriterForSegments
<1>5. CASE Append1
  BY <1>5, AppendSegments
<1>6. CASE Rotate
  BY <1>6, RotateSegments
<1>7. CASE FinishCommit
  BY <1>7, FinishSegments
<1>8. CASE Crash
  BY <1>8, CrashSegments
<1>9. CASE Preserve
  BY <1>9, PreserveSegments
<1>10. CASE CutTail
  BY <1>10, CutTailSegments
<1>11. CASE OpenWriter
  BY <1>11, OpenSegments
<1> QED BY <1>1, <1>2, <1>3, <1>4, <1>5, <1>6, <1>7, <1>8, <1>9, <1>10, <1>11 DEF FilesNext

LEMMA SegmentsAlways == FilesSpec => []SegmentInv
  BY SegmentsBegin, SegmentsStep, PTL DEF FilesSpec

LEMMA ServesWhatIs == SegmentInv => ServesAsRecovered
<1> SUFFICES ASSUME SegmentInv PROVE ServesAsRecovered
  OBVIOUS
<1>1. laneMode # "corrupt"
  BY DEF SegmentInv, FilesTyped, LaneModes
<1>2. ASSUME laneMode = "up", laneAt # "answer" PROVE served = Derived
  <2>1. /\ Derived \in Seq(Shown) /\ Len(Derived) = Len(committed) /\ DOMAIN Derived = DOMAIN committed
        /\ \A k \in DOMAIN committed : Derived[k] = Entry(segs, committed[k])
    BY DerivedIs
  <2>2. PICK c \in Nat : Len(committed) = c /\ DOMAIN committed = 1..c
    BY DEF SegmentInv, FilesTyped
  <2>3. served \in Seq(Shown) /\ Len(served) = c /\ \A k \in DOMAIN served : served[k] = Entry(segs, committed[k])
    BY <1>2, <2>2 DEF SegmentInv, FilesTyped, ServedSound
  <2>4. PICK e \in Seq(Shown) : e = Derived
    BY <2>1
  <2>5. Len(e) = c /\ \A k \in 1..c : e[k] = Entry(segs, committed[k])
    BY <2>1, <2>2, <2>4, Zenon
  <2>6. PICK f \in Seq(Shown) : f = served
    BY <2>3
  <2>7. Len(f) = c /\ \A k \in 1..c : f[k] = Entry(segs, committed[k])
    BY <2>3, <2>6
  <2>8. e = f
    BY <2>5, <2>7
  <2> QED BY <2>4, <2>6, <2>8
<1> QED BY <1>1, <1>2 DEF ServesAsRecovered

\* lanes.ts and journal.ts: what the process serves, each record with the
\* ordinal it was given when it was appended, is what the next recovery
\* derives from the segments and the markers, and no crash leaves files that
\* recovery calls corrupt.
THEOREM ServesFromFiles == FilesSpec => []ServesAsRecovered
  BY SegmentsAlways, ServesWhatIs, PTL

-----------------------------------------------------------------------------
(* The lane keeps its log.                                                 *)

\* The log that recovery would derive.
DerivedSound ==
    /\ Derived \in Seq(Promise!Entry) /\ Promise!Rising(Derived)
    /\ Len(Derived) = Len(committed) /\ DOMAIN Derived = DOMAIN committed
    /\ \A k \in DOMAIN committed : Derived[k] = Entry(segs, committed[k])

LEMMA DerivesALog == SegmentInv => DerivedSound
<1> SUFFICES ASSUME SegmentInv PROVE DerivedSound
  OBVIOUS
<1>1. /\ Derived \in Seq(Shown) /\ Len(Derived) = Len(committed) /\ DOMAIN Derived = DOMAIN committed
      /\ \A k \in DOMAIN committed : Derived[k] = Entry(segs, committed[k])
  BY DerivedIs
<1>2. PICK b \in Nat : asked <= b /\ b = MaxRecords
  BY LanesAssumption DEF SegmentInv, FilesTyped, LaneCtx
<1>3. /\ segs \in Seq(Segment) /\ Segments(segs) /\ Total(segs) \in Nat /\ Total(segs) <= b /\ asked \in Nat
  BY <1>2, TotalNat DEF SegmentInv, FilesTyped
<1>4. ASSUME NEW k \in DOMAIN committed
      PROVE  Derived[k] \in Promise!Entry /\ Derived[k].cursor = Ordinal(segs, committed[k]) 
             /\ k \in DOMAIN Chain /\ Chain[k] = committed[k]
  <2>1. k \in DOMAIN Chain /\ Chain[k] = committed[k] /\ committed[k] \in Rec
    BY ChainIs DEF SegmentInv
  <2>2. Stands(segs, committed[k]) /\ committed[k].id \in 1..asked
    BY <2>1 DEF SegmentInv, ChainSound
  <2>3. Ordinal(segs, committed[k]) \in 1..Total(segs)
    BY <1>3, <2>1, <2>2, OrdinalBound
  <2>4. Derived[k] = [id |-> committed[k].id, cursor |-> Ordinal(segs, committed[k])]
    BY <1>1, Zenon DEF Entry
  <2>5. PICK o \in Nat : o = Ordinal(segs, committed[k]) /\ o \in 1..b
    BY <1>3, <2>3
  <2>6. PICK i \in Nat : i = committed[k].id /\ i \in 1..b
    BY <1>2, <1>3, <2>2
  <2>7. Derived[k] \in Promise!Entry
    BY <1>2, <2>4, <2>5, <2>6 DEF Promise!Entry
  <2> QED BY <2>1, <2>4, <2>7
<1>5. PICK c \in Nat : Len(committed) = c /\ DOMAIN committed = 1..c
  BY DEF SegmentInv, FilesTyped
<1>6. Derived \in Seq(Promise!Entry)
  <2>1. PICK d \in Seq(Shown) : d = Derived
    BY <1>1
  <2>2. Len(d) = c /\ \A k \in 1..c : d[k] \in Promise!Entry
    BY <1>1, <1>4, <1>5, <2>1, Zenon
  <2>3. d \in Seq(Promise!Entry)
    BY <2>2
  <2> QED BY <2>1, <2>3
<1>7. Promise!Rising(Derived)
  <2> SUFFICES ASSUME NEW i \in DOMAIN Derived, NEW k \in DOMAIN Derived, i < k
               PROVE  Derived[i].cursor < Derived[k].cursor
    BY DEF Promise!Rising
  <2>1. i \in DOMAIN committed /\ k \in DOMAIN committed
    BY <1>1
  <2>2. Ordinal(segs, Chain[i]) < Ordinal(segs, Chain[k])
    BY <1>4, <2>1 DEF SegmentInv, ChainSound
  <2> QED BY <1>4, <2>1, <2>2
<1> QED BY <1>1, <1>6, <1>7 DEF DerivedSound

\* No step changes a segment but the last, or takes one away.
OnlyTheLast == Len(segs) <= Len(segs') /\ \A j \in 1..(Len(segs) - 1) : segs'[j] = segs[j]

LEMMA LastUpdated ==
    ASSUME NEW g, segs \in Seq(Segment), NEW n, n \in Nat \ {0}, Long(segs, n), Changed(segs, n, g, segs')
    PROVE  OnlyTheLast
<1>1. Len(segs) = n /\ DOMAIN segs = 1..n
  BY DEF Long
<1>2. segs' = [j \in 1..n |-> IF j = n THEN g ELSE segs[j]]
  BY <1>1 DEF Changed
<1>3. DOMAIN segs' = 1..n /\ Len(segs') = n /\ \A j \in 1..(n - 1) : segs'[j] = segs[j]
  BY <1>2
<1> QED BY <1>1, <1>3 DEF OnlyTheLast

LEMMA OnlyGrown ==
    ASSUME segs \in Seq(Segment), segs' = Append(segs, EmptySegment)
    PROVE  OnlyTheLast
<1>1. Len(segs') = Len(segs) + 1 /\ \A j \in 1..Len(segs) : segs'[j] = segs[j]
  OBVIOUS
<1> QED BY <1>1 DEF OnlyTheLast

LEMMA OnlySame == ASSUME segs \in Seq(Segment), segs' = segs PROVE OnlyTheLast
  BY DEF OnlyTheLast

LEMMA OrderKept == ASSUME SegmentInv, FilesNext PROVE OnlyTheLast
<1>0. segs \in Seq(Segment) /\ Control
  BY DEF SegmentInv, FilesTyped
<1>1. ASSUME NEW n \in Sizes, NEW d \in Digests \union {None}, BeginCommit(n, d) PROVE OnlyTheLast
  BY <1>0, <1>1, OnlySame DEF BeginCommit, laneFiles
<1>2. CASE PutObject \/ Preserve
  BY <1>0, <1>2, OnlySame DEF PutObject, Preserve, laneFiles
<1>3. CASE WriterFor
  <2>1. CASE segs' = segs
    BY <1>0, <2>1, OnlySame
  <2>2. CASE segs' # segs
    <3>1. At("first") /\ segs' = <<EmptySegment>>
      BY <1>3, <2>2, Zenon DEF WriterFor
    <3>2. segs = <<>>
      BY <1>0, <3>1 DEF At, Control
    <3> QED BY <3>1, <3>2 DEF OnlyTheLast
  <2> QED BY <2>1, <2>2
<1>4. ASSUME writer.made
      PROVE  writer.seg \in Nat \ {0} /\ Long(segs, writer.seg)
  BY <1>4, WriterHas
<1>5. ASSUME NEW n, n \in Nat \ {0}, Long(segs, n), NEW x,
             segs' = [segs EXCEPT ![n].data = x] \/ segs' = [segs EXCEPT ![n].synced = x] \/ segs' = [segs EXCEPT ![n].seal = x]
      PROVE  OnlyTheLast
  <2>1. \E g : Changed(segs, n, g, segs')
    BY <1>5, Zenon DEF Changed
  <2> QED BY <1>0, <1>5, <2>1, LastUpdated
<1>6. CASE Append1
  <2>1. CASE segs' = segs
    BY <1>0, <2>1, OnlySame
  <2>2. CASE segs' # segs
    <3>1. At("append") /\ segs' = [segs EXCEPT ![writer.seg].data = @ \o Line(asked + 1)]
      BY <1>6, <2>2, Zenon DEF Append1
    <3>2. writer.made
      BY <1>0, <3>1 DEF At, Control, Appending
    <3> QED BY <1>4, <1>5, <3>1, <3>2
  <2> QED BY <2>1, <2>2
<1>7. CASE Rotate
  <2>1. CASE segs' = segs \/ segs' = Append(segs, EmptySegment)
    BY <1>0, <2>1, OnlySame, OnlyGrown
  <2>2. CASE segs' # segs /\ segs' # Append(segs, EmptySegment)
    <3>1. /\ At("seal") \/ At("manifest")
          /\ segs' = Synced(writer.seg) \/ segs' = [segs EXCEPT ![writer.seg].seal = Manifest]
      BY <1>7, <2>2 DEF Rotate
    <3>2. writer.made
      BY <1>0, <3>1 DEF At, Control, Appending
    <3> QED BY <1>4, <1>5, <3>1, <3>2 DEF Synced
  <2> QED BY <2>1, <2>2
<1>8. CASE FinishCommit
  <2>1. CASE segs' = segs
    BY <1>0, <2>1, OnlySame
  <2>2. CASE segs' # segs
    <3>1. At("fsync") /\ segs' = Synced(writer.seg)
      BY <1>8, <2>2 DEF FinishCommit
    <3>2. writer.made
      BY <1>0, <3>1 DEF At, Control
    <3> QED BY <1>4, <1>5, <3>1, <3>2 DEF Synced
  <2> QED BY <2>1, <2>2
<1>9. CASE Crash
  <2>1. CASE segs = <<>>
    BY <1>0, <1>9, <2>1, OnlySame DEF Crash
  <2>2. CASE segs # <<>>
    <3>1. PICK n \in Nat : Len(segs) = n
      BY <1>0
    <3>2. n \in Nat \ {0} /\ Long(segs, n) /\ DOMAIN segs = 1..n
      BY <1>0, <2>2, <3>1 DEF Long
    <3>3. PICK k : segs' = [segs EXCEPT ![n].data = SubSeq(@, 1, k), ![n].synced = k]
      BY <1>9, <2>2, <3>1, Zenon DEF Crash
    <3>4. DOMAIN segs' = 1..n /\ \A j \in 1..(n - 1) : segs'[j] = segs[j]
      BY <3>2, <3>3
    <3>5. Len(segs') = n
      BY <3>2, <3>3, <3>4
    <3> QED BY <3>1, <3>4, <3>5 DEF OnlyTheLast
  <2> QED BY <2>1, <2>2
<1>10. CASE CutTail
  <2>1. PICK n \in Nat : Len(segs) = n /\ DOMAIN segs = 1..n
    BY <1>0
  <2>2. \A j \in 1..(n - 1) : j \notin Active
    BY <2>1 DEF Active
  <2> DEFINE cut == [i \in 1..n |-> [segs[i] EXCEPT !.data = SubSeq(@, 1, ExtentEnd(i)), !.synced = ExtentEnd(i)]]
  <2>3. segs' = [i \in 1..n |-> IF i \in Active THEN cut[i] ELSE segs[i]]
    BY <1>10, <2>1 DEF CutTail
  <2> HIDE DEF cut
  <2>4. DOMAIN segs' = 1..n /\ \A j \in 1..(n - 1) : segs'[j] = segs[j]
    BY <2>2, <2>3
  <2>5. Len(segs') = n
    BY <2>3
  <2> QED BY <2>1, <2>4, <2>5 DEF OnlyTheLast
<1>11. CASE OpenWriter
  <2>1. segs' = segs \/ segs' = Append(segs, EmptySegment)
    BY <1>11 DEF OpenWriter
  <2> QED BY <1>0, <2>1, OnlySame, OnlyGrown
<1> QED BY <1>1, <1>2, <1>3, <1>6, <1>7, <1>8, <1>9, <1>10, <1>11 DEF FilesNext

LEMMA SameSequence ==
    ASSUME NEW S, NEW T, NEW d \in Seq(S), NEW e \in Seq(T), Len(d) = Len(e), \A k \in DOMAIN d : d[k] = e[k]
    PROVE  d = e
  OBVIOUS

LEMMA EntriesKept ==
    ASSUME SegmentInv, segs' \in Seq(Segment), OnlyTheLast, NEW k \in DOMAIN committed
    PROVE  Entry(segs', committed[k]) = Entry(segs, committed[k])
<1>1. committed[k] \in Range(committed) /\ segs \in Seq(Segment)
  BY DEF Range, SegmentInv, FilesTyped
<1>2. committed[k] \in Rec /\ committed[k].seg \in 1..Len(segs)
  <2>1. committed[k] \in Rec /\ Stands(segs, committed[k])
    BY <1>1, CommittedAre
  <2> QED BY <1>1, <2>1, Counts DEF Stands
<1>3. Ordinal(segs', committed[k]) = Ordinal(segs, committed[k])
  BY <1>1, <1>2, OrdinalKept DEF OnlyTheLast
<1> QED BY <1>3, Zenon DEF Entry

\* Where nothing is committed, the log stays.
LEMMA LogStays ==
    ASSUME SegmentInv, SegmentInv', DerivedSound, DerivedSound', OnlyTheLast, committed' = committed
    PROVE  Derived' = Derived
<1>1. segs' \in Seq(Segment)
  BY DEF SegmentInv, FilesTyped
<1>2. ASSUME NEW k \in DOMAIN committed PROVE Derived'[k] = Derived[k]
  <2>1. Derived'[k] = Entry(segs', committed[k]) /\ Derived[k] = Entry(segs, committed[k])
    BY Zenon DEF DerivedSound
  <2> QED BY <1>1, <2>1, EntriesKept
<1>3. /\ Derived \in Seq(Promise!Entry) /\ Len(Derived) = Len(committed)
      /\ Derived' \in Seq(Promise!Entry) /\ Len(Derived') = Len(committed) /\ DOMAIN Derived' = DOMAIN committed
  BY Zenon DEF DerivedSound, Promise!Entry
<1>4. Len(Derived') = Len(Derived) /\ \A k \in DOMAIN Derived' : Derived'[k] = Derived[k]
  BY <1>2, <1>3, Zenon
<1> QED BY <1>3, <1>4, SameSequence

\* The marker extends the log.
LEMMA MarkerExtends ==
    ASSUME SegmentInv, SegmentInv', DerivedSound, DerivedSound',
           At("marker"), committed' = committed \o laneCtx.recs, UNCHANGED <<segs, answered>>
    PROVE  Promise!Extend
<1>1. committed \in Seq(Rec) /\ laneCtx.recs \in Seq(Rec) /\ laneCtx.recs # <<>>
  BY DEF SegmentInv, FilesTyped, LaneCtx, Control, At
<1>2. PICK c \in Nat, m \in Nat : Joins(committed, c, laneCtx.recs, m, committed')
  BY <1>1, Joined
<1>3. /\ Len(committed) = c /\ DOMAIN committed = 1..c /\ Len(laneCtx.recs) = m
      /\ Len(committed') = c + m /\ DOMAIN committed' = 1..(c + m) /\ \A k \in 1..c : committed'[k] = committed[k]
  BY <1>2, Zenon DEF Joins
<1>4. m > 0
  BY <1>1, <1>3
<1>5. /\ Derived \in Seq(Promise!Entry) /\ Len(Derived) = c /\ DOMAIN Derived = 1..c
      /\ \A k \in 1..c : Derived[k] = Entry(segs, committed[k])
  BY <1>3, Zenon DEF DerivedSound
<1>6. /\ Derived' \in Seq(Promise!Entry) /\ Promise!Rising(Derived') /\ Len(Derived') = c + m /\ DOMAIN Derived' = 1..(c + m)
      /\ \A k \in 1..(c + m) : Derived'[k] = Entry(segs, committed'[k])
  BY <1>3, Zenon DEF DerivedSound, Promise!Entry, Promise!Rising
<1>7. PICK d \in Seq(Promise!Entry) : d = Derived
  BY <1>5
<1>8. PICK e \in Seq(Promise!Entry) : e = Derived'
  BY <1>6
<1>9. Len(d) = c /\ Len(e) = c + m /\ \A k \in 1..c : e[k] = d[k]
  <2>1. ASSUME NEW k \in 1..c PROVE k \in 1..(c + m)
    OBVIOUS
  <2>2. ASSUME NEW k \in 1..c PROVE Derived'[k] = Derived[k]
    BY <1>3, <1>5, <1>6, <2>1, Zenon
  <2> QED BY <1>5, <1>6, <1>7, <1>8, <2>2, Zenon
<1>10. SubSeq(e, 1, c) = d
  BY <1>9
<1>11. Len(e) > Len(d)
  BY <1>4, <1>9
<1>12. SubSeq(Derived', 1, Len(Derived)) = Derived /\ Len(Derived') > Len(Derived)
  BY <1>7, <1>8, <1>9, <1>10, <1>11, Zenon
<1> QED BY <1>6, <1>12, Zenon DEF Promise!Extend, Promise!Extends, Promise!Entry, Promise!Rising

\* The answer tells what is in it.
LEMMA AnswerTells ==
    ASSUME SegmentInv, DerivedSound, Derived' = Derived, At("answer"), answered' = answered \union Range(Answers)
    PROVE  [Promise!Extend \/ Promise!Tell]_<<Derived, answered>>
<1>1. laneMode = "up" /\ laneAt = "answer"
  BY DEF At
<1>2. /\ Len(committed) = Len(served) + Len(laneCtx.recs) /\ committed \in Seq(Rec) /\ served \in Seq(Shown)
      /\ laneCtx.recs \in Seq(Rec)
      /\ \A k \in DOMAIN laneCtx.recs : committed[Len(served) + k] = laneCtx.recs[k]
  BY <1>1 DEF SegmentInv, ServedSound, FilesTyped, LaneCtx
<1>3. \A k \in DOMAIN laneCtx.recs : Answers[k] = Entry(segs, laneCtx.recs[k])
  BY AnswersAre
<1>4. DOMAIN Answers = DOMAIN laneCtx.recs
  BY DEF Answers
<1>5. ASSUME NEW t \in Range(Answers) PROVE \E i \in DOMAIN Derived : Derived[i] = t
  <2>1. PICK k \in DOMAIN laneCtx.recs : t = Answers[k]
    BY <1>4 DEF Range
  <2>2. PICK m \in Nat : Len(laneCtx.recs) = m /\ DOMAIN laneCtx.recs = 1..m
    BY <1>2
  <2>3. PICK c \in Nat : Len(served) = c
    BY <1>2
  <2>4. c + k \in DOMAIN committed /\ committed[c + k] = laneCtx.recs[k]
    BY <1>2, <2>2, <2>3
  <2>5. Derived[c + k] = Entry(segs, laneCtx.recs[k]) /\ c + k \in DOMAIN Derived
    BY <2>4, Zenon DEF DerivedSound
  <2> QED BY <1>3, <2>1, <2>5, Zenon
<1>6. Promise!Holds(Derived, answered' \ answered)
  BY <1>5 DEF Promise!Holds
<1>7. CASE answered' = answered
  BY <1>7
<1>8. CASE answered' # answered
  <2>1. Promise!Tell
    BY <1>6, <1>8 DEF Promise!Tell
  <2> QED BY <2>1
<1> QED BY <1>7, <1>8

LEMMA PromiseBegins == FilesInit => Promise!Init
<1> SUFFICES ASSUME FilesInit PROVE Promise!Init
  OBVIOUS
<1>1. SegmentInv /\ committed = <<>> /\ answered = {}
  BY SegmentsBegin DEF FilesInit
<1>2. Derived \in Seq(Promise!Entry) /\ Len(Derived) = 0
  BY <1>1, DerivesALog DEF DerivedSound
<1>3. Derived = <<>>
  BY <1>2
<1> QED BY <1>1, <1>3 DEF Promise!Init

LEMMA PromiseStep ==
    SegmentInv /\ SegmentInv' /\ DerivedSound /\ DerivedSound' /\ [FilesNext]_filesVars
        => [Promise!Extend \/ Promise!Tell]_<<Derived, answered>>
<1> SUFFICES ASSUME SegmentInv, SegmentInv', DerivedSound, DerivedSound', [FilesNext]_filesVars
             PROVE  [Promise!Extend \/ Promise!Tell]_<<Derived, answered>>
  OBVIOUS
<1>1. OnlyTheLast
  <2>1. CASE FilesNext
    BY <2>1, OrderKept
  <2>2. CASE UNCHANGED filesVars
    BY <2>2, OnlySame DEF filesVars, laneFiles, SegmentInv, FilesTyped
  <2> QED BY <2>1, <2>2
<1>2. \/ committed' = committed /\ answered' = answered
      \/ At("marker") /\ committed' = committed \o laneCtx.recs /\ UNCHANGED <<segs, answered>>
      \/ At("answer") /\ committed' = committed /\ answered' = answered \union Range(Answers)
  <2>1. CASE UNCHANGED filesVars
    BY <2>1 DEF filesVars, laneFiles, marks
  <2>2. ASSUME NEW n \in Sizes, NEW d \in Digests \union {None}, BeginCommit(n, d) PROVE UNCHANGED <<committed, answered>>
    BY <2>2 DEF BeginCommit, laneFiles, marks
  <2>3. CASE PutObject \/ WriterFor \/ Append1 \/ Rotate \/ Crash \/ Preserve \/ CutTail \/ OpenWriter
    BY <2>3, Zenon DEF PutObject, WriterFor, Append1, Rotate, Crash, Preserve, CutTail, OpenWriter, laneFiles, marks
  <2>4. CASE FinishCommit
    BY <2>4, Zenon DEF FinishCommit, Answers, marks
  <2> QED BY <2>1, <2>2, <2>3, <2>4 DEF FilesNext
<1>3. CASE committed' = committed /\ answered' = answered
  BY <1>1, <1>3, LogStays
<1>4. CASE At("marker") /\ committed' = committed \o laneCtx.recs /\ UNCHANGED <<segs, answered>>
  BY <1>4, MarkerExtends
<1>5. CASE At("answer") /\ committed' = committed /\ answered' = answered \union Range(Answers)
  <2>1. Derived' = Derived
    BY <1>1, <1>5, LogStays
  <2> QED BY <1>5, <2>1, AnswerTells
<1> QED BY <1>2, <1>3, <1>4, <1>5

\* lanes.ts and recovery.ts: the lane is the log its readers are promised.
\* What recovery would derive from the files is only ever extended, by whole
\* commits, and a commit tells its caller the ordinals that are in it.
THEOREM LaneKeepsItsLog == FilesSpec => KeepsItsLog
  BY SegmentsAlways, DerivesALog, PromiseBegins, PromiseStep, PTL DEF FilesSpec, KeepsItsLog, Promise!Spec

-----------------------------------------------------------------------------
(* Objects: what a marker names was verified by the commit that wrote it;  *)
(* before it is synced only a power loss takes it away.                    *)

CtxFields == {"todo", "recs", "cursors", "obj"}

\* The steps of a commit after its object was verified.
PastVerify == {"writer", "meta", "first", "append", "seal", "manifest", "next", "fsync", "marker", "answer"}

ObjectInv ==
    /\ objs = [d \in Digests |-> objs[d]]
    /\ laneCtx = [f \in CtxFields |-> laneCtx[f]]
    /\ laneCtx.obj \in Digests \union {None}
    /\ named \subseteq Digests
    /\ \A d \in named : Intact(d) \/ d \in unsynced
    /\ laneAt = "bytes" /\ laneCtx.obj \in named => laneCtx.obj \in unsynced
    /\ laneAt \in PastVerify /\ laneCtx.obj # None => Intact(laneCtx.obj)

LEMMA ObjectsBegin == FilesInit => ObjectInv
  BY DEF FilesInit, ObjectsInit, ObjectInv, NoPut, CtxFields, PastVerify

\* A commit that goes on in the part that follows its object, or gives up.
LEMMA ObjectsStay ==
    ASSUME ObjectInv, UNCHANGED <<objs, unsynced>>, named' = named,
           laneCtx' = [f \in CtxFields |-> laneCtx'[f]], laneAt' # "bytes",
           \/ laneCtx'.obj = laneCtx.obj /\ (laneAt' \in PastVerify => laneAt \in PastVerify)
           \/ laneCtx' = NoPut
    PROVE  ObjectInv'
<1>1. laneCtx'.obj \in Digests \union {None} /\ (laneAt' \in PastVerify /\ laneCtx'.obj # None => Intact(laneCtx'.obj))
  BY DEF ObjectInv, NoPut
<1> QED BY <1>1 DEF ObjectInv, Intact

\* Goto and GivesUp.
LEMMA Going ==
    ASSUME ObjectInv, NEW step, NEW ok \in BOOLEAN, GotoOrFail(ok, step)
    PROVE  /\ laneCtx' = [f \in CtxFields |-> laneCtx'[f]]
           /\ \/ laneCtx' = laneCtx /\ laneAt' = step
              \/ laneCtx' = NoPut /\ laneAt' = "idle"
<1>1. CASE ok
  BY <1>1 DEF GotoOrFail, Goto, ObjectInv
<1>2. CASE ~ok
  BY <1>2 DEF GotoOrFail, GivesUp, NoPut, CtxFields
<1> QED BY <1>1, <1>2

LEMMA BeginObject == ASSUME ObjectInv, NEW n, NEW d \in Digests \union {None}, BeginCommit(n, d) PROVE ObjectInv'
<1>1. UNCHANGED <<objs, unsynced, named>>
  BY DEF BeginCommit, objVars, laneFiles, marks
<1>2. laneCtx' = [todo |-> n, recs |-> <<>>, cursors |-> <<>>, obj |-> d]
  BY DEF BeginCommit, NoPut
<1>3. laneCtx' = [f \in CtxFields |-> laneCtx'[f]] /\ laneCtx'.obj = d
  BY <1>2 DEF CtxFields
<1>4. laneAt' # "bytes" /\ (laneAt' \in PastVerify => d = None)
  BY DEF BeginCommit, PastVerify
<1> QED BY <1>1, <1>3, <1>4 DEF ObjectInv, Intact

\* The file of the digest of this put changes, and no other.
LEMMA SetKeeps ==
    ASSUME ObjectInv, NEW f, SetObject(laneCtx.obj, f), named' = named,
           laneCtx' = [g \in CtxFields |-> laneCtx'[g]],
           laneAt' \notin PastVerify, laneCtx' = laneCtx \/ laneCtx' = NoPut,
           laneAt' = "bytes" => laneCtx' = laneCtx,
           \/ f \in {"cached", "whole"} /\ laneAt' # "bytes"
           \/ laneCtx.obj \in named => laneCtx.obj \in unsynced
           \/ f = objs[laneCtx.obj] /\ laneAt' # "bytes"
    PROVE  ObjectInv'
<1>1. /\ objs' = [d \in Digests |-> objs'[d]] /\ UNCHANGED unsynced
      /\ \A d \in Digests : objs'[d] = IF d = laneCtx.obj THEN f ELSE objs[d]
  BY DEF SetObject, ObjectInv
<1>2. laneCtx'.obj \in Digests \union {None}
  BY DEF NoPut, ObjectInv
<1>3. \A d \in named : Intact(d)' \/ d \in unsynced
  BY <1>1 DEF ObjectInv, Intact
<1> QED BY <1>1, <1>2, <1>3 DEF ObjectInv

LEMMA PutObjectKeeps == ASSUME ObjectInv, PutObject PROVE ObjectInv'
<1>1. named' = named
  BY DEF PutObject, laneFiles, marks
<1>2. CASE UNCHANGED objVars /\ Goto("verify")
  BY <1>1, <1>2, ObjectsStay DEF Goto, PastVerify, ObjectInv, objVars
<1>3. CASE CreateObject(laneCtx.obj) /\ Goto("bytes")
  <2>1. SetObject(laneCtx.obj, "short") /\ (laneCtx.obj \in named => laneCtx.obj \in unsynced)
    BY <1>3 DEF CreateObject, ObjectInv, Intact
  <2>2. laneCtx' = laneCtx /\ laneAt' = "bytes" /\ laneCtx' = [f \in CtxFields |-> laneCtx'[f]]
    BY <1>3 DEF Goto, ObjectInv
  <2> QED BY <1>1, <2>1, <2>2, SetKeeps DEF PastVerify
<1>4. ASSUME NEW ok \in BOOLEAN, At("bytes"), WriteObject(laneCtx.obj, ok), GotoOrFail(ok, "sync")
      PROVE  ObjectInv'
  <2>1. laneCtx.obj \in named => laneCtx.obj \in unsynced
    BY <1>4 DEF At, ObjectInv
  <2>2. PICK f : SetObject(laneCtx.obj, f)
    BY <1>4 DEF WriteObject
  <2>3. /\ laneCtx' = [g \in CtxFields |-> laneCtx'[g]] /\ laneAt' \in {"sync", "idle"}
        /\ laneCtx' = laneCtx \/ laneCtx' = NoPut
    BY <1>4, Going
  <2> QED BY <1>1, <2>1, <2>2, <2>3, SetKeeps DEF PastVerify
<1>5. ASSUME NEW ok \in BOOLEAN, SyncObject(laneCtx.obj, ok), GotoOrFail(ok, "verify")
      PROVE  ObjectInv'
  <2>1. PICK f : SetObject(laneCtx.obj, f) /\ (f = "whole" \/ f = objs[laneCtx.obj])
    BY <1>5 DEF SyncObject
  <2>2. /\ laneCtx' = [g \in CtxFields |-> laneCtx'[g]] /\ laneAt' \in {"verify", "idle"}
        /\ laneCtx' = laneCtx \/ laneCtx' = NoPut
    BY <1>5, Going
  <2> QED BY <1>1, <2>1, <2>2, SetKeeps DEF PastVerify
<1>6. CASE At("verify") /\ (IF Verifies(laneCtx.obj) THEN NoteVerified(laneCtx.obj) /\ Goto("writer")
                            ELSE UNCHANGED objVars /\ GivesUp)
  <2>1. CASE Verifies(laneCtx.obj)
    <3>1. UNCHANGED <<objs, unsynced, laneCtx>> /\ laneAt' = "writer" /\ Intact(laneCtx.obj)
      BY <1>6, <2>1 DEF Verifies, NoteVerified, Goto
    <3> QED BY <1>1, <3>1 DEF ObjectInv, Intact
  <2>2. CASE ~Verifies(laneCtx.obj)
    BY <1>1, <1>6, <2>2, ObjectsStay DEF objVars, GivesUp, NoPut, CtxFields
  <2> QED BY <2>1, <2>2
<1> QED BY <1>2, <1>3, <1>4, <1>5, <1>6 DEF PutObject

LEMMA LaterKeeps ==
    ASSUME ObjectInv, WriterFor \/ Append1 \/ Rotate PROVE ObjectInv'
<1>1. UNCHANGED <<objs, unsynced, named>>
  BY DEF WriterFor, Append1, Rotate, objVars, marks
<1>2. laneAt \in PastVerify
  BY DEF WriterFor, Append1, Rotate, At, PastVerify
<1>3. CASE \E ok \in BOOLEAN, step \in PastVerify : GotoOrFail(ok, step)
  <2>1. PICK ok \in BOOLEAN, step \in PastVerify : GotoOrFail(ok, step)
    BY <1>3
  <2>2. /\ laneCtx' = [f \in CtxFields |-> laneCtx'[f]] /\ laneAt' # "bytes"
        /\ laneCtx' = laneCtx \/ laneCtx' = NoPut
    BY <2>1, Going DEF PastVerify
  <2> QED BY <1>1, <1>2, <2>2, ObjectsStay
<1>4. CASE GivesUp \/ \E step \in PastVerify : Goto(step)
  <2>1. /\ laneCtx' = [f \in CtxFields |-> laneCtx'[f]] /\ laneAt' # "bytes"
        /\ laneCtx' = laneCtx \/ laneCtx' = NoPut
    BY <1>4 DEF GivesUp, Goto, NoPut, CtxFields, ObjectInv, PastVerify
  <2> QED BY <1>1, <1>2, <2>1, ObjectsStay
<1>5. CASE /\ laneCtx' = [laneCtx EXCEPT !.todo = @ - 1,
                            !.recs = Append(@, [seg |-> writer.seg, off |-> writer.off, id |-> asked + 1]),
                            !.cursors = Append(@, writer.next)]
           /\ laneAt' \in PastVerify
  <2>1. laneCtx' = [f \in CtxFields |-> laneCtx'[f]] /\ laneCtx'.obj = laneCtx.obj
    BY <1>5 DEF ObjectInv, CtxFields
  <2> QED BY <1>1, <1>2, <1>5, <2>1, ObjectsStay DEF PastVerify
<1>6. CASE WriterFor
  BY <1>3, <1>4, <1>6 DEF WriterFor, PastVerify
<1>7. CASE Append1
  BY <1>3, <1>4, <1>5, <1>7 DEF Append1, PastVerify
<1>8. CASE Rotate
  BY <1>3, <1>8 DEF Rotate, PastVerify
<1> QED BY <1>6, <1>7, <1>8

LEMMA FinishKeeps == ASSUME ObjectInv, FinishCommit PROVE ObjectInv'
<1>1. UNCHANGED <<objs, unsynced>> /\ laneAt \in PastVerify
  BY DEF FinishCommit, objVars, At, PastVerify
<1>2. CASE At("marker") /\ \E ok \in BOOLEAN : GotoOrFail(ok, "answer")
             /\ named' = IF ok THEN named \union ({laneCtx.obj} \ {None}) ELSE named
  <2>1. PICK ok \in BOOLEAN : GotoOrFail(ok, "answer")
             /\ named' = IF ok THEN named \union ({laneCtx.obj} \ {None}) ELSE named
    BY <1>2
  <2>2. named' \subseteq Digests /\ \A d \in named' : Intact(d) \/ d \in unsynced
    BY <1>1, <2>1 DEF ObjectInv
  <2>3. /\ laneCtx' = [f \in CtxFields |-> laneCtx'[f]] /\ laneAt' # "bytes"
        /\ laneCtx' = laneCtx \/ laneCtx' = NoPut
    BY <2>1, Going
  <2> QED BY <1>1, <2>2, <2>3 DEF ObjectInv, NoPut, Intact
<1>3. CASE named' = named /\ \E ok \in BOOLEAN : GotoOrFail(ok, "marker")
  BY <1>1, <1>3, Going, ObjectsStay
<1>4. CASE named' = named /\ GivesUp
  BY <1>1, <1>4, ObjectsStay DEF GivesUp, NoPut, CtxFields
<1> QED BY <1>2, <1>3, <1>4 DEF FinishCommit, marks

\* The death of the process takes no file away; a power loss takes what is
\* not synced, and this is noted.
LEMMA CrashKeepsObjects == ASSUME ObjectInv, Crash PROVE ObjectInv'
<1>1. PICK power \in BOOLEAN : ObjectsLost(power)
  BY DEF Crash
<1>2. /\ objs' = [d \in Digests |-> objs'[d]]
      /\ \A d \in Digests : objs'[d] \in Leaves(objs[d], power)
  BY <1>1 DEF ObjectsLost
<1>3. /\ unsynced \subseteq unsynced'
      /\ power => \A d \in Digests : objs[d] = "cached" => d \in unsynced'
  BY <1>1 DEF ObjectsLost
<1>4. ASSUME NEW d \in Digests, Intact(d) PROVE Intact(d)' \/ d \in unsynced'
  <2>1. CASE objs[d] = "whole"
    BY <1>2, <2>1 DEF Leaves, Intact
  <2>2. CASE objs[d] = "cached" /\ power
    BY <1>3, <2>2
  <2>3. CASE objs[d] = "cached" /\ ~power
    BY <1>2, <2>3 DEF Leaves, Intact
  <2> QED BY <1>4, <2>1, <2>2, <2>3 DEF Intact
<1>5. laneCtx' = NoPut /\ laneAt' = "idle" /\ named' = named
  BY DEF Crash, marks
<1>6. \A d \in named : Intact(d)' \/ d \in unsynced'
  BY <1>3, <1>4 DEF ObjectInv
<1> QED BY <1>2, <1>5, <1>6 DEF ObjectInv, NoPut, CtxFields, PastVerify

LEMMA ObjectsKept == ASSUME ObjectInv, [FilesNext]_filesVars PROVE ObjectInv'
<1>1. CASE Preserve \/ CutTail \/ OpenWriter \/ UNCHANGED filesVars
  <2>1. UNCHANGED <<objs, unsynced, named, laneAt, laneCtx>>
    BY <1>1 DEF Preserve, CutTail, OpenWriter, filesVars, objVars, laneFiles, marks, commitVars
  <2> QED BY <2>1 DEF ObjectInv, Intact
<1> QED
  BY <1>1, BeginObject, PutObjectKeeps, LaterKeeps, FinishKeeps, CrashKeepsObjects DEF FilesNext

\* objects.ts and store.ts: an object a marker names is there and whole, unless
\* a power loss found it in the page cache only: whatever writes and syncs
\* fail, and at whatever point processes die and come back.
THEOREM ObjectsStayWhole == FilesSpec => []ObjectsWhole
<1>1. ObjectInv => ObjectsWhole
  BY DEF ObjectInv, ObjectsWhole, Readable, Intact
<1> QED BY <1>1, ObjectsBegin, ObjectsKept, PTL DEF FilesSpec

=============================================================================
