----------------------------- MODULE PeersProofs -----------------------------
(***************************************************************************)
(* Three facts about the peers, for any keys, claims, scopes, policy and   *)
(* times, any number of pairs and rows, and whatever commits fail or are   *)
(* cut off by a restart: a family of refresh tokens has one usable grant   *)
(* at most and none after a reuse, a peer that was revoked is let in no    *)
(* more, and what an invitation enrols is what the operator approved.      *)
(*                                                                         *)
(* They need an invariant of the writes a handler has still to make, since *)
(* a handler decides once and commits one by one: what is decided must     *)
(* stay right until the last commit, and what was committed must be right  *)
(* if the next never comes.  The algebra of the scopes bounds what a peer  *)
(* is granted when it is enrolled.                                         *)
(***************************************************************************)
EXTENDS Peers, FiniteSetTheorems, TLAPS

-----------------------------------------------------------------------------
(* The inductive invariant. *)

IsSeq(q) == q \in Seq({q[i] : i \in DOMAIN q})

GrantFields == {"family", "peer", "state"}

\* A peer's document names its row.
OwnId(doc, id) == "id" \in DOMAIN doc /\ doc.id = id

\* The documents are a table of tables; the grants are numbered in the order
\* they were issued, and name a family and a peer that exist.
Tables ==
    /\ DOMAIN db = Kinds
    /\ db = [k \in Kinds |-> db[k]]
    /\ IsFiniteSet(Rows("grant")) /\ Rows("grant") = 1..Cardinality(Rows("grant"))
    /\ \A g \in Rows("grant") : /\ GrantFields \subseteq DOMAIN Doc("grant", g)
                                /\ Doc("grant", g).family \in Rows("grant")
                                /\ Doc("grant", g).peer \in Rows("peer")
                                /\ Doc("grant", g).state \in {"ACTIVE", "CONSUMED", "REVOKED"}
    /\ \A p \in Rows("peer") : OwnId(Doc("peer", p), p)

\* No two usable grants of a family, and none of a family that was reused.
Contained ==
    /\ \A g, h \in Rows("grant") :
          /\ Doc("grant", g).family = Doc("grant", h).family
          /\ Doc("grant", g).state = "ACTIVE" /\ Doc("grant", h).state = "ACTIVE"
          => g = h
    /\ \A g \in Rows("grant") :
          Doc("grant", g).family \in reused => Doc("grant", g).state = "REVOKED"
    /\ reused \subseteq Rows("grant")

\* Before its i-th item q writes the document of that kind and id.
WrittenBefore(q, i, kind, id) == \E j \in 1..(i - 1) : q[j].kind = kind /\ q[j].id = id

\* The i-th item of q spends or revokes a grant; after a revocation it does
\* not make a grant less revoked.
SpendsGrant(q, i) ==
    LET w == q[i] IN
    /\ w.id \in Rows("grant") /\ GrantFields \subseteq DOMAIN w.doc
    /\ w.doc.family = Doc("grant", w.id).family
    /\ w.doc.peer = Doc("grant", w.id).peer
    /\ w.doc.state \in {"CONSUMED", "REVOKED"}
    /\ Doc("grant", w.id).state = "REVOKED" => w.doc.state = "REVOKED"
    /\ \A j \in 1..(i - 1) :
          q[j].kind = "grant" /\ q[j].doc.state = "REVOKED" => w.doc.state = "REVOKED"

\* The i-th item of q issues a grant: its family has no usable one when it is
\* written, was not reused, and its peer is there and not revoked.
IssuesGrant(q, i) ==
    LET w == q[i] IN
    /\ w.id = NextId("grant") /\ w.id \notin Rows("grant") /\ GrantFields \subseteq DOMAIN w.doc
    /\ w.doc.state = "ACTIVE"
    /\ w.doc.family \in Rows("grant") \union {w.id}
    /\ w.doc.family \notin reused
    /\ \A h \in Family(w.doc.family) :
          Doc("grant", h).state = "ACTIVE" => WrittenBefore(q, i, "grant", h)
    /\ \/ w.doc.peer \in Rows("peer") /\ Doc("peer", w.doc.peer).state # "REVOKED"
       \/ WrittenBefore(q, i, "peer", w.doc.peer)
    /\ \A j \in 1..(i - 1) : q[j].kind = "peer" => q[j].doc.state # "REVOKED"
    /\ \A j \in (i + 1)..Len(q) : q[j].kind # "grant"

\* When the i-th item of q answers a reuse the family is revoked.
AnswersReuse(q, i) ==
    /\ q[i].doc \in Rows("grant")
    /\ \A h \in Family(q[i].doc) :
          Doc("grant", h).state # "REVOKED" => WrittenBefore(q, i, "grant", h)
    /\ \A j \in 1..Len(q) : q[j].kind = "grant" => q[j].doc.state = "REVOKED"

\* When the i-th item of q lets a request in its peer is not revoked.
AnswersAccept(q, i) ==
    /\ q[i].doc.grant \in Rows("grant")
    /\ Doc("peer", Doc("grant", q[i].doc.grant).peer).state # "REVOKED"
    /\ \A j \in 1..Len(q) : q[j].kind \notin {"grant", "peer"}

\* What a handler may have still to do.
Pending(q) ==
    \A i \in 1..Len(q) :
        /\ q[i].kind \in Kinds \union {"answer"}
        /\ q[i].kind = "peer" => OwnId(q[i].doc, q[i].id)
        /\ q[i].kind = "grant" => SpendsGrant(q, i) \/ IssuesGrant(q, i)
        /\ q[i].kind = "answer" /\ q[i].id = "reuse" => AnswersReuse(q, i)
        /\ q[i].kind = "answer" /\ q[i].id = "accept" => AnswersAccept(q, i)

TokensInv == Tables /\ Contained /\ IsSeq(todo) /\ Pending(todo)

-----------------------------------------------------------------------------
(* Lemmas about the tables and about sequences of writes. *)

\* A commit writes one document.
LEMMA CommittedDocs ==
    ASSUME DOMAIN db = Kinds, db = [k \in Kinds |-> db[k]],
           NEW w, w.kind \in Kinds, db' = Committed(w)
    PROVE  /\ DOMAIN db' = Kinds
           /\ db' = [k \in Kinds |-> db'[k]]
           /\ Rows(w.kind)' = Rows(w.kind) \union {w.id}
           /\ Doc(w.kind, w.id)' = w.doc
           /\ \A id \in Rows(w.kind) : id # w.id => Doc(w.kind, id)' = Doc(w.kind, id)
           /\ \A k \in Kinds \ {w.kind} : Rows(k)' = Rows(k) /\ \A id : Doc(k, id)' = Doc(k, id)
<1>1. db' = [db EXCEPT ![w.kind] = With(db[w.kind], w.id, w.doc)]
  BY DEF Committed
<1>2. /\ DOMAIN db' = Kinds /\ db' = [k \in Kinds |-> db'[k]]
      /\ db'[w.kind] = With(db[w.kind], w.id, w.doc)
      /\ \A k \in Kinds \ {w.kind} : db'[k] = db[k]
  BY <1>1
<1>3. /\ DOMAIN db'[w.kind] = DOMAIN db[w.kind] \union {w.id}
      /\ db'[w.kind][w.id] = w.doc
      /\ \A y \in DOMAIN db[w.kind] : y # w.id => db'[w.kind][y] = db[w.kind][y]
  <2> DEFINE t == db[w.kind]
  <2>1. /\ DOMAIN With(t, w.id, w.doc) = DOMAIN t \union {w.id}
        /\ With(t, w.id, w.doc)[w.id] = w.doc
        /\ \A y \in DOMAIN t : y # w.id => With(t, w.id, w.doc)[y] = t[y]
    BY DEF With
  <2>2. db'[w.kind] = With(t, w.id, w.doc)
    BY <1>2
  <2> HIDE DEF t
  <2>3. /\ DOMAIN db'[w.kind] = DOMAIN t \union {w.id}
        /\ db'[w.kind][w.id] = w.doc
        /\ \A y \in DOMAIN t : y # w.id => db'[w.kind][y] = t[y]
    BY <2>1, <2>2
  <2> QED
    BY <2>3 DEF t
<1>4. \A k \in Kinds \ {w.kind} : Rows(k)' = Rows(k) /\ \A id : Doc(k, id)' = Doc(k, id)
  BY <1>2 DEF Rows, Doc
<1>5. /\ Rows(w.kind)' = Rows(w.kind) \union {w.id}
      /\ Doc(w.kind, w.id)' = w.doc
      /\ \A id \in Rows(w.kind) : id # w.id => Doc(w.kind, id)' = Doc(w.kind, id)
  BY <1>3 DEF Rows, Doc
<1> QED
  BY <1>2, <1>4, <1>5

\* The next grant is a new one.
LEMMA FreshGrant ==
    ASSUME Tables
    PROVE  /\ Cardinality(Rows("grant")) \in Nat
           /\ NextId("grant") = Cardinality(Rows("grant")) + 1
           /\ NextId("grant") \notin Rows("grant")
<1>1. Cardinality(Rows("grant")) \in Nat
  BY FS_CardinalityType DEF Tables
<1> QED
  BY <1>1 DEF Tables, NextId

LEMMA SeqIsSeq == ASSUME NEW S, NEW q \in Seq(S) PROVE IsSeq(q)
<1>1. DOMAIN q = 1..Len(q) /\ q = [i \in 1..Len(q) |-> q[i]] /\ Len(q) \in Nat
  OBVIOUS
<1>2. q \in Seq({q[i] : i \in DOMAIN q})
  BY <1>1
<1> QED
  BY <1>2 DEF IsSeq

LEMMA TailItems ==
    ASSUME NEW q, IsSeq(q), q # <<>>
    PROVE  /\ Len(q) \in Nat /\ Len(q) >= 1
           /\ IsSeq(Tail(q))
           /\ Len(Tail(q)) = Len(q) - 1
           /\ \A j \in 1..Len(Tail(q)) : Tail(q)[j] = q[j + 1]
           /\ Head(q) = q[1]
<1> DEFINE S == {q[i] : i \in DOMAIN q}
<1>1. q \in Seq(S)
  BY DEF IsSeq
<1> HIDE DEF S
<1>2. /\ Len(q) \in Nat /\ Len(q) >= 1 /\ Tail(q) \in Seq(S)
      /\ Len(Tail(q)) = Len(q) - 1
      /\ \A j \in 1..Len(Tail(q)) : Tail(q)[j] = q[j + 1]
      /\ Head(q) = q[1]
  BY <1>1
<1>3. IsSeq(Tail(q))
  BY <1>2, SeqIsSeq
<1> QED
  BY <1>2, <1>3

\* The items behind the first, by their new places.
LEMMA TailPlaces ==
    ASSUME NEW q, IsSeq(q), q # <<>>, NEW i \in 1..Len(Tail(q))
    PROVE  /\ i + 1 \in 1..Len(q) /\ Tail(q)[i] = q[i + 1] /\ 1 \in 1..((i + 1) - 1)
           /\ \A j \in 1..(i - 1) : j + 1 \in 1..((i + 1) - 1) /\ Tail(q)[j] = q[j + 1]
           /\ \A j \in (i + 1)..Len(Tail(q)) :
                 j + 1 \in ((i + 1) + 1)..Len(q) /\ Tail(q)[j] = q[j + 1]
           /\ \A j \in 1..Len(Tail(q)) : j + 1 \in 1..Len(q) /\ Tail(q)[j] = q[j + 1]
  BY TailItems

\* What is written before an item still is, but for the first write.
LEMMA StillBefore ==
    ASSUME NEW q, IsSeq(q), q # <<>>, NEW i \in 1..Len(Tail(q)), NEW kind, NEW id,
           WrittenBefore(q, i + 1, kind, id), q[1].kind # kind \/ q[1].id # id
    PROVE  WrittenBefore(Tail(q), i, kind, id)
<1>1. PICK j \in 1..((i + 1) - 1) : q[j].kind = kind /\ q[j].id = id
  BY DEF WrittenBefore
<1>2. j - 1 \in 1..(i - 1) /\ j - 1 \in 1..Len(Tail(q)) /\ Tail(q)[j - 1] = q[j]
  BY <1>1, TailItems
<1> QED
  BY <1>1, <1>2 DEF WrittenBefore

-----------------------------------------------------------------------------
(* The first item of q is committed and the rest of q is left. *)

\* What the items that are left promise, when the commit was no grant.
LEMMA OtherCommit ==
    ASSUME Tables, Contained, NEW q, IsSeq(q), q # <<>>, Pending(q),
           q[1].kind \in Kinds \ {"grant"},
           db' = Committed(q[1]), todo' = Tail(q), reused' = reused
    PROVE  TokensInv'
<1> DEFINE w == q[1]
           n == Len(Tail(q))
<1>1. /\ Len(q) \in Nat /\ Len(q) >= 1 /\ IsSeq(Tail(q)) /\ n = Len(q) - 1
      /\ \A j \in 1..n : Tail(q)[j] = q[j + 1]
  BY TailItems
<1>2. /\ DOMAIN db' = Kinds /\ db' = [k \in Kinds |-> db'[k]]
      /\ Rows("grant")' = Rows("grant")
      /\ \A g : Doc("grant", g)' = Doc("grant", g)
      /\ Rows("peer") \subseteq Rows("peer")'
      /\ w.kind # "peer" => Rows("peer")' = Rows("peer") /\ \A p : Doc("peer", p)' = Doc("peer", p)
      /\ w.kind = "peer" => /\ Rows("peer")' = Rows("peer") \union {w.id}
                            /\ Doc("peer", w.id)' = w.doc
                            /\ \A p \in Rows("peer") : p # w.id => Doc("peer", p)' = Doc("peer", p)
  <2>1. /\ DOMAIN db' = Kinds /\ db' = [k \in Kinds |-> db'[k]]
        /\ Rows(w.kind)' = Rows(w.kind) \union {w.id}
        /\ Doc(w.kind, w.id)' = w.doc
        /\ \A id \in Rows(w.kind) : id # w.id => Doc(w.kind, id)' = Doc(w.kind, id)
        /\ \A k \in Kinds \ {w.kind} : Rows(k)' = Rows(k) /\ \A id : Doc(k, id)' = Doc(k, id)
    BY CommittedDocs DEF Tables
  <2>2. "grant" \in Kinds \ {w.kind} /\ "peer" \in Kinds
    BY DEF Kinds
  <2>3. CASE w.kind = "peer"
    BY <2>1, <2>2, <2>3
  <2>4. CASE w.kind # "peer"
    BY <2>1, <2>2, <2>4
  <2> QED
    BY <2>3, <2>4
<1>3. Tables' /\ Contained'
  <2>1. w.kind = "peer" => OwnId(w.doc, w.id)
    <3>1. 1 \in 1..Len(q)
      BY <1>1
    <3> QED
      BY <3>1 DEF Pending
  <2>2. \A p \in Rows("peer")' : OwnId(Doc("peer", p)', p)
    <3>1. CASE w.kind = "peer"
      BY <1>2, <2>1, <3>1 DEF Tables
    <3>2. CASE w.kind # "peer"
      BY <1>2, <3>2 DEF Tables
    <3> QED
      BY <3>1, <3>2
  <2>3. Tables'
    BY <1>2, <2>2 DEF Tables
  <2>4. Contained'
    BY <1>2 DEF Contained
  <2> QED
    BY <2>3, <2>4
<1>4. \A f : Family(f)' = Family(f)
  BY <1>2 DEF Family
<1>5. ASSUME NEW i \in 1..n, NEW kind, NEW id, kind = "grant" \/ (kind = "peer" /\ w.kind # "peer"),
             WrittenBefore(q, i + 1, kind, id)
      PROVE  WrittenBefore(Tail(q), i, kind, id)
  BY <1>5, StillBefore
<1>0. ASSUME NEW i \in 1..n
      PROVE  /\ i + 1 \in 1..Len(q) /\ Tail(q)[i] = q[i + 1]
             /\ \A j \in 1..(i - 1) : j + 1 \in 1..((i + 1) - 1) /\ Tail(q)[j] = q[j + 1]
             /\ \A j \in (i + 1)..n : j + 1 \in ((i + 1) + 1)..Len(q) /\ Tail(q)[j] = q[j + 1]
             /\ \A j \in 1..n : j + 1 \in 1..Len(q) /\ Tail(q)[j] = q[j + 1]
  BY TailPlaces
<1>6. ASSUME NEW i \in 1..n, SpendsGrant(q, i + 1)
      PROVE  SpendsGrant(Tail(q), i)'
  BY <1>2, <1>6, <1>0 DEF SpendsGrant
<1>7. ASSUME NEW i \in 1..n, IssuesGrant(q, i + 1)
      PROVE  IssuesGrant(Tail(q), i)'
  <2> DEFINE v == q[i + 1]
  <2>1. /\ v.id \notin Rows("grant") /\ v.doc.state = "ACTIVE"
        /\ v.id = NextId("grant")
        /\ v.doc.family \in Rows("grant") \union {v.id}
        /\ v.doc.family \notin reused
        /\ GrantFields \subseteq DOMAIN v.doc
    BY <1>7 DEF IssuesGrant
  <2>2. ASSUME NEW h \in Family(v.doc.family), Doc("grant", h).state = "ACTIVE"
        PROVE  WrittenBefore(Tail(q), i, "grant", h)
    BY <1>5, <1>7, <2>2 DEF IssuesGrant
  <2>3. \/ v.doc.peer \in Rows("peer")' /\ Doc("peer", v.doc.peer)'.state # "REVOKED"
        \/ WrittenBefore(Tail(q), i, "peer", v.doc.peer)
    <3>1. ASSUME w.kind = "peer" PROVE w.doc.state # "REVOKED"
      <4>1. 1 \in 1..((i + 1) - 1)
        OBVIOUS
      <4> QED
        BY <1>7, <3>1, <4>1 DEF IssuesGrant
    <3>2. CASE v.doc.peer \in Rows("peer") /\ Doc("peer", v.doc.peer).state # "REVOKED"
      BY <1>2, <3>1, <3>2
    <3>3. CASE WrittenBefore(q, i + 1, "peer", v.doc.peer)
      <4>1. PICK j \in 1..i : q[j].kind = "peer" /\ q[j].id = v.doc.peer
        BY <3>3 DEF WrittenBefore
      <4>2. CASE j = 1
        BY <1>2, <3>1, <4>1, <4>2
      <4>3. CASE j # 1
        <5>1. j - 1 \in 1..(i - 1) /\ j - 1 \in 1..n /\ Tail(q)[j - 1] = q[j]
          BY <1>1, <4>3
        <5> QED
          BY <4>1, <5>1 DEF WrittenBefore
      <4> QED
        BY <4>2, <4>3
    <3> QED
      BY <1>7, <3>2, <3>3 DEF IssuesGrant
  <2>4. /\ \A j \in 1..(i - 1) : Tail(q)[j].kind = "peer" => Tail(q)[j].doc.state # "REVOKED"
        /\ \A j \in (i + 1)..n : Tail(q)[j].kind # "grant"
    BY <1>7, <1>0 DEF IssuesGrant
  <2>5. Tail(q)[i] = v
    BY <1>0
  <2>6. NextId("grant")' = NextId("grant")
    BY <1>2 DEF NextId
  <2>7. \A kind, id : WrittenBefore(Tail(q), i, kind, id)' <=> WrittenBefore(Tail(q), i, kind, id)
    BY DEF WrittenBefore
  <2>8. /\ v.id = NextId("grant")' /\ v.id \notin Rows("grant")'
        /\ v.doc.family \in Rows("grant")' \union {v.id}
        /\ v.doc.family \notin reused'
        /\ \A h \in Family(v.doc.family)' :
              Doc("grant", h)'.state = "ACTIVE" => WrittenBefore(Tail(q), i, "grant", h)'
    BY <1>2, <1>4, <2>1, <2>2, <2>6, <2>7
  <2>9. \/ v.doc.peer \in Rows("peer")' /\ Doc("peer", v.doc.peer)'.state # "REVOKED"
        \/ WrittenBefore(Tail(q), i, "peer", v.doc.peer)'
    BY <2>3, <2>7
  <2> HIDE DEF v
  <2> QED
    BY <2>1, <2>4, <2>5, <2>8, <2>9 DEF IssuesGrant
<1>8. ASSUME NEW i \in 1..n, AnswersReuse(q, i + 1)
      PROVE  AnswersReuse(Tail(q), i)'
  <2>1. ASSUME NEW h \in Family(q[i + 1].doc), Doc("grant", h).state # "REVOKED"
        PROVE  WrittenBefore(Tail(q), i, "grant", h)
    BY <1>5, <1>8, <2>1 DEF AnswersReuse
  <2>2. \A j \in 1..n : Tail(q)[j].kind = "grant" => Tail(q)[j].doc.state = "REVOKED"
    BY <1>8, <1>0 DEF AnswersReuse
  <2>3. q[i + 1].doc \in Rows("grant")' /\ Tail(q)[i] = q[i + 1]
    BY <1>2, <1>8, <1>0 DEF AnswersReuse
  <2> QED
    BY <1>2, <1>4, <2>1, <2>2, <2>3 DEF AnswersReuse, WrittenBefore
<1>9. ASSUME NEW i \in 1..n, AnswersAccept(q, i + 1)
      PROVE  AnswersAccept(Tail(q), i)'
  <2>1. w.kind # "peer"
    BY <1>1, <1>9 DEF AnswersAccept
  <2> QED
    BY <1>2, <1>9, <1>0, <2>1 DEF AnswersAccept
<1>10. Pending(todo)'
  <2>1. ASSUME NEW i \in 1..n
        PROVE  /\ Tail(q)[i].kind \in Kinds \union {"answer"}
               /\ Tail(q)[i].kind = "peer" => OwnId(Tail(q)[i].doc, Tail(q)[i].id)
               /\ Tail(q)[i].kind = "grant" => SpendsGrant(Tail(q), i)' \/ IssuesGrant(Tail(q), i)'
               /\ Tail(q)[i].kind = "answer" /\ Tail(q)[i].id = "reuse" => AnswersReuse(Tail(q), i)'
               /\ Tail(q)[i].kind = "answer" /\ Tail(q)[i].id = "accept" => AnswersAccept(Tail(q), i)'
    BY <1>6, <1>7, <1>8, <1>9, <1>0 DEF Pending
  <2>2. Pending(Tail(q))'
    BY <2>1 DEF Pending
  <2> QED
    BY <2>2
<1> QED
  BY <1>1, <1>3, <1>10 DEF TokensInv

\* A grant is spent or revoked.
LEMMA SpendCommit ==
    ASSUME Tables, Contained, NEW q, IsSeq(q), q # <<>>, Pending(q),
           q[1].kind = "grant", SpendsGrant(q, 1),
           db' = Committed(q[1]), todo' = Tail(q), reused' = reused
    PROVE  TokensInv' /\ Rows("grant")' = Rows("grant")
<1> DEFINE w == q[1]
           n == Len(Tail(q))
<1>1. /\ w.id \in Rows("grant") /\ GrantFields \subseteq DOMAIN w.doc
      /\ w.doc.family = Doc("grant", w.id).family /\ w.doc.peer = Doc("grant", w.id).peer
      /\ w.doc.state \in {"CONSUMED", "REVOKED"}
      /\ Doc("grant", w.id).state = "REVOKED" => w.doc.state = "REVOKED"
  BY DEF SpendsGrant
<1>2. /\ DOMAIN db' = Kinds /\ db' = [k \in Kinds |-> db'[k]]
      /\ Rows("grant")' = Rows("grant")
      /\ Doc("grant", w.id)' = w.doc
      /\ \A g \in Rows("grant") : g # w.id => Doc("grant", g)' = Doc("grant", g)
      /\ Rows("peer")' = Rows("peer") /\ \A p : Doc("peer", p)' = Doc("peer", p)
  <2>1. "grant" \in Kinds /\ "peer" \in Kinds \ {w.kind} /\ w.kind = "grant"
    BY DEF Kinds
  <2>2. /\ DOMAIN db' = Kinds /\ db' = [k \in Kinds |-> db'[k]]
        /\ Rows(w.kind)' = Rows(w.kind) \union {w.id}
        /\ Doc(w.kind, w.id)' = w.doc
        /\ \A id \in Rows(w.kind) : id # w.id => Doc(w.kind, id)' = Doc(w.kind, id)
        /\ \A k \in Kinds \ {w.kind} : Rows(k)' = Rows(k) /\ \A id : Doc(k, id)' = Doc(k, id)
    BY <2>1, CommittedDocs DEF Tables
  <2> QED
    BY <1>1, <2>1, <2>2
<1> HIDE DEF w, n
<1>3. Tables'
  BY <1>1, <1>2 DEF Tables
<1>4. Contained'
  BY <1>1, <1>2 DEF Contained
<1>5. \A f : Family(f)' = Family(f)
  BY <1>1, <1>2 DEF Family
<1>6. ASSUME NEW i \in 1..n
      PROVE  /\ i + 1 \in 1..Len(q) /\ Tail(q)[i] = q[i + 1] /\ 1 \in 1..((i + 1) - 1)
             /\ \A j \in 1..(i - 1) : j + 1 \in 1..((i + 1) - 1) /\ Tail(q)[j] = q[j + 1]
             /\ \A j \in (i + 1)..n : j + 1 \in ((i + 1) + 1)..Len(q) /\ Tail(q)[j] = q[j + 1]
             /\ \A j \in 1..n : j + 1 \in 1..Len(q) /\ Tail(q)[j] = q[j + 1]
  BY TailPlaces DEF n
<1>7. ASSUME NEW i \in 1..n, SpendsGrant(q, i + 1)
      PROVE  SpendsGrant(Tail(q), i)'
  <2> DEFINE v == q[i + 1]
  <2>1. /\ v.id \in Rows("grant") /\ GrantFields \subseteq DOMAIN v.doc
        /\ v.doc.family = Doc("grant", v.id).family /\ v.doc.peer = Doc("grant", v.id).peer
        /\ v.doc.state \in {"CONSUMED", "REVOKED"}
        /\ Doc("grant", v.id).state = "REVOKED" => v.doc.state = "REVOKED"
        /\ w.doc.state = "REVOKED" => v.doc.state = "REVOKED"
    BY <1>6, <1>7 DEF SpendsGrant, w
  <2>2. \A j \in 1..(i - 1) :
           Tail(q)[j].kind = "grant" /\ Tail(q)[j].doc.state = "REVOKED" => v.doc.state = "REVOKED"
    BY <1>6, <1>7 DEF SpendsGrant
  <2>3. Tail(q)[i] = v
    BY <1>6
  <2> HIDE DEF v
  <2>4. Doc("grant", v.id)'.family = v.doc.family /\ Doc("grant", v.id)'.peer = v.doc.peer
    BY <1>1, <1>2, <2>1
  <2>5. Doc("grant", v.id)'.state = "REVOKED" => v.doc.state = "REVOKED"
    BY <1>1, <1>2, <2>1
  <2> QED
    BY <1>2, <2>1, <2>2, <2>3, <2>4, <2>5 DEF SpendsGrant
<1>8. ASSUME NEW i \in 1..n, IssuesGrant(q, i + 1)
      PROVE  IssuesGrant(Tail(q), i)'
  <2> DEFINE v == q[i + 1]
  <2>1. /\ v.id \notin Rows("grant") /\ v.doc.state = "ACTIVE"
        /\ v.id = NextId("grant")
        /\ v.doc.family \in Rows("grant") \union {v.id}
        /\ v.doc.family \notin reused
        /\ GrantFields \subseteq DOMAIN v.doc
    BY <1>8 DEF IssuesGrant
  <2>2. ASSUME NEW h \in Family(v.doc.family), Doc("grant", h)'.state = "ACTIVE"
        PROVE  WrittenBefore(Tail(q), i, "grant", h)
    <3>1. h \in Rows("grant") /\ h # w.id /\ Doc("grant", h).state = "ACTIVE"
      BY <1>1, <1>2, <2>2 DEF Family
    <3>2. WrittenBefore(q, i + 1, "grant", h)
      BY <1>8, <3>1 DEF IssuesGrant
    <3> QED
      BY <3>1, <3>2, StillBefore DEF n, w
  <2>3. \/ v.doc.peer \in Rows("peer")' /\ Doc("peer", v.doc.peer)'.state # "REVOKED"
        \/ WrittenBefore(Tail(q), i, "peer", v.doc.peer)
    <3>1. CASE v.doc.peer \in Rows("peer") /\ Doc("peer", v.doc.peer).state # "REVOKED"
      BY <1>2, <3>1
    <3>2. CASE WrittenBefore(q, i + 1, "peer", v.doc.peer)
      BY <3>2, StillBefore DEF n
    <3> QED
      BY <1>8, <3>1, <3>2 DEF IssuesGrant
  <2>4. /\ \A j \in 1..(i - 1) : Tail(q)[j].kind = "peer" => Tail(q)[j].doc.state # "REVOKED"
        /\ \A j \in (i + 1)..n : Tail(q)[j].kind # "grant"
    BY <1>6, <1>8 DEF IssuesGrant
  <2>5. Tail(q)[i] = v
    BY <1>6
  <2>6. NextId("grant")' = NextId("grant")
    BY <1>2 DEF NextId
  <2>7. \A kind, id : WrittenBefore(Tail(q), i, kind, id)' <=> WrittenBefore(Tail(q), i, kind, id)
    BY DEF WrittenBefore
  <2> HIDE DEF v
  <2>8. /\ v.id = NextId("grant")' /\ v.id \notin Rows("grant")'
        /\ v.doc.family \in Rows("grant")' \union {v.id}
        /\ v.doc.family \notin reused'
        /\ \A h \in Family(v.doc.family)' :
              Doc("grant", h)'.state = "ACTIVE" => WrittenBefore(Tail(q), i, "grant", h)'
    BY <1>2, <1>5, <2>1, <2>2, <2>6, <2>7
  <2>9. \/ v.doc.peer \in Rows("peer")' /\ Doc("peer", v.doc.peer)'.state # "REVOKED"
        \/ WrittenBefore(Tail(q), i, "peer", v.doc.peer)'
    BY <2>3, <2>7
  <2> QED
    BY <2>1, <2>4, <2>5, <2>8, <2>9 DEF IssuesGrant, n
<1>9. ASSUME NEW i \in 1..n, AnswersReuse(q, i + 1)
      PROVE  AnswersReuse(Tail(q), i)'
  <2>1. w.doc.state = "REVOKED"
    BY <1>6, <1>9 DEF AnswersReuse, w
  <2>2. ASSUME NEW h \in Family(q[i + 1].doc), Doc("grant", h)'.state # "REVOKED"
        PROVE  WrittenBefore(Tail(q), i, "grant", h)
    <3>1. h # w.id /\ Doc("grant", h).state # "REVOKED"
      BY <1>2, <2>1, <2>2 DEF Family
    <3>2. WrittenBefore(q, i + 1, "grant", h)
      BY <1>9, <3>1 DEF AnswersReuse
    <3> QED
      BY <3>1, <3>2, StillBefore DEF n, w
  <2>3. \A j \in 1..n : Tail(q)[j].kind = "grant" => Tail(q)[j].doc.state = "REVOKED"
    BY <1>6, <1>9 DEF AnswersReuse
  <2>4. q[i + 1].doc \in Rows("grant")' /\ Tail(q)[i] = q[i + 1]
    BY <1>2, <1>6, <1>9 DEF AnswersReuse
  <2> QED
    BY <1>5, <2>2, <2>3, <2>4 DEF AnswersReuse, WrittenBefore, n
<1>10. ASSUME NEW i \in 1..n PROVE ~AnswersAccept(q, i + 1)
  BY <1>6 DEF AnswersAccept
<1>11. Pending(Tail(q))'
  <2>1. ASSUME NEW i \in 1..n
        PROVE  /\ Tail(q)[i].kind \in Kinds \union {"answer"}
               /\ Tail(q)[i].kind = "peer" => OwnId(Tail(q)[i].doc, Tail(q)[i].id)
               /\ Tail(q)[i].kind = "grant" => SpendsGrant(Tail(q), i)' \/ IssuesGrant(Tail(q), i)'
               /\ Tail(q)[i].kind = "answer" /\ Tail(q)[i].id = "reuse" => AnswersReuse(Tail(q), i)'
               /\ Tail(q)[i].kind = "answer" /\ Tail(q)[i].id = "accept" => AnswersAccept(Tail(q), i)'
    BY <1>6, <1>7, <1>8, <1>9, <1>10 DEF Pending
  <2> QED
    BY <2>1 DEF Pending, n
<1> QED
  BY <1>2, <1>3, <1>4, <1>11, TailItems DEF TokensInv

\* A grant is issued: what is left behind it writes no grant and answers no
\* reuse and no request.
LEMMA IssueCommit ==
    ASSUME Tables, Contained, NEW q, IsSeq(q), q # <<>>, Pending(q),
           q[1].kind = "grant", IssuesGrant(q, 1),
           db' = Committed(q[1]), todo' = Tail(q), reused' = reused
    PROVE  /\ TokensInv'
           /\ \A g \in Rows("grant")' \ Rows("grant") :
                 Doc("peer", Doc("grant", g)'.peer).state # "REVOKED"
<1> DEFINE w == q[1]
           n == Len(Tail(q))
<1>1. /\ w.id = NextId("grant") /\ w.id \notin Rows("grant")
      /\ w.doc.state = "ACTIVE"
      /\ w.doc.family \in Rows("grant") \union {w.id}
      /\ w.doc.family \notin reused
      /\ GrantFields \subseteq DOMAIN w.doc
      /\ \A h \in Family(w.doc.family) : Doc("grant", h).state # "ACTIVE"
      /\ w.doc.peer \in Rows("peer") /\ Doc("peer", w.doc.peer).state # "REVOKED"
  <2>1. \A kind, id : ~WrittenBefore(q, 1, kind, id)
    BY DEF WrittenBefore
  <2> QED
    BY <2>1 DEF IssuesGrant
<1>2. /\ DOMAIN db' = Kinds /\ db' = [k \in Kinds |-> db'[k]]
      /\ Rows("grant")' = Rows("grant") \union {w.id}
      /\ Doc("grant", w.id)' = w.doc
      /\ \A g \in Rows("grant") : g # w.id => Doc("grant", g)' = Doc("grant", g)
      /\ Rows("peer")' = Rows("peer") /\ \A p : Doc("peer", p)' = Doc("peer", p)
  <2>1. "grant" \in Kinds /\ "peer" \in Kinds \ {w.kind} /\ w.kind = "grant"
    BY DEF Kinds
  <2>2. /\ DOMAIN db' = Kinds /\ db' = [k \in Kinds |-> db'[k]]
        /\ Rows(w.kind)' = Rows(w.kind) \union {w.id}
        /\ Doc(w.kind, w.id)' = w.doc
        /\ \A id \in Rows(w.kind) : id # w.id => Doc(w.kind, id)' = Doc(w.kind, id)
        /\ \A k \in Kinds \ {w.kind} : Rows(k)' = Rows(k) /\ \A id : Doc(k, id)' = Doc(k, id)
    BY <2>1, CommittedDocs DEF Tables
  <2> QED
    BY <2>1, <2>2
<1> HIDE DEF w, n
<1>3. Tables'
  <2>1. IsFiniteSet(Rows("grant")') /\ Cardinality(Rows("grant")') = Cardinality(Rows("grant")) + 1
    BY <1>1, <1>2, FS_AddElement DEF Tables
  <2>2. Rows("grant")' = 1..(Cardinality(Rows("grant")) + 1)
    <3> DEFINE c == Cardinality(Rows("grant"))
               R == Rows("grant")
    <3>1. c \in Nat /\ R = 1..c /\ w.id = c + 1
      BY <1>1, FreshGrant DEF Tables
    <3>2. Rows("grant")' = R \union {w.id}
      BY <1>2
    <3> HIDE DEF c, R
    <3>3. R \union {w.id} = 1..(c + 1)
      BY <3>1
    <3> QED
      BY <3>2, <3>3 DEF c
  <2> QED
    BY <1>1, <1>2, <2>1, <2>2 DEF Tables
<1>4. Contained'
  BY <1>1, <1>2 DEF Contained, Family
<1>5. ASSUME NEW i \in 1..n
      PROVE  /\ i + 1 \in 1..Len(q) /\ Tail(q)[i] = q[i + 1] /\ q[i + 1].kind # "grant"
             /\ ~AnswersReuse(q, i + 1) /\ ~AnswersAccept(q, i + 1)
  <2>1. i + 1 \in 1..Len(q) /\ Tail(q)[i] = q[i + 1] /\ i + 1 \in (1 + 1)..Len(q) /\ 1 \in 1..Len(q)
    BY TailItems DEF n
  <2> QED
    BY <1>1, <2>1 DEF IssuesGrant, AnswersReuse, AnswersAccept, w
<1>6. Pending(Tail(q))'
  <2>1. ASSUME NEW i \in 1..n
        PROVE  /\ Tail(q)[i].kind \in Kinds \union {"answer"}
               /\ Tail(q)[i].kind = "peer" => OwnId(Tail(q)[i].doc, Tail(q)[i].id)
               /\ Tail(q)[i].kind # "grant"
               /\ ~(Tail(q)[i].kind = "answer" /\ Tail(q)[i].id = "reuse")
               /\ ~(Tail(q)[i].kind = "answer" /\ Tail(q)[i].id = "accept")
    BY <1>5 DEF Pending
  <2> QED
    BY <2>1 DEF Pending, n
<1> QED
  BY <1>1, <1>2, <1>3, <1>4, <1>6, TailItems DEF TokensInv


\* A commit keeps the invariant, and a grant it issues is for a peer that is
\* not revoked.
LEMMA AnyCommit ==
    ASSUME Tables, Contained, NEW q, IsSeq(q), q # <<>>, Pending(q), q[1].kind # "answer",
           db' = Committed(q[1]), todo' = Tail(q), reused' = reused
    PROVE  /\ TokensInv'
           /\ \A g \in Rows("grant")' \ Rows("grant") :
                 Doc("peer", Doc("grant", g)'.peer).state # "REVOKED"
<1>1. q[1].kind \in Kinds /\ (q[1].kind = "grant" => SpendsGrant(q, 1) \/ IssuesGrant(q, 1))
  <2>1. 1 \in 1..Len(q)
    BY TailItems
  <2> QED
    BY <2>1 DEF Pending
<1>2. CASE q[1].kind # "grant"
  <2>1. TokensInv'
    BY <1>1, <1>2, OtherCommit
  <2>2. "grant" \in Kinds \ {q[1].kind}
    BY <1>2 DEF Kinds
  <2>3. \A k \in Kinds \ {q[1].kind} : Rows(k)' = Rows(k)
    BY <1>1, CommittedDocs DEF Tables
  <2>4. Rows("grant")' = Rows("grant")
    BY <2>2, <2>3
  <2> QED
    BY <2>1, <2>4
<1>3. CASE q[1].kind = "grant" /\ SpendsGrant(q, 1)
  BY <1>3, SpendCommit
<1>4. CASE q[1].kind = "grant" /\ IssuesGrant(q, 1)
  BY <1>4, IssueCommit
<1> QED
  BY <1>1, <1>2, <1>3, <1>4

\* What a step may do about the grants and the requests of revoked peers.
RevokedStep ==
    /\ \A g \in Rows("grant")' \ Rows("grant") :
            Doc("peer", Doc("grant", g)'.peer).state # "REVOKED"
    /\ \A q \in DOMAIN accepted' :
            accepted'[q] # (IF q \in DOMAIN accepted THEN accepted[q] ELSE 0) =>
                Doc("peer", Doc("grant", q.grant).peer).state # "REVOKED"

\* A step that writes nothing, and may drop what was still to be written.
LEMMA NoCommit ==
    ASSUME TokensInv, db' = db, reused' = reused, todo' = todo \/ todo' = <<>>
    PROVE  TokensInv' /\ Rows("grant")' = Rows("grant")
<1>1. Tables' /\ Contained' /\ Rows("grant")' = Rows("grant")
  BY DEF TokensInv, Tables, Contained, Rows, Doc
<1>2. CASE todo' = todo
  <2>1. IsSeq(todo)'
    BY <1>2 DEF TokensInv, IsSeq
  <2>2. \A i : /\ SpendsGrant(todo, i) => SpendsGrant(todo, i)'
               /\ IssuesGrant(todo, i) => IssuesGrant(todo, i)'
               /\ AnswersReuse(todo, i) => AnswersReuse(todo, i)'
               /\ AnswersAccept(todo, i) => AnswersAccept(todo, i)'
    BY <1>2 DEF Rows, Doc, NextId, Family, SpendsGrant, IssuesGrant, AnswersReuse,
       AnswersAccept, WrittenBefore
  <2>3. Pending(todo)'
    BY <1>2, <2>2 DEF TokensInv, Pending
  <2> QED
    BY <1>1, <2>1, <2>3 DEF TokensInv
<1>3. CASE todo' = <<>>
  <2>1. IsSeq(<<>>)
    <3>1. <<>> \in Seq(Nat)
      OBVIOUS
    <3> QED
      BY <3>1, SeqIsSeq
  <2>2. Pending(<<>>)'
    BY DEF Pending
  <2>3. IsSeq(<<>>)'
    BY <2>1 DEF IsSeq
  <2>4. IsSeq(todo)' /\ Pending(todo)'
    BY <1>3, <2>2, <2>3
  <2> QED
    BY <1>1, <2>4 DEF TokensInv
<1> QED
  BY <1>2, <1>3

\* A handler that decides on writes that may be pending.
LEMMA DoKeeps ==
    ASSUME TokensInv, NEW q, IsSeq(q), Pending(q), q # <<>> => q[1].kind # "answer",
           Do(q), reused' = reused, accepted' = accepted
    PROVE  TokensInv' /\ RevokedStep
<1>1. CASE q = <<>>
  <2>1. db' = db /\ todo' = todo /\ accepted' = accepted /\ reused' = reused
    BY <1>1 DEF Do, Idle
  <2> QED
    BY <2>1, NoCommit DEF RevokedStep
<1>2. CASE q # <<>>
  <2>1. db' = Committed(q[1]) /\ todo' = Tail(q)
    BY <1>2, TailItems DEF Do
  <2> QED
    BY <1>2, <2>1, AnyCommit DEF TokensInv, RevokedStep
<1> QED
  BY <1>1, <1>2

-----------------------------------------------------------------------------
(* What the handlers decide to write. *)

LEMMA OneItem ==
    ASSUME NEW w
    PROVE  IsSeq(<<w>>) /\ Len(<<w>>) = 1 /\ <<w>>[1] = w /\ <<w>> # <<>>
<1>1. <<w>> \in Seq({w}) /\ Len(<<w>>) = 1 /\ <<w>>[1] = w /\ <<w>> # <<>>
  OBVIOUS
<1> QED
  BY <1>1, SeqIsSeq

LEMMA NoItems == IsSeq(<<>>) /\ Len(<<>>) = 0
<1>1. <<>> \in Seq(Nat) /\ Len(<<>>) = 0
  OBVIOUS
<1> QED
  BY <1>1, SeqIsSeq

\* The items of two lists of writes, one after the other.
LEMMA BothItems ==
    ASSUME NEW p, NEW q, IsSeq(p), IsSeq(q)
    PROVE  /\ IsSeq(p \o q)
           /\ Len(p) \in Nat /\ Len(q) \in Nat /\ Len(p \o q) = Len(p) + Len(q)
           /\ \A i \in 1..Len(p) : i \in 1..Len(p \o q) /\ (p \o q)[i] = p[i]
           /\ \A i \in 1..Len(q) :
                 Len(p) + i \in 1..Len(p \o q) /\ (p \o q)[Len(p) + i] = q[i]
           /\ \A i \in 1..Len(p \o q) :
                 i \in 1..Len(p) \/ \E j \in 1..Len(q) : i = Len(p) + j
<1> DEFINE P == {p[i] : i \in DOMAIN p}
           Q == {q[i] : i \in DOMAIN q}
           S == P \union Q
<1>1. p \in Seq(P) /\ q \in Seq(Q)
  BY DEF IsSeq
<1> HIDE DEF P, Q
<1>2. p \in Seq(S) /\ q \in Seq(S)
  <2>1. /\ Len(p) \in Nat /\ p \in [1..Len(p) -> P]
        /\ Len(q) \in Nat /\ q \in [1..Len(q) -> Q]
    BY <1>1
  <2>2. p \in [1..Len(p) -> S] /\ q \in [1..Len(q) -> S]
    BY <2>1
  <2> QED
    BY <2>1, <2>2
<1> HIDE DEF S
<1>3. /\ p \o q \in Seq(S)
      /\ Len(p) \in Nat /\ Len(q) \in Nat /\ Len(p \o q) = Len(p) + Len(q)
      /\ \A i \in 1..(Len(p) + Len(q)) :
            (p \o q)[i] = IF i <= Len(p) THEN p[i] ELSE q[i - Len(p)]
  BY <1>2
<1>4. \A i \in 1..Len(p) : i \in 1..Len(p \o q) /\ (p \o q)[i] = p[i]
  BY <1>3
<1>5. \A i \in 1..Len(q) : Len(p) + i \in 1..Len(p \o q) /\ (p \o q)[Len(p) + i] = q[i]
  BY <1>3
<1>6. ASSUME NEW i \in 1..Len(p \o q), i \notin 1..Len(p)
      PROVE  \E j \in 1..Len(q) : i = Len(p) + j
  <2>1. i - Len(p) \in 1..Len(q) /\ i = Len(p) + (i - Len(p))
    BY <1>3, <1>6
  <2> QED
    BY <2>1
<1> QED
  BY <1>3, <1>4, <1>5, <1>6, SeqIsSeq

\* Two writes.
LEMMA TwoItems ==
    ASSUME NEW w, NEW v
    PROVE  /\ IsSeq(<<w>> \o <<v>>) /\ Len(<<w>> \o <<v>>) = 2
           /\ (<<w>> \o <<v>>)[1] = w /\ (<<w>> \o <<v>>)[2] = v
<1> DEFINE a == <<w>>
           b == <<v>>
<1>1. IsSeq(a) /\ IsSeq(b)
  BY OneItem
<1>2. Len(a) = 1 /\ a[1] = w /\ Len(b) = 1 /\ b[1] = v
  BY OneItem
<1> HIDE DEF a, b
<1>3. IsSeq(a \o b) /\ Len(a \o b) = Len(a) + Len(b)
  BY <1>1, BothItems
<1>4. \A i \in 1..Len(a) : (a \o b)[i] = a[i]
  BY <1>1, BothItems
<1>5. \A i \in 1..Len(b) : (a \o b)[Len(a) + i] = b[i]
  BY <1>1, BothItems
<1>6. 1 \in 1..1 /\ 1 + 1 = 2
  OBVIOUS
<1>7. IsSeq(a \o b) /\ Len(a \o b) = 2 /\ (a \o b)[1] = w /\ (a \o b)[2] = v
  BY <1>2, <1>3, <1>4, <1>5, <1>6
<1> QED
  BY <1>7 DEF a, b

\* Writes that are neither grants nor answers, and keep a peer's name.
Plain(q) ==
    /\ IsSeq(q)
    /\ \A i \in 1..Len(q) : /\ q[i].kind \in Kinds \ {"grant"}
                            /\ q[i].kind = "peer" => OwnId(q[i].doc, q[i].id)

LEMMA PlainPending ==
    ASSUME NEW q, Plain(q)
    PROVE  IsSeq(q) /\ Pending(q) /\ (q # <<>> => q[1].kind # "answer")
<1>1. "answer" \notin Kinds
  BY DEF Kinds
<1>2. IsSeq(q) /\ Pending(q)
  BY <1>1 DEF Plain, Pending
<1>3. q # <<>> => 1 \in 1..Len(q)
  BY <1>2, TailItems
<1> QED
  BY <1>1, <1>2, <1>3 DEF Plain

LEMMA PlainPut ==
    ASSUME NEW kind \in Kinds \ {"grant"}, NEW id, NEW doc, kind = "peer" => OwnId(doc, id)
    PROVE  Plain(<<Put(kind, id, doc)>>)
<1> DEFINE w == Put(kind, id, doc)
<1>1. w.kind = kind /\ w.id = id /\ w.doc = doc
  BY DEF Put
<1> HIDE DEF w
<1>2. Plain(<<w>>)
  BY <1>1, OneItem DEF Plain
<1> QED
  BY <1>2 DEF w

LEMMA PlainNone == Plain(<<>>)
  BY NoItems DEF Plain

LEMMA PlainBoth ==
    ASSUME NEW p, NEW q, Plain(p), Plain(q)
    PROVE  Plain(p \o q)
<1>1. /\ IsSeq(p \o q)
      /\ \A i \in 1..Len(p) : (p \o q)[i] = p[i]
      /\ \A i \in 1..Len(q) : (p \o q)[Len(p) + i] = q[i]
      /\ \A i \in 1..Len(p \o q) : i \in 1..Len(p) \/ \E j \in 1..Len(q) : i = Len(p) + j
  <2>1. IsSeq(p) /\ IsSeq(q)
    BY DEF Plain
  <2> QED
    BY <2>1, BothItems
<1>2. ASSUME NEW i \in 1..Len(p \o q)
      PROVE  /\ (p \o q)[i].kind \in Kinds \ {"grant"}
             /\ (p \o q)[i].kind = "peer" => OwnId((p \o q)[i].doc, (p \o q)[i].id)
  <2>1. CASE i \in 1..Len(p)
    <3>1. (p \o q)[i] = p[i]
      BY <1>1, <2>1
    <3> QED
      BY <2>1, <3>1 DEF Plain
  <2>2. CASE i \notin 1..Len(p)
    <3>1. PICK j \in 1..Len(q) : i = Len(p) + j
      BY <1>1, <2>2
    <3>2. (p \o q)[i] = q[j]
      BY <1>1, <3>1
    <3> QED
      BY <3>2 DEF Plain
  <2> QED
    BY <2>1, <2>2
<1> QED
  BY <1>1, <1>2 DEF Plain

\* A lazy expiry and a failed attempt write the invitation's row, or nothing.
LEMMA PlainExpire == ASSUME NEW rec PROVE Plain(ExpireWrites(rec))
<1>1. "pair" \in Kinds \ {"grant"}
  BY DEF Kinds
<1> QED
  BY <1>1, PlainPut, PlainNone DEF ExpireWrites

LEMMA PlainFail == ASSUME NEW rec PROVE Plain(FailAttempt(rec))
<1>1. "pair" \in Kinds \ {"grant"}
  BY DEF Kinds
<1>2. \A doc : Plain(<<Put("pair", rec.pair, doc)>>)
  BY <1>1, PlainPut
<1> QED
  BY <1>2, PlainNone DEF FailAttempt

\* A handler that makes only such writes.
LEMMA PlainKeeps ==
    ASSUME TokensInv, NEW q, Plain(q), Do(q), reused' = reused, accepted' = accepted
    PROVE  TokensInv' /\ RevokedStep
  BY PlainPending, DoKeeps

LEMMA PlainCalls ==
    ASSUME TokensInv, reused' = reused, accepted' = accepted,
           \/ \E i \in Invites : CreateInvitation(i)
           \/ \E reg \in Registrations : Propose(reg) \/ RefuseRegistration(reg)
           \/ \E p \in Rows("pair"), code \in {"none", "wrong"} : GetPair(p, code)
           \/ \E p \in Rows("pair") : CancelPair(p)
           \/ \E k \in Keys : Challenge(k)
           \/ \E p \in Rows("peer") : Disconnect(p)
           \/ \E p \in Rows("pair"), k \in Keys, c \in DOMAIN Claims, scopes \in ApproveScopes :
                 Approve(p, <<k, c>>, scopes)
    PROVE  TokensInv' /\ RevokedStep
<1>1. /\ "pair" \in Kinds \ {"grant"} /\ "challenge" \in Kinds \ {"grant"}
      /\ "peer" \in Kinds \ {"grant"}
  BY DEF Kinds
<1>2. \A p, doc : Plain(<<Put("pair", p, doc)>>)
  BY <1>1, PlainPut
<1>3. ASSUME NEW i, CreateInvitation(i) PROVE \E q : Plain(q) /\ Do(q)
  BY <1>2, <1>3 DEF CreateInvitation
<1>4. ASSUME NEW reg, Propose(reg) PROVE \E q : Plain(q) /\ Do(q)
  BY <1>2, <1>4 DEF Propose
<1>5. ASSUME NEW reg, RefuseRegistration(reg) PROVE \E q : Plain(q) /\ Do(q)
  <2>1. Plain(RefusalWrites(reg))
    BY PlainExpire, PlainFail, PlainNone DEF RefusalWrites
  <2> QED
    BY <1>5, <2>1 DEF RefuseRegistration
<1>6. ASSUME NEW p, NEW code, GetPair(p, code) PROVE \E q : Plain(q) /\ Do(q)
  <2>1. \A rec, read : Plain(ExpireWrites(rec)) /\ Plain(ExpireWrites(rec) \o FailAttempt(read))
    BY PlainExpire, PlainFail, PlainBoth
  <2> QED
    BY <1>6, <2>1 DEF GetPair
<1>7. ASSUME NEW p, CancelPair(p) PROVE \E q : Plain(q) /\ Do(q)
  <2>1. \A rec : Plain(ExpireWrites(rec))
    BY PlainExpire
  <2> QED
    BY <1>2, <1>7, <2>1 DEF CancelPair
<1>8. ASSUME NEW k, Challenge(k) PROVE \E q : Plain(q) /\ Do(q)
  <2>1. \A c, doc : Plain(<<Put("challenge", c, doc)>>)
    BY <1>1, PlainPut
  <2> QED
    BY <1>8, <2>1 DEF Challenge
<1>9. ASSUME NEW p \in Rows("peer"), Disconnect(p) PROVE \E q : Plain(q) /\ Do(q)
  <2> DEFINE d == Doc("peer", p)
             e == [d EXCEPT !.state = "DISCONNECTED"]
  <2>1. OwnId(d, p)
    BY DEF TokensInv, Tables
  <2> HIDE DEF d
  <2>2. OwnId(e, p)
    BY <2>1 DEF OwnId
  <2> HIDE DEF e
  <2>3. Plain(<<Put("peer", p, e)>>)
    BY <1>1, <2>2, PlainPut
  <2>4. Do(<<Put("peer", p, e)>>)
    BY <1>9 DEF Disconnect, d, e
  <2> QED
    BY <2>3, <2>4
<1>10. ASSUME NEW p, NEW x, NEW scopes, Approve(p, x, scopes) PROVE \E q : Plain(q) /\ Do(q)
  BY <1>2, <1>10 DEF Approve
<1>11. \E q : Plain(q) /\ Do(q)
  BY <1>3, <1>4, <1>5, <1>6, <1>7, <1>8, <1>9, <1>10
<1> QED
  BY <1>11, PlainKeeps

\* w revokes one of the grants gs.
Revokes(w, gs) ==
    /\ w.kind = "grant" /\ w.id \in gs /\ w.doc.state = "REVOKED"
    /\ GrantFields \subseteq DOMAIN w.doc
    /\ w.doc.family = Doc("grant", w.id).family
    /\ w.doc.peer = Doc("grant", w.id).peer

\* The writes that revoke grants spend each of them once.
LEMMA Revocations ==
    ASSUME TokensInv, NEW gs \in SUBSET Rows("grant"), NEW ws \in RevokeGrants(gs)
    PROVE  /\ IsSeq(ws) /\ (gs # {} => ws # <<>>)
           /\ \A i \in 1..Len(ws) : Revokes(ws[i], gs)
           /\ \A h \in gs : \E i \in 1..Len(ws) : ws[i].kind = "grant" /\ ws[i].id = h
<1> DEFINE c == Cardinality(gs)
           Revoked(g) == Put("grant", g, [Doc("grant", g) EXCEPT !.state = "REVOKED"])
<1>1. IsFiniteSet(gs) /\ c \in Nat
  BY FS_Subset, FS_CardinalityType DEF TokensInv, Tables
<1>2. PICK o \in Bijection(1..c, gs) : ws = [i \in DOMAIN o |-> Revoked(o[i])]
  BY DEF RevokeGrants
<1>3. o \in [1..c -> gs] /\ \A h \in gs : \E i \in 1..c : o[i] = h
  BY DEF Bijection, Surjection
<1> HIDE DEF c
<1>4. \A g \in gs : Revokes(Revoked(g), gs) /\ Revoked(g).kind = "grant" /\ Revoked(g).id = g
  <2> SUFFICES ASSUME NEW g \in gs
               PROVE  Revokes(Revoked(g), gs) /\ Revoked(g).kind = "grant" /\ Revoked(g).id = g
    OBVIOUS
  <2> DEFINE d == Doc("grant", g)
             e == [d EXCEPT !.state = "REVOKED"]
  <2>1. GrantFields \subseteq DOMAIN d
    BY DEF TokensInv, Tables
  <2> HIDE DEF d
  <2>2. /\ e.state = "REVOKED" /\ GrantFields \subseteq DOMAIN e
        /\ e.family = d.family /\ e.peer = d.peer
    BY <2>1 DEF GrantFields
  <2> HIDE DEF e
  <2>3. Revoked(g) = Put("grant", g, e)
    BY DEF d, e
  <2> QED
    BY <2>2, <2>3 DEF Put, d, Revokes
<1> HIDE DEF Revoked
<1>5. DOMAIN ws = 1..c /\ \A i \in 1..c : o[i] \in gs /\ ws[i] = Revoked(o[i])
  BY <1>2, <1>3
<1>6. IsSeq(ws) /\ Len(ws) = c
  <2> DEFINE S == {ws[i] : i \in 1..c}
  <2>1. ws = [i \in 1..c |-> ws[i]] /\ \A i \in 1..c : ws[i] \in S
    BY <1>2, <1>3
  <2> HIDE DEF S
  <2>2. ws \in Seq(S) /\ Len(ws) = c
    BY <1>1, <2>1
  <2> QED
    BY <2>2, SeqIsSeq
<1>7. gs # {} => ws # <<>>
  <2>1. ASSUME gs # {} PROVE c # 0
    BY <1>3, <2>1
  <2> QED
    BY <1>6, <2>1, NoItems
<1> QED
  BY <1>3, <1>4, <1>5, <1>6, <1>7

\* Such a write spends its grant wherever it stands.
LEMMA RevocationSpends ==
    ASSUME TokensInv, NEW gs \in SUBSET Rows("grant"), NEW ws \in RevokeGrants(gs),
           NEW j \in 1..Len(ws), NEW q, NEW i, q[i] = ws[j]
    PROVE  q[i].kind = "grant" /\ q[i].doc.state = "REVOKED" /\ SpendsGrant(q, i)
<1>1. Revokes(q[i], gs)
  BY Revocations
<1> QED
  BY <1>1 DEF SpendsGrant, Revokes

\* The reuse of a spent grant: its family is revoked, and then answered.
LEMMA ReuseKeeps ==
    ASSUME TokensInv, NEW f \in Rows("grant"), NEW gs,
           gs = {h \in Family(f) : Doc("grant", h).state # "REVOKED"}, gs # {},
           NEW ws \in RevokeGrants(gs), Do(ws \o <<Answer("reuse", f)>>),
           reused' = reused, accepted' = accepted
    PROVE  TokensInv' /\ RevokedStep
<1> DEFINE a == Answer("reuse", f)
           q == ws \o <<a>>
           n == Len(ws)
<1>1. gs \in SUBSET Rows("grant")
  BY DEF Family
<1>2. /\ IsSeq(ws) /\ ws # <<>>
      /\ \A h \in gs : \E i \in 1..n : ws[i].kind = "grant" /\ ws[i].id = h
  BY <1>1, Revocations
<1>3. a.kind = "answer" /\ a.id = "reuse" /\ a.doc = f
  BY DEF Answer
<1> HIDE DEF a
<1>4. IsSeq(<<a>>) /\ Len(<<a>>) = 1 /\ <<a>>[1] = a
  BY OneItem
<1>5. /\ IsSeq(q) /\ n \in Nat /\ n >= 1 /\ Len(q) = n + 1
      /\ \A i \in 1..n : q[i] = ws[i]
      /\ q[n + 1] = a
  <2>1. n >= 1 /\ n \in Nat
    BY <1>2, TailItems
  <2>2. /\ IsSeq(q) /\ Len(q) = n + Len(<<a>>)
        /\ \A i \in 1..n : q[i] = ws[i]
        /\ \A i \in 1..Len(<<a>>) : q[n + i] = <<a>>[i]
    BY <1>2, <1>4, BothItems
  <2> QED
    BY <1>4, <2>1, <2>2
<1> HIDE DEF q, n
<1>6. ASSUME NEW i \in 1..n
      PROVE  q[i].kind = "grant" /\ q[i].doc.state = "REVOKED" /\ SpendsGrant(q, i)
  BY <1>1, <1>5, <1>6, RevocationSpends DEF n
<1>7. AnswersReuse(q, n + 1)
  <2>1. \A h \in Family(f) : Doc("grant", h).state # "REVOKED" => WrittenBefore(q, n + 1, "grant", h)
    <3> SUFFICES ASSUME NEW h \in gs PROVE WrittenBefore(q, n + 1, "grant", h)
      OBVIOUS
    <3>1. PICK i \in 1..n : q[i].kind = "grant" /\ q[i].id = h
      BY <1>2, <1>5
    <3>2. i \in 1..((n + 1) - 1)
      BY <1>5
    <3> QED
      BY <3>1, <3>2 DEF WrittenBefore
  <2>2. \A j \in 1..Len(q) : q[j].kind = "grant" => q[j].doc.state = "REVOKED"
    <3> SUFFICES ASSUME NEW j \in 1..Len(q), q[j].kind = "grant"
                 PROVE  q[j].doc.state = "REVOKED"
      OBVIOUS
    <3>1. j # n + 1
      BY <1>3, <1>5
    <3> QED
      BY <1>5, <1>6, <3>1
  <2> QED
    BY <1>3, <1>5, <2>1, <2>2 DEF AnswersReuse
<1>8. Pending(q)
  <2> SUFFICES ASSUME NEW i \in 1..Len(q)
               PROVE  /\ q[i].kind \in Kinds \union {"answer"}
                      /\ q[i].kind # "peer"
                      /\ q[i].kind = "grant" => SpendsGrant(q, i)
                      /\ q[i].kind = "answer" => q[i].id = "reuse" /\ AnswersReuse(q, i)
    BY DEF Pending
  <2>1. CASE i \in 1..n
    BY <1>6, <2>1 DEF Kinds
  <2>2. CASE i = n + 1
    BY <1>3, <1>5, <1>7, <2>2
  <2> QED
    BY <1>5, <2>1, <2>2
<1>9. q[1].kind # "answer"
  BY <1>5, <1>6
<1> QED
  BY <1>5, <1>8, <1>9, DoKeeps DEF q, a

\* The revocation of a peer: its row, and then its grants.
LEMMA RevokePeerKeeps ==
    ASSUME TokensInv, NEW p \in Rows("peer"), RevokePeer(p),
           reused' = reused, accepted' = accepted
    PROVE  TokensInv' /\ RevokedStep
<1> DEFINE gs == {g \in Rows("grant") : /\ Doc("grant", g).peer = p
                                        /\ Doc("grant", g).state = "ACTIVE"}
           d == Doc("peer", p)
           e == [d EXCEPT !.state = "REVOKED", !.revision = @ + 1]
           w == Put("peer", p, e)
<1>1. PICK ws \in RevokeGrants(gs) : Do(<<w>> \o ws)
  BY DEF RevokePeer
<1> DEFINE q == <<w>> \o ws
<1>2. OwnId(e, p)
  <2>1. "id" \in DOMAIN d /\ d.id = p
    BY DEF TokensInv, Tables, OwnId
  <2> HIDE DEF d
  <2>2. "id" \in DOMAIN e /\ e.id = d.id
    BY <2>1
  <2> QED
    BY <2>1, <2>2 DEF OwnId
<1> HIDE DEF e
<1>3. w.kind = "peer" /\ OwnId(w.doc, w.id)
  BY <1>2 DEF Put
<1> HIDE DEF w
<1>4. gs \in SUBSET Rows("grant")
  OBVIOUS
<1> HIDE DEF gs
<1>5. /\ IsSeq(q) /\ Len(ws) \in Nat /\ Len(q) = 1 + Len(ws)
      /\ q[1] = w
      /\ \A i \in 1..Len(ws) : q[1 + i] = ws[i]
  <2>1. IsSeq(<<w>>) /\ Len(<<w>>) = 1 /\ <<w>>[1] = w
    BY OneItem
  <2>2. IsSeq(ws)
    BY <1>4, Revocations
  <2> QED
    BY <2>1, <2>2, BothItems
<1> HIDE DEF q
<1>6. Pending(q)
  <2> SUFFICES ASSUME NEW i \in 1..Len(q)
               PROVE  /\ q[i].kind \in Kinds
                      /\ q[i].kind = "peer" => OwnId(q[i].doc, q[i].id)
                      /\ q[i].kind = "grant" => SpendsGrant(q, i)
    BY DEF Pending, Kinds
  <2>1. CASE i = 1
    BY <1>3, <1>5, <2>1 DEF Kinds
  <2>2. CASE i # 1
    <3>1. i - 1 \in 1..Len(ws) /\ q[i] = ws[i - 1]
      BY <1>5, <2>2
    <3> QED
      BY <1>4, <3>1, RevocationSpends DEF Kinds
  <2> QED
    BY <2>1, <2>2
<1> QED
  BY <1>1, <1>3, <1>5, <1>6, DoKeeps DEF q

\* The renewal of a grant: it is spent before its successor is issued.
LEMMA RotationKeeps ==
    ASSUME TokensInv, NEW g \in Rows("grant"), NEW c, NEW r,
           Doc("peer", Doc("grant", g).peer).state # "REVOKED",
           Doc("grant", g).state = "ACTIVE",
           Do(<<Put("challenge", c, [Doc("challenge", c) EXCEPT !.consumed = TRUE]),
                Put("grant", g, [Doc("grant", g) EXCEPT !.state = "CONSUMED"]),
                Issue(NextId("grant"), Doc("peer", Doc("grant", g).peer), Doc("grant", g).family),
                Put("renew", g, r)>>),
           reused' = reused, accepted' = accepted
    PROVE  TokensInv' /\ RevokedStep
<1> DEFINE d  == Doc("grant", g)
           e  == [d EXCEPT !.state = "CONSUMED"]
           p  == Doc("peer", d.peer)
           k  == NextId("grant")
           w1 == Put("challenge", c, [Doc("challenge", c) EXCEPT !.consumed = TRUE])
           w2 == Put("grant", g, e)
           w3 == Issue(k, p, d.family)
           w4 == Put("renew", g, r)
           q  == <<w1, w2, w3, w4>>
<1>1. /\ GrantFields \subseteq DOMAIN d /\ d.family \in Rows("grant") /\ d.peer \in Rows("peer")
      /\ d.state = "ACTIVE" /\ p.state # "REVOKED" /\ p.id = d.peer
      /\ d.family \notin reused
  BY DEF TokensInv, Tables, Contained, OwnId
<1>2. \A h \in Family(d.family) : Doc("grant", h).state = "ACTIVE" => h = g
  BY DEF TokensInv, Contained, Family
<1>3. k \notin Rows("grant")
  BY FreshGrant DEF TokensInv
<1>4. d = Doc("grant", g) /\ p = Doc("peer", d.peer) /\ k = NextId("grant")
  OBVIOUS
<1> HIDE DEF d, p, k
<1>5. /\ e.state = "CONSUMED" /\ GrantFields \subseteq DOMAIN e
      /\ e.family = d.family /\ e.peer = d.peer
  BY <1>1 DEF GrantFields
<1> HIDE DEF e
<1>6. /\ w1.kind = "challenge"
      /\ w2.kind = "grant" /\ w2.id = g /\ w2.doc = e
      /\ w3.kind = "grant" /\ w3.id = k
      /\ w4.kind = "renew"
  BY DEF Put, Issue
<1>7. /\ w3.doc.state = "ACTIVE" /\ w3.doc.family = d.family /\ w3.doc.peer = p.id
      /\ GrantFields \subseteq DOMAIN w3.doc
  BY DEF Put, Issue, GrantFields
<1>8. Do(q)
  BY DEF d, e, p, k
<1> HIDE DEF w1, w2, w3, w4
<1>9. /\ IsSeq(q) /\ Len(q) = 4 /\ q # <<>>
      /\ q[1] = w1 /\ q[2] = w2 /\ q[3] = w3 /\ q[4] = w4
  <2>1. q \in Seq({w1, w2, w3, w4}) /\ Len(q) = 4 /\ q # <<>>
    OBVIOUS
  <2>2. q[1] = w1 /\ q[2] = w2 /\ q[3] = w3 /\ q[4] = w4
    OBVIOUS
  <2> QED
    BY <2>1, <2>2, SeqIsSeq
<1> HIDE DEF q
<1>10. SpendsGrant(q, 2)
  <2>1. \A j \in 1..(2 - 1) : q[j].kind # "grant"
    BY <1>6, <1>9
  <2> QED
    BY <1>1, <1>4, <1>5, <1>6, <1>9, <2>1 DEF SpendsGrant
<1>11. IssuesGrant(q, 3)
  <2>1. WrittenBefore(q, 3, "grant", g)
    <3>1. 2 \in 1..(3 - 1)
      OBVIOUS
    <3> QED
      BY <1>6, <1>9, <3>1 DEF WrittenBefore
  <2>2. \A h \in Family(d.family) :
           Doc("grant", h).state = "ACTIVE" => WrittenBefore(q, 3, "grant", h)
    BY <1>2, <2>1
  <2>3. \A j \in 1..(3 - 1) : q[j].kind # "peer"
    <3>1. \A j \in 1..(3 - 1) : j = 1 \/ j = 2
      OBVIOUS
    <3> QED
      BY <1>6, <1>9, <3>1
  <2>4. \A j \in (3 + 1)..Len(q) : q[j].kind # "grant"
    BY <1>6, <1>9
  <2>5. w3.doc.peer \in Rows("peer") /\ Doc("peer", w3.doc.peer).state # "REVOKED"
    BY <1>1, <1>4, <1>7
  <2> QED
    BY <1>1, <1>3, <1>4, <1>6, <1>7, <1>9, <2>2, <2>3, <2>4, <2>5 DEF IssuesGrant
<1>12. Pending(q)
  <2> SUFFICES ASSUME NEW i \in 1..Len(q)
               PROVE  /\ q[i].kind \in Kinds
                      /\ q[i].kind # "peer"
                      /\ q[i].kind = "grant" => SpendsGrant(q, i) \/ IssuesGrant(q, i)
    BY DEF Pending, Kinds
  <2>1. i = 1 \/ i = 2 \/ i = 3 \/ i = 4
    BY <1>9
  <2> QED
    BY <1>6, <1>9, <1>10, <1>11, <2>1 DEF Kinds
<1> QED
  BY <1>6, <1>8, <1>9, <1>12, DoKeeps

LEMMA RenewKeeps ==
    ASSUME TokensInv, NEW g \in Rows("grant"), NEW c, NEW r, Renew(g, c, r),
           reused' = reused, accepted' = accepted
    PROVE  TokensInv' /\ RevokedStep
<1> DEFINE rec  == Doc("grant", g)
           peer == Doc("peer", rec.peer)
           open == peer.state # "REVOKED" /\ rec.epoch = epoch
<1>1. CASE open /\ rec.state = "CONSUMED" /\ g \in Rows("renew") /\ Doc("renew", g) = r
  <2>1. Do(<<>>)
    BY <1>1 DEF Renew
  <2> QED
    BY <2>1, PlainNone, PlainKeeps
<1>2. CASE open /\ rec.state = "CONSUMED" /\ ~(g \in Rows("renew") /\ Doc("renew", g) = r)
  <2> DEFINE gs == {h \in Family(rec.family) : Doc("grant", h).state # "REVOKED"}
  <2>1. PICK ws \in RevokeGrants(gs) : Do(ws \o <<Answer("reuse", rec.family)>>)
    BY <1>2 DEF Renew
  <2>2. g \in gs /\ rec.family \in Rows("grant")
    BY <1>2 DEF Family, TokensInv, Tables
  <2> QED
    BY <2>1, <2>2, ReuseKeeps
<1>3. CASE ~(open /\ rec.state = "CONSUMED")
  <2>1. /\ peer.state # "REVOKED" /\ rec.state = "ACTIVE"
        /\ Do(<<Put("challenge", c, [Doc("challenge", c) EXCEPT !.consumed = TRUE]),
                Put("grant", g, [rec EXCEPT !.state = "CONSUMED"]),
                Issue(NextId("grant"), peer, rec.family),
                Put("renew", g, r)>>)
    BY <1>3 DEF Renew, Renewable
  <2> QED
    BY <2>1, RotationKeeps
<1> QED
  BY <1>1, <1>2, <1>3

PeerFields == {"key", "claim", "scopes", "role"}

\* d is the row of the peer that reg enrols.
PeerOf(d, reg, id) ==
    /\ OwnId(d, id) /\ PeerFields \subseteq DOMAIN d
    /\ d.key = reg.key /\ d.claim = reg.claim /\ d.scopes = EffectiveScopes(reg)
    /\ d.role = Doc("pair", reg.pair).role
    /\ d.state = "REGISTERED"

\* The writes of an enrolment's rows: the key's source, if it has none yet,
\* and the peer.
LEMMA PeerRows ==
    ASSUME NEW reg, NEW id
    PROVE  LET pw == PeerWrites(reg, id)  m == Len(pw) IN
           /\ IsSeq(pw) /\ m \in Nat /\ m >= 1
           /\ \A i \in 1..(m - 1) : pw[i].kind = "source"
           /\ pw[m].kind = "peer" /\ pw[m].id = id
           /\ PeerOf(pw[m].doc, reg, id)
<1> DEFINE known  == reg.key \in Rows("source")
           source == IF known THEN Doc("source", reg.key) ELSE NextId("source")
           doc == [id |-> id, source |-> source, key |-> reg.key,
                   role |-> Doc("pair", reg.pair).role, claim |-> reg.claim,
                   scopes |-> EffectiveScopes(reg), state |-> "REGISTERED",
                   revision |-> 1]
           s == Put("source", reg.key, source)
           w == Put("peer", id, doc)
           pw == (IF known THEN <<>> ELSE <<s>>) \o <<w>>
<1>1. PeerWrites(reg, id) = pw
  BY DEF PeerWrites
<1>2. PeerOf(doc, reg, id)
  BY DEF PeerOf, OwnId, PeerFields
<1> HIDE DEF doc
<1>3. s.kind = "source" /\ w.kind = "peer" /\ w.id = id /\ w.doc = doc
  BY DEF Put
<1> HIDE DEF s, w, known
<1>4. /\ IsSeq(<<w>>) /\ Len(<<w>>) = 1 /\ <<w>>[1] = w
      /\ IsSeq(<<s>>) /\ Len(<<s>>) = 1 /\ <<s>>[1] = s
  BY OneItem
<1>5. CASE known
  <2>1. pw = <<>> \o <<w>>
    BY <1>5
  <2>2. IsSeq(pw) /\ Len(pw) = 1 /\ pw[1] = w
    <3>1. <<>> \o <<w>> = <<w>>
      OBVIOUS
    <3> QED
      BY <1>4, <2>1, <3>1
  <2> HIDE DEF pw
  <2>3. 1..(Len(pw) - 1) = {}
    BY <2>2
  <2> QED
    BY <1>1, <1>2, <1>3, <2>2, <2>3
<1>6. CASE ~known
  <2>1. pw = <<s>> \o <<w>>
    BY <1>6
  <2>2. IsSeq(pw) /\ Len(pw) = 2 /\ pw[1] = s /\ pw[2] = w
    BY <2>1, TwoItems
  <2> HIDE DEF pw
  <2>3. \A i \in 1..(Len(pw) - 1) : i = 1
    BY <2>2
  <2> QED
    BY <1>1, <1>2, <1>3, <2>2, <2>3
<1> QED
  BY <1>5, <1>6

\* An enrolment writes the peer's rows, up to the m-th item, its first grant
\* and what it consumes, and answers.
Enrols(q, m, reg) ==
    /\ IsSeq(q) /\ m \in Nat /\ m >= 1 /\ Len(q) = m + 4
    /\ \A i \in 1..(m - 1) : q[i].kind = "source"
    /\ q[m].kind = "peer" /\ q[m].id = NextId("peer")
    /\ PeerOf(q[m].doc, reg, NextId("peer"))
    /\ q[m + 1] = Issue(NextId("grant"), q[m].doc, NextId("grant"))
    /\ q[m + 2].kind = "challenge"
    /\ q[m + 3] = Put("pair", reg.pair, [Doc("pair", reg.pair) EXCEPT !.state = "CONSUMED"])
    /\ q[m + 4] = Answer("enrol", [pair |-> reg.pair, peer |-> NextId("peer")])

LEMMA RegisterItems ==
    ASSUME NEW reg, Register(reg)
    PROVE  \E q, m : Do(q) /\ Enrols(q, m, reg)
<1> DEFINE id == NextId("peer")
           g  == NextId("grant")
           pw == PeerWrites(reg, id)
           m  == Len(pw)
           I  == Issue(g, pw[m].doc, g)
           cw == ConsumeWrites(reg)
           c2 == Put("pair", reg.pair, [Doc("pair", reg.pair) EXCEPT !.state = "CONSUMED"])
           A  == Answer("enrol", [pair |-> reg.pair, peer |-> id])
           q  == pw \o <<I>> \o cw \o <<A>>
<1>1. Do(q)
  BY DEF Register
<1>2. /\ IsSeq(pw) /\ m \in Nat /\ m >= 1
      /\ \A i \in 1..(m - 1) : pw[i].kind = "source"
      /\ pw[m].kind = "peer" /\ pw[m].id = id /\ PeerOf(pw[m].doc, reg, id)
  BY PeerRows
<1>3. /\ IsSeq(cw) /\ Len(cw) = 2
      /\ cw[1].kind = "challenge" /\ cw[2] = c2
  <2> DEFINE c1 == Put("challenge", reg.challenge,
                       [Doc("challenge", reg.challenge) EXCEPT !.consumed = TRUE])
  <2>1. cw = <<c1, c2>>
    BY DEF ConsumeWrites
  <2>2. c1.kind = "challenge"
    BY DEF Put
  <2> HIDE DEF c1, c2, cw
  <2>3. <<c1, c2>> \in Seq({c1, c2})
    OBVIOUS
  <2> QED
    BY <2>1, <2>2, <2>3, SeqIsSeq
<1> HIDE DEF pw, I, cw, c2, A
<1>4. /\ IsSeq(<<I>>) /\ Len(<<I>>) = 1 /\ <<I>>[1] = I
      /\ IsSeq(<<A>>) /\ Len(<<A>>) = 1 /\ <<A>>[1] = A
  BY OneItem
<1>5. /\ IsSeq(q) /\ Len(q) = m + 4
      /\ \A i \in 1..m : q[i] = pw[i]
      /\ q[m + 1] = I /\ q[m + 2] = cw[1] /\ q[m + 3] = cw[2] /\ q[m + 4] = A
  <2> DEFINE a == pw \o <<I>>
             b == a \o cw
  <2>1. /\ IsSeq(a) /\ Len(a) = m + 1 /\ \A i \in 1..m : a[i] = pw[i]
        /\ a[m + 1] = I
    BY <1>2, <1>4, BothItems
  <2> HIDE DEF a
  <2>2. /\ IsSeq(b) /\ Len(b) = Len(a) + Len(cw)
        /\ \A i \in 1..Len(a) : b[i] = a[i]
        /\ \A i \in 1..Len(cw) : b[Len(a) + i] = cw[i]
    <3>1. IsSeq(a) /\ IsSeq(cw)
      BY <1>3, <2>1
    <3>2. IsSeq(b) /\ Len(b) = Len(a) + Len(cw)
      BY <3>1, BothItems
    <3>3. \A i \in 1..Len(a) : b[i] = a[i]
      BY <3>1, BothItems
    <3>4. \A i \in 1..Len(cw) : b[Len(a) + i] = cw[i]
      BY <3>1, BothItems
    <3> QED
      BY <3>2, <3>3, <3>4
  <2>3. IsSeq(b) /\ Len(b) = m + 3 /\ \A i \in 1..(m + 1) : b[i] = a[i]
    BY <1>2, <1>3, <2>1, <2>2
  <2>4. b[m + 2] = cw[1] /\ b[m + 3] = cw[2]
    <3>1. b[(m + 1) + 1] = cw[1] /\ b[(m + 1) + 2] = cw[2]
      <4>1. 1 \in 1..2 /\ 2 \in 1..2
        OBVIOUS
      <4> QED
        BY <1>3, <2>1, <2>2, <4>1
    <3>2. (m + 1) + 1 = m + 2 /\ (m + 1) + 2 = m + 3
      BY <1>2
    <3> QED
      BY <3>1, <3>2
  <2> HIDE DEF b
  <2>5. q = b \o <<A>>
    BY DEF a, b
  <2> HIDE DEF q
  <2>6. IsSeq(q) /\ Len(q) = m + 4 /\ \A i \in 1..(m + 3) : q[i] = b[i]
    BY <1>2, <1>4, <2>3, <2>5, BothItems
  <2>7. q[m + 4] = A
    <3>1. \A i \in 1..1 : q[(m + 3) + i] = <<A>>[i]
      BY <1>4, <2>3, <2>5, BothItems
    <3>2. (m + 3) + 1 = m + 4
      BY <1>2
    <3> QED
      BY <1>4, <3>1, <3>2
  <2>8. \A i \in 1..m : q[i] = pw[i]
    BY <1>2, <2>1, <2>3, <2>6
  <2>9. q[m + 1] = I /\ q[m + 2] = cw[1] /\ q[m + 3] = cw[2]
    BY <1>2, <2>1, <2>3, <2>4, <2>6
  <2> QED
    BY <2>6, <2>7, <2>8, <2>9
<1>6. Enrols(q, m, reg)
  <2>1. q[m] = pw[m]
    BY <1>2, <1>5
  <2>2. \A i \in 1..(m - 1) : q[i] = pw[i]
    BY <1>2, <1>5
  <2> HIDE DEF q, m
  <2> QED
    BY <1>2, <1>3, <1>5, <2>1, <2>2 DEF Enrols, I, c2, A
<1> QED
  BY <1>1, <1>6


LEMMA RegisterKeeps ==
    ASSUME TokensInv, NEW reg, Register(reg), reused' = reused, accepted' = accepted
    PROVE  TokensInv' /\ RevokedStep
<1> DEFINE id == NextId("peer")
           g  == NextId("grant")
<1>1. PICK q, m : Do(q) /\ Enrols(q, m, reg)
  BY RegisterItems
<1> DEFINE I == q[m + 1]
<1>2. /\ IsSeq(q) /\ m \in Nat /\ m >= 1 /\ Len(q) = m + 4
      /\ \A i \in 1..(m - 1) : q[i].kind = "source"
      /\ q[m].kind = "peer" /\ q[m].id = id /\ OwnId(q[m].doc, id)
      /\ q[m].doc.state = "REGISTERED"
  BY <1>1 DEF Enrols, PeerOf
<1>3. g \notin Rows("grant") /\ g = NextId("grant")
  BY FreshGrant DEF TokensInv
<1>4. /\ I.kind = "grant" /\ I.id = g
      /\ I.doc.state = "ACTIVE" /\ I.doc.family = g /\ I.doc.peer = q[m].doc.id
      /\ GrantFields \subseteq DOMAIN I.doc
  BY <1>1 DEF Enrols, Issue, Put, GrantFields
<1>5. /\ q[m + 2].kind = "challenge" /\ q[m + 3].kind = "pair"
      /\ q[m + 4].kind = "answer" /\ q[m + 4].id = "enrol"
  BY <1>1 DEF Enrols, Put, Answer
<1> HIDE DEF id, g, I
<1>6. ASSUME NEW i \in 1..m
      PROVE  /\ q[i].kind \in {"source", "peer"}
             /\ q[i].kind = "peer" => /\ i = m /\ q[i].id = id /\ OwnId(q[i].doc, id)
                                      /\ q[i].doc.state = "REGISTERED"
  <2>1. CASE i = m
    BY <1>2, <2>1
  <2>2. CASE i # m
    <3>1. i \in 1..(m - 1)
      BY <1>2, <2>2
    <3> QED
      BY <1>2, <3>1
  <2> QED
    BY <2>1, <2>2
<1>7. IssuesGrant(q, m + 1)
  <2>1. Family(g) = {}
    BY <1>3 DEF Family, TokensInv, Tables
  <2>2. g \notin reused
    BY <1>3 DEF TokensInv, Contained
  <2>3. WrittenBefore(q, m + 1, "peer", I.doc.peer)
    <3>1. m \in 1..((m + 1) - 1)
      BY <1>2
    <3>2. q[m].kind = "peer" /\ q[m].id = I.doc.peer
      BY <1>2, <1>4 DEF OwnId
    <3> QED
      BY <3>1, <3>2 DEF WrittenBefore
  <2>4. \A j \in 1..((m + 1) - 1) : q[j].kind = "peer" => q[j].doc.state # "REVOKED"
    BY <1>2, <1>6
  <2>5. \A j \in ((m + 1) + 1)..Len(q) : q[j].kind # "grant"
    <3>1. \A j \in ((m + 1) + 1)..Len(q) : j = m + 2 \/ j = m + 3 \/ j = m + 4
      BY <1>2
    <3> QED
      BY <1>5, <3>1
  <2> QED
    BY <1>3, <1>4, <2>1, <2>2, <2>3, <2>4, <2>5 DEF IssuesGrant, I
<1>8. Pending(q)
  <2> SUFFICES ASSUME NEW i \in 1..Len(q)
               PROVE  /\ q[i].kind \in Kinds \union {"answer"}
                      /\ q[i].kind = "peer" => OwnId(q[i].doc, q[i].id)
                      /\ q[i].kind = "grant" => SpendsGrant(q, i) \/ IssuesGrant(q, i)
                      /\ q[i].kind = "answer" => q[i].id = "enrol"
    BY DEF Pending
  <2>1. i \in 1..m \/ i = m + 1 \/ i = m + 2 \/ i = m + 3 \/ i = m + 4
    BY <1>2
  <2>2. CASE i \in 1..m
    BY <1>6, <2>2 DEF Kinds
  <2>3. CASE i = m + 1
    BY <1>4, <1>7, <2>3 DEF Kinds, I
  <2>4. CASE i = m + 2 \/ i = m + 3 \/ i = m + 4
    BY <1>5, <2>4 DEF Kinds
  <2> QED
    BY <2>1, <2>2, <2>3, <2>4
<1>9. q[1].kind # "answer"
  <2>1. 1 \in 1..m
    BY <1>2
  <2> QED
    BY <1>6, <2>1
<1> QED
  BY <1>1, <1>2, <1>8, <1>9, DoKeeps

\* A signed request: its nonce is spent, then it may be let in.
LEMMA AuthenticateKeeps ==
    ASSUME TokensInv, NEW x, x.grant \in Rows("grant"), NEW by, Authenticate(x, by),
           reused' = reused, accepted' = accepted
    PROVE  TokensInv' /\ RevokedStep
<1> DEFINE rec == Doc("grant", x.grant)
           w == Put("nonce", <<rec.peer, x.nonce>>, rec.access)
           A == Answer("accept", x)
<1>1. /\ Doc("peer", rec.peer).state # "REVOKED"
      /\ Do(<<w>> \o <<>>) \/ Do(<<w>> \o <<A>>)
  BY DEF Authenticate, LookupAccess
<1>2. w.kind = "nonce" /\ A.kind = "answer" /\ A.id = "accept" /\ A.doc = x
  BY DEF Put, Answer
<1> HIDE DEF w, A
<1>3. CASE Do(<<w>> \o <<>>)
  <2>1. Plain(<<w>>)
    BY <1>2, OneItem DEF Plain, Kinds
  <2>2. Plain(<<w>> \o <<>>)
    BY <2>1, PlainNone, PlainBoth
  <2> QED
    BY <1>3, <2>2, PlainKeeps
<1>4. CASE Do(<<w>> \o <<A>>)
  <2> DEFINE q == <<w>> \o <<A>>
  <2>1. IsSeq(q) /\ Len(q) = 2 /\ q[1] = w /\ q[2] = A
    BY TwoItems
  <2>2. Do(q)
    BY <1>4
  <2> HIDE DEF q
  <2>3. \A i \in 1..Len(q) : i = 1 \/ i = 2
    BY <2>1
  <2>4. AnswersAccept(q, 2)
    <3>1. \A j \in 1..Len(q) : q[j].kind \notin {"grant", "peer"}
      BY <1>2, <2>1, <2>3
    <3> QED
      BY <1>1, <1>2, <2>1, <3>1 DEF AnswersAccept
  <2>5. Pending(q)
    <3> SUFFICES ASSUME NEW i \in 1..Len(q)
                 PROVE  /\ q[i].kind \in {"nonce", "answer"}
                        /\ q[i].kind = "answer" => q[i].id = "accept" /\ AnswersAccept(q, i)
      BY DEF Pending, Kinds
    <3> QED
      BY <1>2, <2>1, <2>3, <2>4
  <2>6. q[1].kind # "answer"
    BY <1>2, <2>1
  <2> QED
    BY <2>1, <2>2, <2>5, <2>6, DoKeeps
<1> QED
  BY <1>1, <1>3, <1>4

-----------------------------------------------------------------------------
(* The handler's later steps, and the whole step. *)

LEMMA CommitKeeps ==
    ASSUME TokensInv, CommitDoc
    PROVE  TokensInv' /\ RevokedStep
<1>1. /\ todo # <<>> /\ Head(todo).kind # "answer"
      /\ db' = Committed(Head(todo)) /\ todo' = Tail(todo)
      /\ reused' = reused /\ accepted' = accepted
  BY DEF CommitDoc, Idle, history
<1>2. IsSeq(todo) /\ Pending(todo) /\ Tables /\ Contained
  BY DEF TokensInv
<1>3. Head(todo) = todo[1]
  BY <1>1, <1>2, TailItems
<1> QED
  BY <1>1, <1>2, <1>3, AnyCommit DEF RevokedStep

\* The answer to a reuse finds the family revoked, and the one that lets a
\* request in finds its peer unrevoked.
LEMMA DeliverKeeps ==
    ASSUME TokensInv, Deliver
    PROVE  TokensInv' /\ RevokedStep
<1> DEFINE a == todo[1]
<1>1. /\ a.kind = "answer" /\ 1 \in 1..Len(todo)
      /\ reused' = IF a.id = "reuse" THEN reused \union {a.doc} ELSE reused
      /\ accepted' = IF a.id # "accept" THEN accepted
                     ELSE With(accepted, a.doc,
                               (IF a.doc \in DOMAIN accepted THEN accepted[a.doc] ELSE 0) + 1)
      /\ todo' = <<>> /\ db' = db
  <2>1. IsSeq(todo) /\ todo # <<>>
    BY DEF TokensInv, Deliver, Idle
  <2>2. Head(todo) = todo[1] /\ 1 \in 1..Len(todo)
    BY <2>1, TailItems
  <2> QED
    BY <2>2 DEF Deliver
<1>2. \A i, kind, id : i = 1 => ~WrittenBefore(todo, i, kind, id)
  BY DEF WrittenBefore
<1>3. a.id = "reuse" =>
         /\ a.doc \in Rows("grant")
         /\ \A h \in Family(a.doc) : Doc("grant", h).state = "REVOKED"
  <2>1. a.id = "reuse" => AnswersReuse(todo, 1)
    BY <1>1 DEF TokensInv, Pending
  <2> QED
    BY <1>2, <2>1 DEF AnswersReuse
<1>4. a.id = "accept" => Doc("peer", Doc("grant", a.doc.grant).peer).state # "REVOKED"
  <2>1. a.id = "accept" => AnswersAccept(todo, 1)
    BY <1>1 DEF TokensInv, Pending
  <2> QED
    BY <2>1 DEF AnswersAccept
<1> HIDE DEF a
<1>5. Tables' /\ Rows("grant")' = Rows("grant")
  BY <1>1 DEF TokensInv, Tables, Rows, Doc
<1>6. Contained'
  BY <1>1, <1>3 DEF TokensInv, Contained, Rows, Doc, Family
<1>7. IsSeq(todo)' /\ Pending(todo)'
  <2>1. IsSeq(<<>>)' /\ Pending(<<>>)'
    BY NoItems DEF IsSeq, Pending
  <2> QED
    BY <1>1, <2>1
<1>8. \A x \in DOMAIN accepted' :
         accepted'[x] # (IF x \in DOMAIN accepted THEN accepted[x] ELSE 0) =>
             a.id = "accept" /\ x = a.doc
  BY <1>1 DEF With
<1> QED
  BY <1>4, <1>5, <1>6, <1>7, <1>8 DEF TokensInv, RevokedStep

LEMMA TokensStep ==
    ASSUME TokensInv, [Next]_vars
    PROVE  TokensInv' /\ (RevokedStep \/ UNCHANGED vars)
<1>1. CASE Call /\ UNCHANGED history
  <2>1. reused' = reused /\ accepted' = accepted
    BY <1>1 DEF history
  <2>2. CASE \E reg \in Registrations : Register(reg)
    BY <2>1, <2>2, RegisterKeeps
  <2>3. CASE \E g \in Rows("grant"), c \in Rows("challenge"), r \in Requests : Renew(g, c, r)
    BY <2>1, <2>3, RenewKeeps
  <2>4. CASE \E p \in Rows("peer") : RevokePeer(p)
    BY <2>1, <2>4, RevokePeerKeeps
  <2>5. CASE \E g \in Rows("grant"), n \in Nonces, i \in 0..now, by \in Keys :
                 Authenticate([grant |-> g, nonce |-> n, issued |-> i], by)
    <3>1. PICK g \in Rows("grant"), n \in Nonces, i \in 0..now, by \in Keys :
              Authenticate([grant |-> g, nonce |-> n, issued |-> i], by)
      BY <2>5
    <3> QED
      BY <2>1, <3>1, AuthenticateKeeps
  <2> QED
    BY <1>1, <2>1, <2>2, <2>3, <2>4, <2>5, PlainCalls DEF Call
<1>2. CASE \E p \in Rows("pair"), k \in Keys, c \in DOMAIN Claims, scopes \in ApproveScopes :
               Approve(p, <<k, c>>, scopes)
  <2>1. reused' = reused /\ accepted' = accepted
    BY <1>2 DEF Approve
  <2> QED
    BY <1>2, <2>1, PlainCalls
<1>3. CASE CommitDoc
  BY <1>3, CommitKeeps
<1>4. CASE Deliver
  BY <1>4, DeliverKeeps
<1>5. CASE CommitFails \/ Reboot \/ Tick
  <2>1. db' = db /\ (todo' = todo \/ todo' = <<>>) /\ reused' = reused /\ accepted' = accepted
    BY <1>5 DEF CommitFails, Reboot, Tick, history
  <2> QED
    BY <2>1, NoCommit DEF RevokedStep
<1>6. CASE UNCHANGED vars
  <2>1. db' = db /\ todo' = todo /\ reused' = reused
    BY <1>6 DEF vars, history
  <2> QED
    BY <1>6, <2>1, NoCommit
<1> QED
  BY <1>1, <1>2, <1>3, <1>4, <1>5, <1>6 DEF Next

LEMMA TokensInit == Init => TokensInv
<1> SUFFICES ASSUME Init PROVE TokensInv
  OBVIOUS
<1>1. /\ db = [k \in Kinds |-> <<>>] /\ todo = <<>> /\ reused = {}
  BY DEF Init
<1>2. Rows("grant") = {} /\ Rows("peer") = {}
  BY <1>1 DEF Rows, Kinds
<1>3. Tables
  <2>1. IsFiniteSet({}) /\ Cardinality({}) = 0 /\ 1..0 = {}
    BY FS_EmptySet
  <2> QED
    BY <1>1, <1>2, <2>1 DEF Tables
<1>4. Contained
  BY <1>1, <1>2 DEF Contained
<1>5. IsSeq(todo) /\ Pending(todo)
  BY <1>1, NoItems DEF Pending
<1> QED
  BY <1>3, <1>4, <1>5 DEF TokensInv

LEMMA TokensSafe == Spec => []TokensInv
<1>1. Init => TokensInv
  BY TokensInit
<1>2. TokensInv /\ [Next]_vars => TokensInv'
  BY TokensStep
<1> QED
  BY <1>1, <1>2, PTL DEF Spec

-----------------------------------------------------------------------------
(* Families and revocation. *)

\* A family of refresh tokens never has two grants that can be used, and none
\* once the reuse of a spent token has been answered, whatever commits failed
\* and whenever the daemon was restarted (tokens.ts renew, revokeFamily).
THEOREM FamiliesContained == Spec => []FamilyContained
<1>1. TokensInv => FamilyContained
  <2> SUFFICES ASSUME TokensInv, NEW g \in Rows("grant")
               PROVE  LET f == Doc("grant", g).family IN
                      /\ Cardinality({h \in Family(f) : Doc("grant", h).state = "ACTIVE"}) <= 1
                      /\ f \in reused => Doc("grant", g).state = "REVOKED"
    BY DEF FamilyContained
  <2> DEFINE f == Doc("grant", g).family
             A == {h \in Family(f) : Doc("grant", h).state = "ACTIVE"}
  <2>1. \A h, k \in A : h = k
    BY DEF TokensInv, Contained, Family
  <2>2. f \in reused => Doc("grant", g).state = "REVOKED"
    BY DEF TokensInv, Contained
  <2> HIDE DEF A
  <2>3. Cardinality(A) <= 1
    <3>1. CASE A = {}
      BY <3>1, FS_EmptySet
    <3>2. CASE A # {}
      <4>1. PICK h : A = {h}
        BY <2>1, <3>2
      <4>2. Cardinality({h}) = 1
        BY FS_Singleton
      <4> QED
        BY <4>1, <4>2
    <3> QED
      BY <3>1, <3>2
  <2> QED
    BY <2>2, <2>3 DEF A
<1> QED
  BY <1>1, TokensSafe, PTL

\* A peer whose revocation has begun gets no new grant and is let in no more,
\* even if the commits that revoke its grants fail or never come
\* (registry.revoke writes the peer's row before the grants').
THEOREM RevokedStaysOut == Spec => RevokedOut
<1>1. TokensInv /\ [Next]_vars => [RevokedStep]_vars
  BY TokensStep
<1>2. [RevokedStep]_vars =>
         [/\ \A g \in Rows("grant")' \ Rows("grant") :
                Doc("peer", Doc("grant", g)'.peer).state # "REVOKED"
          /\ \A q \in DOMAIN accepted' :
                accepted'[q] # (IF q \in DOMAIN accepted THEN accepted[q] ELSE 0) =>
                    Doc("peer", Doc("grant", q.grant).peer).state # "REVOKED"]_vars
  BY DEF RevokedStep
<1> QED
  BY <1>1, <1>2, TokensSafe, PTL DEF Spec, RevokedOut


-----------------------------------------------------------------------------
(* The algebra of the scopes. *)

\* x is one resource of the scope s.
GrantOf(s, x) ==
    \/ \E v \in s.topics : x = <<s.permission, "topics", v>>
    \/ \E v \in s.runs : x = <<s.permission, "runs", v>>
    \/ \E v \in s.products : x = <<s.permission, "products", v>>

LEMMA GrantOfScope ==
    ASSUME NEW S, NEW x
    PROVE  x \in Grants(S) <=> \E s \in S : GrantOf(s, x)
  BY DEF Grants, GrantOf

\* A scope within others grants no more than they do.
LEMMA WithinGrants ==
    ASSUME NEW S, NEW T, \A s \in S : ScopeWithin(s, T)
    PROVE  Grants(S) \subseteq Grants(T)
<1> SUFFICES ASSUME NEW x \in Grants(S) PROVE x \in Grants(T)
  OBVIOUS
<1>1. PICK s \in S : GrantOf(s, x)
  BY GrantOfScope
<1>2. PICK o \in T : /\ o.permission = s.permission /\ s.topics \subseteq o.topics
                     /\ s.runs \subseteq o.runs /\ s.products \subseteq o.products
  BY DEF ScopeWithin
<1>3. GrantOf(o, x)
  BY <1>1, <1>2 DEF GrantOf
<1> QED
  BY <1>2, <1>3, GrantOfScope

\* The policy only takes away, and leaves the permissions as they are.
LEMMA PolicyGrants ==
    ASSUME NEW S, NEW T, NEW x \in Grants(IntersectPolicy(S, T))
    PROVE  x \in Grants(S) /\ x \in Grants(T)
<1>1. PICK s \in IntersectPolicy(S, T) : GrantOf(s, x)
  BY GrantOfScope
<1>2. PICK q \in S \X T :
         /\ q[1].permission = q[2].permission
         /\ s = Scope(q[1].permission, q[1].topics \intersect q[2].topics,
                      q[1].runs \intersect q[2].runs, q[1].products \intersect q[2].products)
  BY DEF IntersectPolicy
<1>3. /\ q[1] \in S /\ q[2] \in T
      /\ s.permission = q[1].permission /\ s.permission = q[2].permission
      /\ s.topics = q[1].topics \intersect q[2].topics
      /\ s.runs = q[1].runs \intersect q[2].runs
      /\ s.products = q[1].products \intersect q[2].products
  BY <1>2 DEF Scope
<1>4. GrantOf(q[1], x) /\ GrantOf(q[2], x)
  BY <1>1, <1>3 DEF GrantOf
<1> QED
  BY <1>3, <1>4, GrantOfScope

\* The capabilities only take away, too, and bound what may be emitted and
\* whether approvals may be asked for.
LEMMA CapabilityGrants ==
    ASSUME NEW S, NEW T, NEW cap, NEW x \in Grants(BindCapabilities(IntersectPolicy(S, T), cap))
    PROVE  /\ x \in Grants(IntersectPolicy(S, T))
           /\ x[1] = "emit" /\ x[2] = "topics" => x[3] \in cap.emit
           /\ x[1] = "approvals" => cap.request_approvals
<1> DEFINE I == IntersectPolicy(S, T)
<1>1. PICK s \in BindCapabilities(I, cap) : GrantOf(s, x)
  BY GrantOfScope
<1>2. PICK o \in I :
         /\ o.permission = "approvals" => cap.request_approvals
         /\ s = CASE o.permission = "emit"    -> [o EXCEPT !.topics = o.topics \intersect cap.emit]
                  [] o.permission = "consume" -> [o EXCEPT !.topics = o.topics \intersect cap.consume]
                  [] OTHER -> o
  BY DEF BindCapabilities
<1>3. PICK p, t, r, y : o = Scope(p, t, r, y)
  BY DEF IntersectPolicy
<1> HIDE DEF I
<1>4. /\ s.permission = o.permission /\ s.runs = o.runs /\ s.products = o.products
      /\ s.topics \subseteq o.topics
      /\ o.permission = "emit" => s.topics \subseteq cap.emit
  <2>1. CASE o.permission = "emit"
    BY <1>2, <1>3, <2>1 DEF Scope
  <2>2. CASE o.permission = "consume"
    BY <1>2, <1>3, <2>2 DEF Scope
  <2>3. CASE o.permission \notin {"emit", "consume"}
    BY <1>2, <2>3
  <2> QED
    BY <2>1, <2>2, <2>3
<1>5. x \in Grants(I)
  <2>1. GrantOf(o, x)
    BY <1>1, <1>4 DEF GrantOf
  <2> QED
    BY <1>2, <2>1, GrantOfScope
<1>6. x[1] = s.permission /\ (x[2] = "topics" => x[3] \in s.topics)
  BY <1>1 DEF GrantOf
<1> QED
  BY <1>2, <1>4, <1>5, <1>6 DEF I

\* Neither gives a permission the approval does not have.
LEMMA SamePermissions ==
    ASSUME NEW S, NEW T, NEW cap, NEW s \in BindCapabilities(IntersectPolicy(S, T), cap)
    PROVE  \E o \in S : o.permission = s.permission
<1>1. PICK o \in IntersectPolicy(S, T) :
         s = CASE o.permission = "emit"    -> [o EXCEPT !.topics = o.topics \intersect cap.emit]
               [] o.permission = "consume" -> [o EXCEPT !.topics = o.topics \intersect cap.consume]
               [] OTHER -> o
  BY DEF BindCapabilities
<1>2. PICK q \in S \X T :
         o = Scope(q[1].permission, q[1].topics \intersect q[2].topics,
                   q[1].runs \intersect q[2].runs, q[1].products \intersect q[2].products)
  BY DEF IntersectPolicy
<1>3. q[1] \in S /\ o.permission = q[1].permission
  BY <1>2 DEF Scope
<1>4. s.permission = o.permission
  <2>1. CASE o.permission = "emit"
    BY <1>1, <1>2, <2>1 DEF Scope
  <2>2. CASE o.permission = "consume"
    BY <1>1, <1>2, <2>2 DEF Scope
  <2>3. CASE o.permission \notin {"emit", "consume"}
    BY <1>1, <2>3
  <2> QED
    BY <2>1, <2>2, <2>3
<1> QED
  BY <1>3, <1>4

-----------------------------------------------------------------------------
(* The inductive invariant of an enrolment. *)

PairFields == {"pair", "role", "scopes", "state", "approved"}

\* The scopes of a peer that claimed c, under approval a.
EnrolledScopes(a, c) == BindCapabilities(IntersectPolicy(a.scopes, Policy), Claims[c])

\* doc is the peer that the last approval of pair p is for.
PeerMatches(doc, p) ==
    /\ <<doc.key, doc.claim>> = approvals[p].proposal
    /\ doc.scopes = EnrolledScopes(approvals[p], doc.claim)
    /\ doc.role = Doc("pair", p).role

\* The invitations are numbered in the order they were made.  An approval of
\* one is the last, and within what was offered.
PairTable ==
    /\ IsFiniteSet(Rows("pair")) /\ Rows("pair") = 1..Cardinality(Rows("pair"))
    /\ \A p \in Rows("pair") :
          /\ PairFields \subseteq DOMAIN Doc("pair", p) /\ Doc("pair", p).pair = p
          /\ Doc("pair", p).approved # None =>
                p \in DOMAIN approvals /\ Doc("pair", p).approved = approvals[p]
    /\ \A p \in DOMAIN approvals :
          /\ p \in Rows("pair")
          /\ \A s \in approvals[p].scopes :
                /\ ScopeWithin(s, Doc("pair", p).scopes)
                /\ CheckScopeAdmission(s, Doc("pair", p).role, AllowOperator)

\* So are the peers.
PeerTable ==
    /\ IsFiniteSet(Rows("peer")) /\ Rows("peer") = 1..Cardinality(Rows("peer"))
    /\ \A p \in Rows("peer") : PeerFields \subseteq DOMAIN Doc("peer", p)

\* What enrolled a peer is consumed, so nobody can approve it again, and the
\* peer is the one that was approved.
EnrolledTable ==
    /\ \A e \in enrolled :
          /\ e.pair \in DOMAIN approvals /\ Doc("pair", e.pair).state = "CONSUMED"
          /\ e.peer \in Rows("peer") /\ PeerMatches(Doc("peer", e.peer), e.pair)
    /\ \A e, f \in enrolled : e.pair = f.pair => e = f

\* new is old after a move other than a proposal or an approval.
KeepsPair(new, old) ==
    /\ PairFields \subseteq DOMAIN new
    /\ new.pair = old.pair /\ new.role = old.role /\ new.scopes = old.scopes
    /\ new.approved = old.approved
    /\ old.state = "CONSUMED" => new.state = "CONSUMED"

\* The i-th item of q moves an invitation; after a consumption none does.
MovesPair(q, i) ==
    /\ q[i].id \in Rows("pair")
    /\ KeepsPair(q[i].doc, Doc("pair", q[i].id))
    /\ \A j \in 1..(i - 1) : q[j].kind = "pair" => q[j].doc.state # "CONSUMED"

SamePeer(new, old) ==
    new.key = old.key /\ new.claim = old.claim /\ new.scopes = old.scopes /\ new.role = old.role

\* The i-th item of q makes a peer or moves one, and is the only one to.
WritesPeer(q, i) ==
    /\ PeerFields \subseteq DOMAIN q[i].doc
    /\ \/ q[i].id = NextId("peer")
       \/ /\ q[i].id \in Rows("peer")
          /\ SamePeer(q[i].doc, Doc("peer", q[i].id))
    /\ \A j \in 1..Len(q) : j # i => q[j].kind # "peer"

\* When the i-th item of q answers an enrolment, its invitation is consumed
\* and has enrolled nobody else, and its peer is the one that was approved.
AnswersEnrol(q, i) ==
    LET e == q[i].doc IN
    /\ e.pair \in DOMAIN approvals
    /\ \A f \in enrolled : f.pair # e.pair
    /\ Doc("pair", e.pair).state = "CONSUMED" \/ WrittenBefore(q, i, "pair", e.pair)
    /\ \A j \in 1..(i - 1) : q[j].kind = "pair" => q[j].doc.state = "CONSUMED"
    /\ \/ e.peer \in Rows("peer") /\ PeerMatches(Doc("peer", e.peer), e.pair)
       \/ WrittenBefore(q, i, "peer", e.peer)
    /\ \A j \in 1..(i - 1) : q[j].kind = "peer" =>
          q[j].id = e.peer /\ PeerMatches(q[j].doc, e.pair)

Enrolling(q) ==
    \A i \in 1..Len(q) :
        /\ q[i].kind = "pair" => MovesPair(q, i)
        /\ q[i].kind = "peer" => WritesPeer(q, i)
        /\ q[i].kind = "answer" /\ q[i].id = "enrol" => AnswersEnrol(q, i)

EnrolInv == PairTable /\ PeerTable /\ EnrolledTable /\ Enrolling(todo)

-----------------------------------------------------------------------------
(* The first item of q is committed and the rest of q is left. *)

\* An invitation moves.
LEMMA PairCommit ==
    ASSUME TokensInv, PairTable, PeerTable, EnrolledTable,
           NEW q, IsSeq(q), q # <<>>, Enrolling(q), q[1].kind = "pair",
           db' = Committed(q[1]), todo' = Tail(q), UNCHANGED <<approvals, enrolled>>
    PROVE  EnrolInv'
<1> DEFINE w == q[1]
           n == Len(Tail(q))
<1>1. w.id \in Rows("pair") /\ KeepsPair(w.doc, Doc("pair", w.id))
  <2>1. 1 \in 1..Len(q)
    BY TailItems
  <2> QED
    BY <2>1 DEF Enrolling, MovesPair
<1>2. /\ Rows("pair")' = Rows("pair")
      /\ Doc("pair", w.id)' = w.doc
      /\ \A p \in Rows("pair") : p # w.id => Doc("pair", p)' = Doc("pair", p)
      /\ Rows("peer")' = Rows("peer") /\ \A p : Doc("peer", p)' = Doc("peer", p)
  <2>1. "pair" \in Kinds /\ "peer" \in Kinds \ {w.kind} /\ w.kind = "pair"
    BY DEF Kinds
  <2>2. /\ Rows(w.kind)' = Rows(w.kind) \union {w.id}
        /\ Doc(w.kind, w.id)' = w.doc
        /\ \A id \in Rows(w.kind) : id # w.id => Doc(w.kind, id)' = Doc(w.kind, id)
        /\ \A k \in Kinds \ {w.kind} : Rows(k)' = Rows(k) /\ \A id : Doc(k, id)' = Doc(k, id)
    BY <2>1, CommittedDocs DEF TokensInv, Tables
  <2> QED
    BY <1>1, <2>1, <2>2
<1>3. ASSUME NEW i \in 1..n
      PROVE  /\ i + 1 \in 1..Len(q) /\ Tail(q)[i] = q[i + 1] /\ 1 \in 1..((i + 1) - 1)
             /\ \A j \in 1..(i - 1) : j + 1 \in 1..((i + 1) - 1) /\ Tail(q)[j] = q[j + 1]
             /\ \A j \in 1..n : j + 1 \in 1..Len(q) /\ Tail(q)[j] = q[j + 1]
  BY TailPlaces
<1>4. ASSUME NEW i \in 1..n, NEW kind, NEW id, WrittenBefore(q, i + 1, kind, id),
             q[1].kind # kind \/ q[1].id # id
      PROVE  WrittenBefore(Tail(q), i, kind, id)
  BY <1>4, StillBefore
<1> HIDE DEF w, n
<1>5. /\ \A p \in Rows("pair") :
            /\ PairFields \subseteq DOMAIN Doc("pair", p)' /\ Doc("pair", p)'.pair = p
            /\ Doc("pair", p)'.role = Doc("pair", p).role
            /\ Doc("pair", p)'.scopes = Doc("pair", p).scopes
            /\ Doc("pair", p)'.approved = Doc("pair", p).approved
            /\ Doc("pair", p).state = "CONSUMED" => Doc("pair", p)'.state = "CONSUMED"
  BY <1>1, <1>2 DEF PairTable, KeepsPair
<1>6. PairTable' /\ PeerTable'
  BY <1>2, <1>5 DEF PairTable, PeerTable
<1>7. ASSUME NEW d, NEW p \in Rows("pair"), PeerMatches(d, p)
      PROVE  PeerMatches(d, p)'
  BY <1>5, <1>7 DEF PeerMatches, EnrolledScopes
<1>8. \A p \in DOMAIN approvals : p \in Rows("pair")
  BY DEF PairTable
<1>9. EnrolledTable'
  <2>1. ASSUME NEW e \in enrolled
        PROVE  /\ e.pair \in DOMAIN approvals' /\ Doc("pair", e.pair)'.state = "CONSUMED"
               /\ e.peer \in Rows("peer")' /\ PeerMatches(Doc("peer", e.peer), e.pair)'
    <3>1. /\ e.pair \in DOMAIN approvals /\ Doc("pair", e.pair).state = "CONSUMED"
          /\ e.peer \in Rows("peer") /\ PeerMatches(Doc("peer", e.peer), e.pair)
      BY DEF EnrolledTable
    <3>2. PICK d : d = Doc("peer", e.peer)
      OBVIOUS
    <3>3. PeerMatches(d, e.pair)'
      BY <1>7, <1>8, <3>1, <3>2
    <3> QED
      BY <1>2, <1>5, <1>8, <3>1, <3>2, <3>3 DEF PeerMatches, EnrolledScopes
  <2> QED
    BY <2>1 DEF EnrolledTable
<1>10. ASSUME NEW i \in 1..n, MovesPair(q, i + 1)
       PROVE  MovesPair(Tail(q), i)'
  <2> DEFINE v == q[i + 1]
  <2>1. /\ v.id \in Rows("pair") /\ KeepsPair(v.doc, Doc("pair", v.id))
        /\ w.doc.state # "CONSUMED"
    BY <1>3, <1>10 DEF MovesPair, w
  <2>2. \A j \in 1..(i - 1) : Tail(q)[j].kind = "pair" => Tail(q)[j].doc.state # "CONSUMED"
    BY <1>3, <1>10 DEF MovesPair
  <2>3. Tail(q)[i] = v
    BY <1>3
  <2> HIDE DEF v
  <2>4. KeepsPair(v.doc, Doc("pair", v.id))'
    BY <1>1, <1>2, <2>1 DEF KeepsPair
  <2> QED
    BY <1>2, <2>1, <2>2, <2>3, <2>4 DEF MovesPair
<1>11. ASSUME NEW i \in 1..n, WritesPeer(q, i + 1)
       PROVE  WritesPeer(Tail(q), i)'
  <2> DEFINE v == q[i + 1]
  <2>1. /\ PeerFields \subseteq DOMAIN v.doc
        /\ v.id = NextId("peer") \/ (v.id \in Rows("peer") /\ SamePeer(v.doc, Doc("peer", v.id)))
    BY <1>11 DEF WritesPeer
  <2>2. \A j \in 1..n : j # i => Tail(q)[j].kind # "peer"
    BY <1>3, <1>11 DEF WritesPeer
  <2>3. Tail(q)[i] = v
    BY <1>3
  <2>4. NextId("peer")' = NextId("peer")
    BY <1>2 DEF NextId
  <2> HIDE DEF v
  <2>5. v.id = NextId("peer")' \/ (v.id \in Rows("peer")' /\ SamePeer(v.doc, Doc("peer", v.id))')
    BY <1>2, <2>1, <2>4 DEF SamePeer
  <2> QED
    BY <2>1, <2>2, <2>3, <2>5 DEF WritesPeer, n
<1>12. ASSUME NEW i \in 1..n, AnswersEnrol(q, i + 1)
       PROVE  AnswersEnrol(Tail(q), i)'
  <2> DEFINE e == q[i + 1].doc
  <2>1. e.pair \in Rows("pair") /\ e.pair \in DOMAIN approvals /\ \A f \in enrolled : f.pair # e.pair
    BY <1>8, <1>12 DEF AnswersEnrol
  <2>2. Doc("pair", e.pair)'.state = "CONSUMED" \/ WrittenBefore(Tail(q), i, "pair", e.pair)
    <3>1. w.doc.state = "CONSUMED"
      BY <1>3, <1>12 DEF AnswersEnrol, w
    <3>2. Doc("pair", e.pair).state = "CONSUMED" \/ WrittenBefore(q, i + 1, "pair", e.pair)
      BY <1>12 DEF AnswersEnrol
    <3> QED
      BY <1>2, <1>4, <1>5, <2>1, <3>1, <3>2 DEF w
  <2>3. /\ \A j \in 1..(i - 1) : Tail(q)[j].kind = "pair" => Tail(q)[j].doc.state = "CONSUMED"
        /\ \A j \in 1..(i - 1) : Tail(q)[j].kind = "peer" =>
              Tail(q)[j].id = e.peer /\ PeerMatches(Tail(q)[j].doc, e.pair)
    BY <1>3, <1>12 DEF AnswersEnrol
  <2>4. \/ e.peer \in Rows("peer") /\ PeerMatches(Doc("peer", e.peer), e.pair)
        \/ WrittenBefore(Tail(q), i, "peer", e.peer)
    BY <1>4, <1>12 DEF AnswersEnrol
  <2>5. Tail(q)[i].doc = e
    BY <1>3
  <2> HIDE DEF e
  <2>6. e.peer \in Rows("peer") /\ PeerMatches(Doc("peer", e.peer), e.pair) =>
           e.peer \in Rows("peer")' /\ PeerMatches(Doc("peer", e.peer), e.pair)'
    <3>1. PICK d : d = Doc("peer", e.peer)
      OBVIOUS
    <3>2. PeerMatches(d, e.pair) => PeerMatches(d, e.pair)'
      BY <1>7, <2>1
    <3> QED
      BY <1>2, <3>1, <3>2 DEF PeerMatches, EnrolledScopes
  <2>7. \A j \in 1..(i - 1) : Tail(q)[j].kind = "peer" =>
           Tail(q)[j].id = e.peer /\ PeerMatches(Tail(q)[j].doc, e.pair)'
    BY <1>7, <2>1, <2>3
  <2> QED
    BY <2>1, <2>2, <2>3, <2>4, <2>5, <2>6, <2>7 DEF AnswersEnrol, WrittenBefore
<1>13. Enrolling(Tail(q))'
  <2>1. ASSUME NEW i \in 1..n
        PROVE  /\ Tail(q)[i].kind = "pair" => MovesPair(Tail(q), i)'
               /\ Tail(q)[i].kind = "peer" => WritesPeer(Tail(q), i)'
               /\ Tail(q)[i].kind = "answer" /\ Tail(q)[i].id = "enrol" => AnswersEnrol(Tail(q), i)'
    BY <1>3, <1>10, <1>11, <1>12 DEF Enrolling
  <2> QED
    BY <2>1 DEF Enrolling, n
<1> QED
  BY <1>6, <1>9, <1>13 DEF EnrolInv

\* A peer is made or moved: no other item writes one.
LEMMA PeerCommit ==
    ASSUME TokensInv, PairTable, PeerTable, EnrolledTable,
           NEW q, IsSeq(q), q # <<>>, Enrolling(q), q[1].kind = "peer",
           db' = Committed(q[1]), todo' = Tail(q), UNCHANGED <<approvals, enrolled>>
    PROVE  EnrolInv'
<1> DEFINE w == q[1]
           n == Len(Tail(q))
<1>1. /\ PeerFields \subseteq DOMAIN w.doc
      /\ w.id = NextId("peer") \/ (w.id \in Rows("peer") /\ SamePeer(w.doc, Doc("peer", w.id)))
      /\ \A j \in 1..Len(q) : j # 1 => q[j].kind # "peer"
  <2>1. 1 \in 1..Len(q)
    BY TailItems
  <2> QED
    BY <2>1 DEF Enrolling, WritesPeer
<1>2. /\ Rows("peer")' = Rows("peer") \union {w.id}
      /\ Doc("peer", w.id)' = w.doc
      /\ \A p \in Rows("peer") : p # w.id => Doc("peer", p)' = Doc("peer", p)
      /\ Rows("pair")' = Rows("pair") /\ \A p : Doc("pair", p)' = Doc("pair", p)
  <2>1. "peer" \in Kinds /\ "pair" \in Kinds \ {w.kind} /\ w.kind = "peer"
    BY DEF Kinds
  <2>2. /\ Rows(w.kind)' = Rows(w.kind) \union {w.id}
        /\ Doc(w.kind, w.id)' = w.doc
        /\ \A id \in Rows(w.kind) : id # w.id => Doc(w.kind, id)' = Doc(w.kind, id)
        /\ \A k \in Kinds \ {w.kind} : Rows(k)' = Rows(k) /\ \A id : Doc(k, id)' = Doc(k, id)
    BY <2>1, CommittedDocs DEF TokensInv, Tables
  <2> QED
    BY <2>1, <2>2
<1>3. ASSUME NEW i \in 1..n
      PROVE  /\ i + 1 \in 1..Len(q) /\ Tail(q)[i] = q[i + 1] /\ 1 \in 1..((i + 1) - 1)
             /\ \A j \in 1..(i - 1) : j + 1 \in 1..((i + 1) - 1) /\ Tail(q)[j] = q[j + 1]
             /\ \A j \in 1..n : j + 1 \in 1..Len(q) /\ Tail(q)[j] = q[j + 1] /\ j + 1 # 1
  BY TailPlaces
<1>4. ASSUME NEW i \in 1..n, NEW kind, NEW id, WrittenBefore(q, i + 1, kind, id),
             q[1].kind # kind \/ q[1].id # id
      PROVE  WrittenBefore(Tail(q), i, kind, id)
  BY <1>4, StillBefore
<1> HIDE DEF w, n
<1>5. NextId("peer") \notin Rows("peer") /\ NextId("peer") = Cardinality(Rows("peer")) + 1
  <2>1. Cardinality(Rows("peer")) \in Nat
    BY FS_CardinalityType DEF PeerTable
  <2> QED
    BY <2>1 DEF PeerTable, NextId
<1>6. /\ \A p \in Rows("peer") : SamePeer(Doc("peer", p)', Doc("peer", p))
      /\ \A p \in Rows("peer")' : PeerFields \subseteq DOMAIN Doc("peer", p)'
  BY <1>1, <1>2, <1>5 DEF PeerTable, SamePeer
<1>7. PairTable'
  BY <1>2 DEF PairTable
<1>8. PeerTable'
  <2>1. CASE w.id \in Rows("peer")
    <3>1. Rows("peer")' = Rows("peer")
      BY <1>2, <2>1
    <3> QED
      BY <1>6, <3>1 DEF PeerTable
  <2>2. CASE w.id \notin Rows("peer")
    <3> DEFINE R == Rows("peer")
               c == Cardinality(R)
    <3>1. /\ IsFiniteSet(Rows("peer")') /\ Cardinality(Rows("peer")') = c + 1
      BY <1>2, <2>2, FS_AddElement DEF PeerTable
    <3>2. c \in Nat /\ R = 1..c /\ w.id = c + 1 /\ Rows("peer")' = R \union {w.id}
      BY <1>1, <1>2, <1>5, <2>2, FS_CardinalityType DEF PeerTable
    <3> HIDE DEF R, c
    <3>3. R \union {w.id} = 1..(c + 1)
      BY <3>2
    <3> QED
      BY <1>6, <3>1, <3>2, <3>3 DEF PeerTable
  <2> QED
    BY <2>1, <2>2
<1>9. ASSUME NEW d, NEW p, PeerMatches(d, p)
      PROVE  PeerMatches(d, p)'
  BY <1>2, <1>9 DEF PeerMatches, EnrolledScopes
<1>10. ASSUME NEW x \in Rows("peer"), NEW p, PeerMatches(Doc("peer", x), p)
       PROVE  PeerMatches(Doc("peer", x), p)'
  <2> DEFINE old == Doc("peer", x)
             new == Doc("peer", x)'
  <2>1. new.key = old.key /\ new.claim = old.claim /\ new.scopes = old.scopes /\ new.role = old.role
    BY <1>6 DEF SamePeer
  <2>2. /\ <<old.key, old.claim>> = approvals[p].proposal
        /\ old.scopes = EnrolledScopes(approvals[p], old.claim)
        /\ old.role = Doc("pair", p).role
    BY <1>10 DEF PeerMatches
  <2> HIDE DEF old
  <2>3. /\ <<new.key, new.claim>> = approvals'[p].proposal
        /\ new.scopes = EnrolledScopes(approvals'[p], new.claim)
        /\ new.role = Doc("pair", p)'.role
    <3>1. approvals' = approvals /\ Doc("pair", p)' = Doc("pair", p)
      BY <1>2
    <3> QED
      BY <2>1, <2>2, <3>1
  <2> QED
    BY <2>3 DEF PeerMatches, EnrolledScopes
<1>11. EnrolledTable'
  <2>1. ASSUME NEW e \in enrolled
        PROVE  /\ e.pair \in DOMAIN approvals' /\ Doc("pair", e.pair)'.state = "CONSUMED"
               /\ e.peer \in Rows("peer")' /\ PeerMatches(Doc("peer", e.peer), e.pair)'
    <3>1. /\ e.pair \in DOMAIN approvals /\ Doc("pair", e.pair).state = "CONSUMED"
          /\ e.peer \in Rows("peer") /\ PeerMatches(Doc("peer", e.peer), e.pair)
      BY DEF EnrolledTable
    <3> QED
      BY <1>2, <1>10, <3>1
  <2> QED
    BY <2>1 DEF EnrolledTable
<1>12. ASSUME NEW i \in 1..n, MovesPair(q, i + 1)
       PROVE  MovesPair(Tail(q), i)'
  BY <1>2, <1>3, <1>12 DEF MovesPair, KeepsPair
<1>13. ASSUME NEW i \in 1..n
       PROVE  q[i + 1].kind # "peer"
  BY <1>1, <1>3
<1>14. ASSUME NEW i \in 1..n, AnswersEnrol(q, i + 1)
       PROVE  AnswersEnrol(Tail(q), i)'
  <2> DEFINE e == q[i + 1].doc
  <2>1. /\ e.pair \in DOMAIN approvals /\ \A f \in enrolled : f.pair # e.pair
        /\ w.id = e.peer /\ PeerMatches(w.doc, e.pair)
    BY <1>3, <1>14 DEF AnswersEnrol, w
  <2>2. Doc("pair", e.pair).state = "CONSUMED" \/ WrittenBefore(Tail(q), i, "pair", e.pair)
    BY <1>4, <1>14 DEF AnswersEnrol
  <2>3. /\ \A j \in 1..(i - 1) : Tail(q)[j].kind = "pair" => Tail(q)[j].doc.state = "CONSUMED"
        /\ \A j \in 1..(i - 1) : Tail(q)[j].kind = "peer" =>
              Tail(q)[j].id = e.peer /\ PeerMatches(Tail(q)[j].doc, e.pair)
    BY <1>3, <1>14 DEF AnswersEnrol
  <2>4. Tail(q)[i].doc = e
    BY <1>3
  <2>5. e.peer \in Rows("peer")' /\ PeerMatches(Doc("peer", e.peer), e.pair)'
    <3>1. PeerMatches(w.doc, e.pair)'
      BY <1>9, <2>1
    <3>2. Doc("peer", e.peer)' = w.doc
      BY <1>2, <2>1
    <3> HIDE DEF e
    <3> QED
      BY <1>2, <2>1, <3>1, <3>2 DEF PeerMatches, EnrolledScopes
  <2> HIDE DEF e
  <2>6. \A j \in 1..(i - 1) : Tail(q)[j].kind = "peer" =>
           Tail(q)[j].id = e.peer /\ PeerMatches(Tail(q)[j].doc, e.pair)'
    BY <1>9, <2>3
  <2> QED
    BY <1>2, <2>1, <2>2, <2>3, <2>4, <2>5, <2>6 DEF AnswersEnrol, WrittenBefore
<1>15. Enrolling(Tail(q))'
  <2>1. ASSUME NEW i \in 1..n
        PROVE  /\ Tail(q)[i].kind = "pair" => MovesPair(Tail(q), i)'
               /\ Tail(q)[i].kind # "peer"
               /\ Tail(q)[i].kind = "answer" /\ Tail(q)[i].id = "enrol" => AnswersEnrol(Tail(q), i)'
    BY <1>3, <1>12, <1>13, <1>14 DEF Enrolling
  <2> QED
    BY <2>1 DEF Enrolling, n
<1> QED
  BY <1>7, <1>8, <1>11, <1>15 DEF EnrolInv

\* A document of another kind is written.
LEMMA AsideCommit ==
    ASSUME TokensInv, PairTable, PeerTable, EnrolledTable,
           NEW q, IsSeq(q), q # <<>>, Enrolling(q), q[1].kind \in Kinds \ {"pair", "peer"},
           db' = Committed(q[1]), todo' = Tail(q), UNCHANGED <<approvals, enrolled>>
    PROVE  EnrolInv'
<1> DEFINE n == Len(Tail(q))
<1>1. /\ Rows("peer")' = Rows("peer") /\ \A p : Doc("peer", p)' = Doc("peer", p)
      /\ Rows("pair")' = Rows("pair") /\ \A p : Doc("pair", p)' = Doc("pair", p)
  <2>1. "peer" \in Kinds \ {q[1].kind} /\ "pair" \in Kinds \ {q[1].kind}
    BY DEF Kinds
  <2>2. \A k \in Kinds \ {q[1].kind} : Rows(k)' = Rows(k) /\ \A id : Doc(k, id)' = Doc(k, id)
    BY CommittedDocs DEF TokensInv, Tables
  <2> QED
    BY <2>1, <2>2
<1>2. ASSUME NEW i \in 1..n
      PROVE  /\ i + 1 \in 1..Len(q) /\ Tail(q)[i] = q[i + 1]
             /\ \A j \in 1..(i - 1) : j + 1 \in 1..((i + 1) - 1) /\ Tail(q)[j] = q[j + 1]
             /\ \A j \in 1..n : j + 1 \in 1..Len(q) /\ Tail(q)[j] = q[j + 1]
  BY TailPlaces
<1>3. ASSUME NEW i \in 1..n, NEW kind \in {"pair", "peer"}, NEW id, WrittenBefore(q, i + 1, kind, id)
      PROVE  WrittenBefore(Tail(q), i, kind, id)
  BY <1>3, StillBefore
<1> HIDE DEF n
<1>4. PairTable' /\ PeerTable'
  BY <1>1 DEF PairTable, PeerTable
<1>5. ASSUME NEW d, NEW p, PeerMatches(d, p)
      PROVE  PeerMatches(d, p)'
  BY <1>1, <1>5 DEF PeerMatches, EnrolledScopes
<1>6. ASSUME NEW x, NEW p, PeerMatches(Doc("peer", x), p)
      PROVE  PeerMatches(Doc("peer", x), p)'
  BY <1>1, <1>6 DEF PeerMatches, EnrolledScopes
<1>7. EnrolledTable'
  BY <1>1, <1>6 DEF EnrolledTable
<1>8. ASSUME NEW i \in 1..n, MovesPair(q, i + 1)
      PROVE  MovesPair(Tail(q), i)'
  BY <1>1, <1>2, <1>8 DEF MovesPair, KeepsPair
<1>9. ASSUME NEW i \in 1..n, WritesPeer(q, i + 1)
      PROVE  WritesPeer(Tail(q), i)'
  <2>1. NextId("peer")' = NextId("peer")
    BY <1>1 DEF NextId
  <2>2. \A j \in 1..n : j # i => Tail(q)[j].kind # "peer"
    BY <1>2, <1>9 DEF WritesPeer
  <2> QED
    BY <1>1, <1>2, <1>9, <2>1, <2>2 DEF WritesPeer, SamePeer, n
<1>10. ASSUME NEW i \in 1..n, AnswersEnrol(q, i + 1)
       PROVE  AnswersEnrol(Tail(q), i)'
  <2> DEFINE e == q[i + 1].doc
  <2>1. /\ e.pair \in DOMAIN approvals /\ \A f \in enrolled : f.pair # e.pair
        /\ Doc("pair", e.pair).state = "CONSUMED" \/ WrittenBefore(Tail(q), i, "pair", e.pair)
        /\ \/ e.peer \in Rows("peer") /\ PeerMatches(Doc("peer", e.peer), e.pair)
           \/ WrittenBefore(Tail(q), i, "peer", e.peer)
    BY <1>3, <1>10 DEF AnswersEnrol
  <2>2. /\ \A j \in 1..(i - 1) : Tail(q)[j].kind = "pair" => Tail(q)[j].doc.state = "CONSUMED"
        /\ \A j \in 1..(i - 1) : Tail(q)[j].kind = "peer" =>
              Tail(q)[j].id = e.peer /\ PeerMatches(Tail(q)[j].doc, e.pair)
    BY <1>2, <1>10 DEF AnswersEnrol
  <2>3. Tail(q)[i].doc = e
    BY <1>2
  <2> HIDE DEF e
  <2>4. \A j \in 1..(i - 1) : Tail(q)[j].kind = "peer" =>
           Tail(q)[j].id = e.peer /\ PeerMatches(Tail(q)[j].doc, e.pair)'
    BY <1>5, <2>2
  <2>5. \/ e.peer \in Rows("peer")' /\ PeerMatches(Doc("peer", e.peer), e.pair)'
        \/ WrittenBefore(Tail(q), i, "peer", e.peer)
    BY <1>1, <1>6, <2>1
  <2> QED
    BY <1>1, <2>1, <2>2, <2>3, <2>4, <2>5 DEF AnswersEnrol, WrittenBefore
<1>11. Enrolling(Tail(q))'
  <2>1. ASSUME NEW i \in 1..n
        PROVE  /\ Tail(q)[i].kind = "pair" => MovesPair(Tail(q), i)'
               /\ Tail(q)[i].kind = "peer" => WritesPeer(Tail(q), i)'
               /\ Tail(q)[i].kind = "answer" /\ Tail(q)[i].id = "enrol" => AnswersEnrol(Tail(q), i)'
    BY <1>2, <1>8, <1>9, <1>10 DEF Enrolling
  <2> QED
    BY <2>1 DEF Enrolling, n
<1> QED
  BY <1>4, <1>7, <1>11 DEF EnrolInv

-----------------------------------------------------------------------------
(* Steps that commit nothing, and what a handler decides. *)

LEMMA EnrolIdle ==
    ASSUME EnrolInv, db' = db, todo' = todo \/ todo' = <<>>, UNCHANGED <<approvals, enrolled>>
    PROVE  EnrolInv'
<1>1. \A k : Rows(k)' = Rows(k) /\ \A x : Doc(k, x)' = Doc(k, x)
  BY DEF Rows, Doc
<1>2. \A d, p : PeerMatches(d, p)' <=> PeerMatches(d, p)
  BY <1>1 DEF PeerMatches, EnrolledScopes
<1>3. \A x, p : PeerMatches(Doc("peer", x), p)' <=> PeerMatches(Doc("peer", x), p)
  BY <1>1 DEF PeerMatches, EnrolledScopes
<1>4. PairTable' /\ PeerTable' /\ EnrolledTable'
  <2>1. PairTable' /\ PeerTable'
    BY <1>1 DEF EnrolInv, PairTable, PeerTable
  <2>2. EnrolledTable'
    BY <1>1, <1>3 DEF EnrolInv, EnrolledTable
  <2> QED
    BY <2>1, <2>2
<1>5. CASE todo' = todo
  <2>1. ASSUME NEW i \in 1..Len(todo)
        PROVE  /\ todo[i].kind = "pair" => MovesPair(todo, i)'
               /\ todo[i].kind = "peer" => WritesPeer(todo, i)'
               /\ todo[i].kind = "answer" /\ todo[i].id = "enrol" => AnswersEnrol(todo, i)'
    <3>1. todo[i].kind = "pair" => MovesPair(todo, i)'
      BY <1>1, <1>5 DEF EnrolInv, Enrolling, MovesPair, KeepsPair
    <3>2. todo[i].kind = "peer" => WritesPeer(todo, i)'
      BY <1>1, <1>5 DEF EnrolInv, Enrolling, WritesPeer, SamePeer, NextId
    <3>3. ASSUME todo[i].kind = "answer", todo[i].id = "enrol" PROVE AnswersEnrol(todo, i)'
      <4>1. AnswersEnrol(todo, i)
        BY <3>3 DEF EnrolInv, Enrolling
      <4>2. \A kind, id : WrittenBefore(todo, i, kind, id)' <=> WrittenBefore(todo, i, kind, id)
        BY <1>5 DEF WrittenBefore
      <4> QED
        BY <1>1, <1>2, <1>3, <1>5, <4>1, <4>2 DEF AnswersEnrol
    <3> QED
      BY <3>1, <3>2, <3>3
  <2>2. Enrolling(todo)'
    BY <1>5, <2>1 DEF Enrolling
  <2> QED
    BY <1>4, <2>2 DEF EnrolInv
<1>6. CASE todo' = <<>>
  <2>1. Enrolling(<<>>)'
    BY DEF Enrolling
  <2> QED
    BY <1>4, <1>6, <2>1 DEF EnrolInv
<1> QED
  BY <1>5, <1>6

LEMMA EnrolDo ==
    ASSUME TokensInv, EnrolInv, NEW q, IsSeq(q), Enrolling(q), q # <<>> => q[1].kind \in Kinds,
           Do(q), UNCHANGED <<approvals, enrolled>>
    PROVE  EnrolInv'
<1>1. CASE q = <<>>
  <2>1. db' = db /\ todo' = <<>>
    BY <1>1 DEF Do
  <2> QED
    BY <2>1, EnrolIdle
<1>2. CASE q # <<>>
  <2>1. db' = Committed(q[1]) /\ todo' = Tail(q)
    BY <1>2, TailItems DEF Do
  <2>2. q[1].kind = "pair" \/ q[1].kind = "peer" \/ q[1].kind \in Kinds \ {"pair", "peer"}
    BY <1>2
  <2> QED
    BY <1>2, <2>1, <2>2, PairCommit, PeerCommit, AsideCommit DEF EnrolInv
<1> QED
  BY <1>1, <1>2

\* Items that write no invitation and no peer and answer no enrolment.
Aside(q) ==
    /\ IsSeq(q)
    /\ \A i \in 1..Len(q) :
          /\ q[i].kind \notin {"pair", "peer"}
          /\ ~(q[i].kind = "answer" /\ q[i].id = "enrol")
    /\ q # <<>> => q[1].kind \in Kinds

LEMMA AsideDo ==
    ASSUME TokensInv, EnrolInv, NEW q, Aside(q), Do(q), UNCHANGED <<approvals, enrolled>>
    PROVE  EnrolInv'
<1>1. Enrolling(q)
  BY DEF Aside, Enrolling
<1> QED
  BY <1>1, EnrolDo DEF Aside

LEMMA AsideOne ==
    ASSUME NEW kind \in Kinds \ {"pair", "peer"}, NEW id, NEW doc
    PROVE  Aside(<<Put(kind, id, doc)>>)
<1> DEFINE w == Put(kind, id, doc)
<1>1. w.kind = kind /\ "answer" \notin Kinds
  BY DEF Put, Kinds
<1> HIDE DEF w
<1>2. Aside(<<w>>)
  BY <1>1, OneItem DEF Aside
<1> QED
  BY <1>2 DEF w

\* The calls that touch neither invitations nor peers.
LEMMA ChallengeEnrols ==
    ASSUME TokensInv, EnrolInv, NEW k, Challenge(k), UNCHANGED <<approvals, enrolled>>
    PROVE  EnrolInv'
<1>1. \A c, doc : Aside(<<Put("challenge", c, doc)>>)
  <2>1. "challenge" \in Kinds \ {"pair", "peer"}
    BY DEF Kinds
  <2> QED
    BY <2>1, AsideOne
<1> QED
  BY <1>1, AsideDo DEF Challenge

LEMMA AuthenticateEnrols ==
    ASSUME TokensInv, EnrolInv, NEW x, NEW by, Authenticate(x, by), UNCHANGED <<approvals, enrolled>>
    PROVE  EnrolInv'
<1> DEFINE rec == Doc("grant", x.grant)
           w == Put("nonce", <<rec.peer, x.nonce>>, rec.access)
           A == Answer("accept", x)
<1>1. Do(<<w>> \o <<>>) \/ Do(<<w>> \o <<A>>)
  BY DEF Authenticate
<1>2. w.kind = "nonce" /\ A.kind = "answer" /\ A.id = "accept" /\ "nonce" \in Kinds
  BY DEF Put, Answer, Kinds
<1> HIDE DEF w, A
<1>3. Aside(<<w>>)
  BY <1>2, OneItem DEF Aside
<1>4. <<w>> \o <<>> = <<w>>
  OBVIOUS
<1>5. Aside(<<w>> \o <<A>>)
  <2> DEFINE q == <<w>> \o <<A>>
  <2>1. IsSeq(q) /\ Len(q) = 2 /\ q[1] = w /\ q[2] = A
    BY TwoItems
  <2> HIDE DEF q
  <2>2. \A i \in 1..Len(q) : i = 1 \/ i = 2
    BY <2>1
  <2>3. Aside(q)
    BY <1>2, <2>1, <2>2 DEF Aside
  <2> QED
    BY <2>3 DEF q
<1> QED
  BY <1>1, <1>3, <1>4, <1>5, AsideDo

LEMMA RenewEnrols ==
    ASSUME TokensInv, EnrolInv, NEW g \in Rows("grant"), NEW c, NEW r, Renew(g, c, r),
           UNCHANGED <<approvals, enrolled>>
    PROVE  EnrolInv'
<1> DEFINE rec  == Doc("grant", g)
           peer == Doc("peer", rec.peer)
           open == peer.state # "REVOKED" /\ rec.epoch = epoch
<1>1. CASE open /\ rec.state = "CONSUMED" /\ g \in Rows("renew") /\ Doc("renew", g) = r
  <2>1. Do(<<>>)
    BY <1>1 DEF Renew
  <2>2. Aside(<<>>)
    BY NoItems DEF Aside
  <2> QED
    BY <2>1, <2>2, AsideDo
<1>2. CASE open /\ rec.state = "CONSUMED" /\ ~(g \in Rows("renew") /\ Doc("renew", g) = r)
  <2> DEFINE gs == {h \in Family(rec.family) : Doc("grant", h).state # "REVOKED"}
             A == Answer("reuse", rec.family)
  <2>1. PICK ws \in RevokeGrants(gs) : Do(ws \o <<A>>)
    BY <1>2 DEF Renew
  <2>2. gs \in SUBSET Rows("grant") /\ gs # {}
    <3>1. g \in gs
      BY <1>2 DEF Family
    <3> QED
      BY <3>1 DEF Family
  <2>3. A.kind = "answer" /\ A.id = "reuse"
    BY DEF Answer
  <2> HIDE DEF gs, A
  <2>4. IsSeq(ws) /\ ws # <<>> /\ \A i \in 1..Len(ws) : ws[i].kind = "grant"
    BY <2>2, Revocations DEF Revokes
  <2> DEFINE q == ws \o <<A>>
             n == Len(ws)
  <2>5. /\ IsSeq(q) /\ n \in Nat /\ n >= 1 /\ Len(q) = n + 1
        /\ \A i \in 1..n : q[i] = ws[i]
        /\ q[n + 1] = A
    <3>1. IsSeq(<<A>>) /\ Len(<<A>>) = 1 /\ <<A>>[1] = A
      BY OneItem
    <3>2. /\ IsSeq(q) /\ Len(q) = n + Len(<<A>>)
          /\ \A i \in 1..n : q[i] = ws[i]
          /\ \A i \in 1..Len(<<A>>) : q[n + i] = <<A>>[i]
      BY <2>4, <3>1, BothItems
    <3> QED
      BY <2>4, <3>1, <3>2, TailItems
  <2>6. Do(q)
    BY <2>1
  <2> HIDE DEF q, n
  <2>7. \A i \in 1..Len(q) : i \in 1..n \/ i = n + 1
    BY <2>5
  <2>8. Aside(q)
    <3>1. \A i \in 1..n : q[i].kind = "grant"
      BY <2>4, <2>5 DEF n
    <3>2. 1 \in 1..n
      BY <2>5
    <3> QED
      BY <2>3, <2>5, <2>7, <3>1, <3>2 DEF Aside, Kinds
  <2> QED
    BY <2>6, <2>8, AsideDo
<1>3. CASE ~(open /\ rec.state = "CONSUMED")
  <2> DEFINE w1 == Put("challenge", c, [Doc("challenge", c) EXCEPT !.consumed = TRUE])
             w2 == Put("grant", g, [rec EXCEPT !.state = "CONSUMED"])
             w3 == Issue(NextId("grant"), peer, rec.family)
             w4 == Put("renew", g, r)
             q  == <<w1, w2, w3, w4>>
  <2>1. Do(q)
    BY <1>3 DEF Renew
  <2>2. /\ w1.kind = "challenge" /\ w2.kind = "grant" /\ w3.kind = "grant"
        /\ w4.kind = "renew"
    BY DEF Put, Issue
  <2> HIDE DEF w1, w2, w3, w4
  <2>3. /\ IsSeq(q) /\ Len(q) = 4
        /\ q[1] = w1 /\ q[2] = w2 /\ q[3] = w3 /\ q[4] = w4
    <3>1. q \in Seq({w1, w2, w3, w4}) /\ Len(q) = 4
      OBVIOUS
    <3>2. q[1] = w1 /\ q[2] = w2 /\ q[3] = w3 /\ q[4] = w4
      OBVIOUS
    <3> QED
      BY <3>1, <3>2, SeqIsSeq
  <2> HIDE DEF q
  <2>4. \A i \in 1..Len(q) : i = 1 \/ i = 2 \/ i = 3 \/ i = 4
    BY <2>3
  <2>5. Aside(q)
    BY <2>2, <2>3, <2>4 DEF Aside, Kinds
  <2> QED
    BY <2>1, <2>5, AsideDo
<1> QED
  BY <1>1, <1>2, <1>3

-----------------------------------------------------------------------------
(* The moves of an invitation. *)

LEMMA OneMove ==
    ASSUME TokensInv, EnrolInv, NEW p \in Rows("pair"), NEW d, KeepsPair(d, Doc("pair", p)),
           Do(<<Put("pair", p, d)>>), UNCHANGED <<approvals, enrolled>>
    PROVE  EnrolInv'
<1> DEFINE w == Put("pair", p, d)
           q == <<w>>
<1>1. w.kind = "pair" /\ w.id = p /\ w.doc = d /\ "pair" \in Kinds
  BY DEF Put, Kinds
<1>2. Do(q)
  OBVIOUS
<1> HIDE DEF w
<1>3. IsSeq(q) /\ Len(q) = 1 /\ q[1] = w
  BY OneItem
<1> HIDE DEF q
<1>4. Enrolling(q)
  <2>1. \A i \in 1..Len(q) : i = 1 /\ 1..(i - 1) = {}
    BY <1>3
  <2> QED
    BY <1>1, <1>3, <2>1 DEF Enrolling, MovesPair
<1> QED
  BY <1>1, <1>2, <1>3, <1>4, EnrolDo

LEMMA TwoMoves ==
    ASSUME TokensInv, EnrolInv, NEW p \in Rows("pair"),
           NEW d, KeepsPair(d, Doc("pair", p)), d.state # "CONSUMED",
           NEW e, KeepsPair(e, Doc("pair", p)),
           Do(<<Put("pair", p, d)>> \o <<Put("pair", p, e)>>), UNCHANGED <<approvals, enrolled>>
    PROVE  EnrolInv'
<1> DEFINE w == Put("pair", p, d)
           v == Put("pair", p, e)
           q == <<w>> \o <<v>>
<1>1. /\ w.kind = "pair" /\ w.id = p /\ w.doc = d
      /\ v.kind = "pair" /\ v.id = p /\ v.doc = e /\ "pair" \in Kinds
  BY DEF Put, Kinds
<1>2. Do(q)
  OBVIOUS
<1> HIDE DEF w, v
<1>3. IsSeq(q) /\ Len(q) = 2 /\ q[1] = w /\ q[2] = v
  BY TwoItems
<1> HIDE DEF q
<1>4. Enrolling(q)
  <2>1. \A i \in 1..Len(q) : (i = 1 \/ i = 2) /\ \A j \in 1..(i - 1) : j = 1
    BY <1>3
  <2> QED
    BY <1>1, <1>3, <2>1 DEF Enrolling, MovesPair
<1> QED
  BY <1>1, <1>2, <1>3, <1>4, EnrolDo

\* A move changes the state or the count of the attempts, and never takes a
\* consumed invitation out of its state.
LEMMA Moved ==
    ASSUME NEW rec, PairFields \subseteq DOMAIN rec, NEW n, NEW st
    PROVE  /\ KeepsPair([rec EXCEPT !.attempts = n], rec)
           /\ [rec EXCEPT !.attempts = n].state = rec.state
           /\ rec.state # "CONSUMED" \/ st = "CONSUMED" => KeepsPair([rec EXCEPT !.state = st], rec)
           /\ [rec EXCEPT !.state = st].state = st
           /\ rec.state # "CONSUMED" => KeepsPair([rec EXCEPT !.attempts = n, !.state = st], rec)
<1>1. /\ {"pair", "role", "scopes", "state", "approved"} \subseteq DOMAIN rec
      /\ "attempts" \notin PairFields
  BY DEF PairFields
<1> DEFINE a == [rec EXCEPT !.attempts = n]
           b == [rec EXCEPT !.state = st]
           c == [rec EXCEPT !.attempts = n, !.state = st]
<1>2. /\ DOMAIN a = DOMAIN rec /\ a.pair = rec.pair /\ a.role = rec.role
      /\ a.scopes = rec.scopes /\ a.approved = rec.approved /\ a.state = rec.state
  BY <1>1
<1>3. /\ DOMAIN b = DOMAIN rec /\ b.pair = rec.pair /\ b.role = rec.role
      /\ b.scopes = rec.scopes /\ b.approved = rec.approved /\ b.state = st
  BY <1>1
<1>4. /\ DOMAIN c = DOMAIN rec /\ c.pair = rec.pair /\ c.role = rec.role
      /\ c.scopes = rec.scopes /\ c.approved = rec.approved
  BY <1>1
<1> HIDE DEF a, b, c
<1>5. /\ KeepsPair(a, rec) /\ a.state = rec.state
      /\ rec.state # "CONSUMED" \/ st = "CONSUMED" => KeepsPair(b, rec)
      /\ b.state = st
      /\ rec.state # "CONSUMED" => KeepsPair(c, rec)
  BY <1>2, <1>3, <1>4 DEF KeepsPair
<1> QED
  BY <1>5 DEF a, b, c

LEMMA ExpireMoves ==
    ASSUME NEW rec, PairFields \subseteq DOMAIN rec
    PROVE  \/ ExpireWrites(rec) = <<>>
           \/ \E d : /\ ExpireWrites(rec) = <<Put("pair", rec.pair, d)>>
                     /\ KeepsPair(d, rec) /\ d.state = "EXPIRED"
<1>1. CASE rec.state \in Live /\ ~PairLive(rec)
  <2>1. rec.state # "CONSUMED"
    BY <1>1 DEF Live
  <2> DEFINE d == [rec EXCEPT !.state = "EXPIRED"]
  <2>2. KeepsPair(d, rec) /\ d.state = "EXPIRED"
    BY <2>1, Moved
  <2>3. ExpireWrites(rec) = <<Put("pair", rec.pair, d)>>
    BY <1>1 DEF ExpireWrites
  <2> HIDE DEF d
  <2> QED
    BY <2>2, <2>3
<1>2. CASE ~(rec.state \in Live /\ ~PairLive(rec))
  BY <1>2 DEF ExpireWrites
<1> QED
  BY <1>1, <1>2

LEMMA FailMoves ==
    ASSUME NEW rec, PairFields \subseteq DOMAIN rec
    PROVE  \/ FailAttempt(rec) = <<>>
           \/ \E d : FailAttempt(rec) = <<Put("pair", rec.pair, d)>> /\ KeepsPair(d, rec)
<1> DEFINE n == rec.attempts + 1
           a == [rec EXCEPT !.attempts = n]
           c == [rec EXCEPT !.attempts = n, !.state = "LOCKED"]
           may == "LOCKED" \in PairTransitions[rec.state]
<1>1. KeepsPair(a, rec) /\ (rec.state # "CONSUMED" => KeepsPair(c, rec))
  <2> HIDE DEF n
  <2> QED
    BY Moved
<1>2. rec.state = "CONSUMED" => ~may
  BY DEF PairTransitions
<1>3. FailAttempt(rec) = IF n < MaxAttempts THEN <<Put("pair", rec.pair, a)>>
                         ELSE IF may THEN <<Put("pair", rec.pair, c)>> ELSE <<>>
  BY DEF FailAttempt
<1> HIDE DEF a, c, n, may
<1>4. CASE n < MaxAttempts
  BY <1>1, <1>3, <1>4
<1>5. CASE ~(n < MaxAttempts) /\ may
  BY <1>1, <1>2, <1>3, <1>5
<1>6. CASE ~(n < MaxAttempts) /\ ~may
  BY <1>3, <1>6
<1> QED
  BY <1>4, <1>5, <1>6

\* The refusals, the reads and the cancellations of an invitation.
LEMMA NoMove ==
    ASSUME TokensInv, EnrolInv, Do(<<>>), UNCHANGED <<approvals, enrolled>>
    PROVE  EnrolInv'
<1>1. Aside(<<>>)
  BY NoItems DEF Aside
<1> QED
  BY <1>1, AsideDo

LEMMA PairRow ==
    ASSUME EnrolInv, NEW p \in Rows("pair")
    PROVE  PairFields \subseteq DOMAIN Doc("pair", p) /\ Doc("pair", p).pair = p
  BY DEF EnrolInv, PairTable

LEMMA RefusalEnrols ==
    ASSUME TokensInv, EnrolInv, NEW reg \in Registrations, RefuseRegistration(reg),
           UNCHANGED <<approvals, enrolled>>
    PROVE  EnrolInv'
<1> DEFINE p == reg.pair
           rec == Doc("pair", p)
<1>1. p \in Rows("pair")
  BY DEF Registrations
<1>2. PairFields \subseteq DOMAIN rec /\ rec.pair = p
  BY <1>1, PairRow
<1>3. Do(ExpireWrites(rec)) \/ Do(FailAttempt(rec)) \/ Do(<<>>)
  BY DEF RefuseRegistration, RefusalWrites
<1>4. \/ Do(<<>>)
      \/ \E d : KeepsPair(d, rec) /\ Do(<<Put("pair", p, d)>>)
  BY <1>2, <1>3, ExpireMoves, FailMoves
<1> QED
  BY <1>1, <1>4, NoMove, OneMove

LEMMA CancelEnrols ==
    ASSUME TokensInv, EnrolInv, NEW p \in Rows("pair"), CancelPair(p),
           UNCHANGED <<approvals, enrolled>>
    PROVE  EnrolInv'
<1> DEFINE rec == Doc("pair", p)
           d == [rec EXCEPT !.state = "CANCELLED"]
<1>1. PairFields \subseteq DOMAIN rec /\ rec.pair = p
  BY PairRow
<1>2. CASE PairLive(rec)
  <2>1. KeepsPair(d, rec)
    <3>1. rec.state # "CONSUMED"
      BY <1>2 DEF PairLive, Live
    <3> QED
      BY <1>1, <3>1, Moved
  <2>2. Do(<<Put("pair", p, d)>>)
    BY <1>2 DEF CancelPair
  <2> HIDE DEF d
  <2> QED
    BY <2>1, <2>2, OneMove
<1>3. CASE ~PairLive(rec)
  <2>1. Do(ExpireWrites(rec))
    BY <1>3 DEF CancelPair
  <2>2. \/ Do(<<>>)
        \/ \E e : KeepsPair(e, rec) /\ Do(<<Put("pair", p, e)>>)
    BY <1>1, <2>1, ExpireMoves
  <2> QED
    BY <2>2, NoMove, OneMove
<1> QED
  BY <1>2, <1>3

\* An expiry found by a reader who then guesses wrong writes the row twice.
LEMMA GetPairEnrols ==
    ASSUME TokensInv, EnrolInv, NEW p \in Rows("pair"), NEW code, GetPair(p, code),
           UNCHANGED <<approvals, enrolled>>
    PROVE  EnrolInv'
<1> DEFINE rec == Doc("pair", p)
           due == ExpireWrites(rec)
           read == IF due = <<>> THEN rec ELSE due[1].doc
<1>1. PairFields \subseteq DOMAIN rec /\ rec.pair = p
  BY PairRow
<1>2. Do(due) \/ Do(due \o FailAttempt(read))
  BY DEF GetPair
<1>3. \/ due = <<>>
      \/ \E d : due = <<Put("pair", p, d)>> /\ KeepsPair(d, rec) /\ d.state = "EXPIRED"
  BY <1>1, ExpireMoves
<1> HIDE DEF due
<1>4. CASE Do(due)
  BY <1>3, <1>4, NoMove, OneMove
<1>5. CASE Do(due \o FailAttempt(read)) /\ due = <<>>
  <2>1. read = rec
    BY <1>5
  <2>2. \/ FailAttempt(rec) = <<>>
        \/ \E d : FailAttempt(rec) = <<Put("pair", p, d)>> /\ KeepsPair(d, rec)
    BY <1>1, FailMoves
  <2>3. <<>> \o <<>> = <<>> /\ \A w : <<>> \o <<w>> = <<w>>
    OBVIOUS
  <2>4. Do(<<>>) \/ \E d : KeepsPair(d, rec) /\ Do(<<Put("pair", p, d)>>)
    BY <1>5, <2>1, <2>2, <2>3
  <2> QED
    BY <2>4, NoMove, OneMove
<1>6. CASE Do(due \o FailAttempt(read)) /\ due # <<>>
  <2>1. PICK d : due = <<Put("pair", p, d)>> /\ KeepsPair(d, rec) /\ d.state = "EXPIRED"
    BY <1>3, <1>6
  <2>2. read = d
    <3>1. due[1] = Put("pair", p, d)
      BY <2>1
    <3> QED
      BY <1>6, <3>1 DEF Put
  <2>3. PairFields \subseteq DOMAIN d /\ d.pair = p
    BY <1>1, <2>1 DEF KeepsPair
  <2>4. \/ FailAttempt(d) = <<>>
        \/ \E e : FailAttempt(d) = <<Put("pair", p, e)>> /\ KeepsPair(e, d)
    BY <2>3, FailMoves
  <2>5. \A e : KeepsPair(e, d) => KeepsPair(e, rec)
    BY <2>1 DEF KeepsPair
  <2>6. \A w : <<w>> \o <<>> = <<w>>
    OBVIOUS
  <2>7. CASE FailAttempt(d) = <<>>
    <3>1. Do(<<Put("pair", p, d)>>)
      BY <1>6, <2>1, <2>2, <2>6, <2>7
    <3> QED
      BY <2>1, <3>1, OneMove
  <2>8. CASE FailAttempt(d) # <<>>
    <3>1. PICK e : FailAttempt(d) = <<Put("pair", p, e)>> /\ KeepsPair(e, d)
      BY <2>4, <2>8
    <3>2. Do(<<Put("pair", p, d)>> \o <<Put("pair", p, e)>>)
      BY <1>6, <2>1, <2>2, <3>1
    <3> QED
      BY <2>1, <2>5, <3>1, <3>2, TwoMoves
  <2> QED
    BY <2>7, <2>8
<1> QED
  BY <1>2, <1>4, <1>5, <1>6

-----------------------------------------------------------------------------
(* Invitations, proposals and approvals. *)

\* One write of an invitation, and nothing left to do.
LEMMA PairWritten ==
    ASSUME TokensInv, NEW p, NEW d, Do(<<Put("pair", p, d)>>)
    PROVE  /\ Rows("pair")' = Rows("pair") \union {p}
           /\ Doc("pair", p)' = d
           /\ \A x \in Rows("pair") : x # p => Doc("pair", x)' = Doc("pair", x)
           /\ Rows("peer")' = Rows("peer") /\ \A x : Doc("peer", x)' = Doc("peer", x)
           /\ todo' = <<>>
<1> DEFINE w == Put("pair", p, d)
<1>1. w.kind = "pair" /\ w.id = p /\ w.doc = d
  BY DEF Put
<1>2. Do(<<w>>)
  OBVIOUS
<1> HIDE DEF w
<1>3. <<w>> # <<>> /\ Head(<<w>>) = w /\ Tail(<<w>>) = <<>>
  OBVIOUS
<1>4. db' = Committed(w) /\ todo' = <<>>
  BY <1>2, <1>3 DEF Do
<1>5. "pair" \in Kinds /\ "peer" \in Kinds \ {w.kind}
  BY <1>1 DEF Kinds
<1>6. /\ Rows(w.kind)' = Rows(w.kind) \union {w.id}
      /\ Doc(w.kind, w.id)' = w.doc
      /\ \A id \in Rows(w.kind) : id # w.id => Doc(w.kind, id)' = Doc(w.kind, id)
      /\ \A k \in Kinds \ {w.kind} : Rows(k)' = Rows(k) /\ \A id : Doc(k, id)' = Doc(k, id)
  BY <1>1, <1>4, <1>5, CommittedDocs DEF TokensInv, Tables
<1> QED
  BY <1>1, <1>4, <1>5, <1>6

\* An invitation that is new or not consumed gets the document d, and an
\* approval of it, if there is one, is within what d offers.
LEMMA PairChange ==
    ASSUME TokensInv, EnrolInv, NEW p, NEW d, Do(<<Put("pair", p, d)>>),
           p = NextId("pair") \/ (p \in Rows("pair") /\ Doc("pair", p).state # "CONSUMED"),
           PairFields \subseteq DOMAIN d, d.pair = p,
           enrolled' = enrolled,
           \A x \in DOMAIN approvals : x # p => x \in DOMAIN approvals' /\ approvals'[x] = approvals[x],
           \A x \in DOMAIN approvals' : x # p => x \in DOMAIN approvals,
           d.approved # None => p \in DOMAIN approvals' /\ d.approved = approvals'[p],
           p \in DOMAIN approvals' =>
               \A s \in approvals'[p].scopes :
                   ScopeWithin(s, d.scopes) /\ CheckScopeAdmission(s, d.role, AllowOperator)
    PROVE  EnrolInv'
<1>1. /\ Rows("pair")' = Rows("pair") \union {p}
      /\ Doc("pair", p)' = d
      /\ \A x \in Rows("pair") : x # p => Doc("pair", x)' = Doc("pair", x)
      /\ Rows("peer")' = Rows("peer") /\ \A x : Doc("peer", x)' = Doc("peer", x)
      /\ todo' = <<>>
  BY PairWritten
<1>2. NextId("pair") \notin Rows("pair") /\ NextId("pair") = Cardinality(Rows("pair")) + 1
  <2>1. Cardinality(Rows("pair")) \in Nat
    BY FS_CardinalityType DEF EnrolInv, PairTable
  <2> QED
    BY <2>1 DEF EnrolInv, PairTable, NextId
<1>3. IsFiniteSet(Rows("pair")') /\ Rows("pair")' = 1..Cardinality(Rows("pair")')
  <2>1. CASE p \in Rows("pair")
    <3>1. Rows("pair")' = Rows("pair")
      BY <1>1, <2>1
    <3> QED
      BY <3>1 DEF EnrolInv, PairTable
  <2>2. CASE p \notin Rows("pair")
    <3> DEFINE R == Rows("pair")
               c == Cardinality(R)
    <3>1. IsFiniteSet(Rows("pair")') /\ Cardinality(Rows("pair")') = c + 1
      BY <1>1, <2>2, FS_AddElement DEF EnrolInv, PairTable
    <3>2. c \in Nat /\ R = 1..c /\ p = c + 1 /\ Rows("pair")' = R \union {p}
      BY <1>1, <1>2, <2>2, FS_CardinalityType DEF EnrolInv, PairTable
    <3> HIDE DEF R, c
    <3>3. R \union {p} = 1..(c + 1)
      BY <3>2
    <3> QED
      BY <3>1, <3>2, <3>3
  <2> QED
    BY <2>1, <2>2
<1>4. \A x \in DOMAIN approvals : x \in Rows("pair")
  BY DEF EnrolInv, PairTable
<1>5. PairTable'
  <2>1. ASSUME NEW x \in Rows("pair")'
        PROVE  /\ PairFields \subseteq DOMAIN Doc("pair", x)' /\ Doc("pair", x)'.pair = x
               /\ Doc("pair", x)'.approved # None =>
                     x \in DOMAIN approvals' /\ Doc("pair", x)'.approved = approvals'[x]
    <3>1. CASE x = p
      BY <1>1, <3>1
    <3>2. CASE x # p
      BY <1>1, <2>1, <3>2 DEF EnrolInv, PairTable
    <3> QED
      BY <3>1, <3>2
  <2>2. ASSUME NEW x \in DOMAIN approvals'
        PROVE  /\ x \in Rows("pair")'
               /\ \A s \in approvals'[x].scopes :
                     /\ ScopeWithin(s, Doc("pair", x)'.scopes)
                     /\ CheckScopeAdmission(s, Doc("pair", x)'.role, AllowOperator)
    <3>1. CASE x = p
      BY <1>1, <3>1
    <3>2. CASE x # p
      BY <1>1, <1>4, <2>2, <3>2 DEF EnrolInv, PairTable
    <3> QED
      BY <3>1, <3>2
  <2> QED
    BY <1>3, <2>1, <2>2 DEF PairTable
<1>6. PeerTable'
  BY <1>1 DEF EnrolInv, PeerTable
<1>7. EnrolledTable'
  <2>1. ASSUME NEW e \in enrolled
        PROVE  /\ e.pair \in DOMAIN approvals' /\ Doc("pair", e.pair)'.state = "CONSUMED"
               /\ e.peer \in Rows("peer")' /\ PeerMatches(Doc("peer", e.peer), e.pair)'
    <3>1. /\ e.pair \in DOMAIN approvals /\ Doc("pair", e.pair).state = "CONSUMED"
          /\ e.peer \in Rows("peer") /\ PeerMatches(Doc("peer", e.peer), e.pair)
      BY DEF EnrolInv, EnrolledTable
    <3>2. e.pair # p
      BY <1>2, <1>4, <3>1
    <3>3. /\ e.pair \in DOMAIN approvals' /\ approvals'[e.pair] = approvals[e.pair]
          /\ Doc("pair", e.pair)' = Doc("pair", e.pair)
      BY <1>1, <1>4, <3>1, <3>2
    <3> QED
      BY <1>1, <3>1, <3>3 DEF PeerMatches, EnrolledScopes
  <2> QED
    BY <2>1 DEF EnrolInv, EnrolledTable
<1>8. Enrolling(todo)'
  <2>1. Enrolling(<<>>)'
    BY DEF Enrolling
  <2> QED
    BY <1>1, <2>1
<1> QED
  BY <1>5, <1>6, <1>7, <1>8 DEF EnrolInv

LEMMA InvitationEnrols ==
    ASSUME TokensInv, EnrolInv, NEW i \in Invites, CreateInvitation(i),
           UNCHANGED <<approvals, enrolled>>
    PROVE  EnrolInv'
<1> DEFINE p == NextId("pair")
           d == [pair |-> p, role |-> i.role, scopes |-> i.scopes, pinned |-> i.pinned,
                 state |-> "CREATED", epoch |-> epoch, attempts |-> 0,
                 proposal |-> None, approved |-> None,
                 expires |-> now + InviteTtl]
<1>1. Do(<<Put("pair", p, d)>>)
  BY DEF CreateInvitation
<1>2. PairFields \subseteq DOMAIN d /\ d.pair = p /\ d.approved = None
  BY DEF PairFields
<1> HIDE DEF d
<1>3. p \notin DOMAIN approvals
  <2>1. Cardinality(Rows("pair")) \in Nat
    BY FS_CardinalityType DEF EnrolInv, PairTable
  <2>2. NextId("pair") \notin Rows("pair")
    BY <2>1 DEF EnrolInv, PairTable, NextId
  <2> QED
    BY <2>2 DEF EnrolInv, PairTable
<1>4. p = NextId("pair")
  OBVIOUS
<1> HIDE DEF p
<1> QED
  BY <1>1, <1>2, <1>3, <1>4, PairChange

\* A changed proposal drops the approval; only a live invitation takes one.
LEMMA ProposeEnrols ==
    ASSUME TokensInv, EnrolInv, NEW reg \in Registrations, Propose(reg),
           UNCHANGED <<approvals, enrolled>>
    PROVE  EnrolInv'
<1> DEFINE p == reg.pair
           rec == Doc("pair", p)
           x == Proposal(reg)
           new == [rec EXCEPT !.proposal = x, !.approved = None, !.state = "AWAITING_OPERATOR"]
           d == IF rec.proposal = x THEN rec ELSE new
<1>1. p \in Rows("pair")
  BY DEF Registrations
<1>2. /\ PairFields \subseteq DOMAIN rec /\ rec.pair = p
      /\ rec.approved # None => p \in DOMAIN approvals /\ rec.approved = approvals[p]
      /\ p \in DOMAIN approvals =>
            \A s \in approvals[p].scopes :
                ScopeWithin(s, rec.scopes) /\ CheckScopeAdmission(s, rec.role, AllowOperator)
  BY <1>1 DEF EnrolInv, PairTable
<1>3. rec.state # "CONSUMED"
  BY DEF Propose, Validated, Presented, PairLive, Live
<1>4. Do(<<Put("pair", p, d)>>)
  BY DEF Propose
<1>5. /\ PairFields \subseteq DOMAIN d /\ d.pair = p
      /\ d.role = rec.role /\ d.scopes = rec.scopes
      /\ d.approved = rec.approved \/ d.approved = None
  <2>1. /\ PairFields \subseteq DOMAIN new /\ new.pair = rec.pair /\ new.role = rec.role
        /\ new.scopes = rec.scopes /\ new.approved = None
    <3> HIDE DEF rec, x
    <3> QED
      BY <1>2 DEF PairFields
  <2> HIDE DEF new
  <2> QED
    BY <1>2, <2>1
<1> HIDE DEF d
<1>6. /\ d.approved # None => p \in DOMAIN approvals /\ d.approved = approvals[p]
      /\ p \in DOMAIN approvals =>
            \A s \in approvals[p].scopes :
                ScopeWithin(s, d.scopes) /\ CheckScopeAdmission(s, d.role, AllowOperator)
  BY <1>2, <1>5
<1> QED
  BY <1>1, <1>3, <1>4, <1>5, <1>6, PairChange

\* The operator approves scopes within the invitation's.
LEMMA ApproveEnrols ==
    ASSUME TokensInv, EnrolInv, NEW p \in Rows("pair"), NEW x, NEW scopes, Approve(p, x, scopes)
    PROVE  EnrolInv'
<1> DEFINE rec == Doc("pair", p)
           a == [proposal |-> x, scopes |-> scopes]
           d == [rec EXCEPT !.state = "APPROVED", !.approved = a]
<1>1. PairFields \subseteq DOMAIN rec /\ rec.pair = p
  BY PairRow
<1>2. /\ rec.state # "CONSUMED"
      /\ \A s \in scopes :
            ScopeWithin(s, rec.scopes) /\ CheckScopeAdmission(s, rec.role, AllowOperator)
      /\ Do(<<Put("pair", p, d)>>)
      /\ approvals' = With(approvals, p, a) /\ enrolled' = enrolled
  BY DEF Approve, Admitted
<1>3. a.scopes = scopes
  OBVIOUS
<1> HIDE DEF a
<1>4. /\ PairFields \subseteq DOMAIN d /\ d.pair = p
      /\ d.role = rec.role /\ d.scopes = rec.scopes /\ d.approved = a
  <2> HIDE DEF rec
  <2> QED
    BY <1>1 DEF PairFields
<1> HIDE DEF d
<1>5. /\ DOMAIN approvals' = DOMAIN approvals \union {p} /\ approvals'[p] = a
      /\ \A y \in DOMAIN approvals : y # p => approvals'[y] = approvals[y]
  BY <1>2 DEF With
<1>6. \A s \in approvals'[p].scopes :
         ScopeWithin(s, d.scopes) /\ CheckScopeAdmission(s, d.role, AllowOperator)
  BY <1>2, <1>3, <1>4, <1>5
<1> QED
  BY <1>2, <1>4, <1>5, <1>6, PairChange

-----------------------------------------------------------------------------
(* The calls that write peers. *)

LEMMA DisconnectEnrols ==
    ASSUME TokensInv, EnrolInv, NEW p \in Rows("peer"), Disconnect(p),
           UNCHANGED <<approvals, enrolled>>
    PROVE  EnrolInv'
<1> DEFINE d == Doc("peer", p)
           e == [d EXCEPT !.state = "DISCONNECTED"]
           w == Put("peer", p, e)
           q == <<w>>
<1>1. PeerFields \subseteq DOMAIN d
  BY DEF EnrolInv, PeerTable
<1>2. PeerFields \subseteq DOMAIN e /\ SamePeer(e, d)
  <2> HIDE DEF d
  <2> QED
    BY <1>1 DEF PeerFields, SamePeer
<1>3. Do(q)
  BY DEF Disconnect
<1> HIDE DEF e
<1>4. w.kind = "peer" /\ w.id = p /\ w.doc = e /\ "peer" \in Kinds
  BY DEF Put, Kinds
<1> HIDE DEF w
<1>5. IsSeq(q) /\ Len(q) = 1 /\ q[1] = w
  BY OneItem
<1> HIDE DEF q
<1>6. Enrolling(q)
  <2>1. \A i \in 1..Len(q) : i = 1
    BY <1>5
  <2> QED
    BY <1>2, <1>4, <1>5, <2>1 DEF Enrolling, WritesPeer
<1> QED
  BY <1>3, <1>4, <1>5, <1>6, EnrolDo

LEMMA RevokePeerEnrols ==
    ASSUME TokensInv, EnrolInv, NEW p \in Rows("peer"), RevokePeer(p),
           UNCHANGED <<approvals, enrolled>>
    PROVE  EnrolInv'
<1> DEFINE gs == {g \in Rows("grant") : /\ Doc("grant", g).peer = p
                                        /\ Doc("grant", g).state = "ACTIVE"}
           d == Doc("peer", p)
           e == [d EXCEPT !.state = "REVOKED", !.revision = @ + 1]
           w == Put("peer", p, e)
<1>1. PICK ws \in RevokeGrants(gs) : Do(<<w>> \o ws)
  BY DEF RevokePeer
<1> DEFINE q == <<w>> \o ws
<1>2. PeerFields \subseteq DOMAIN e /\ SamePeer(e, d)
  <2>1. PeerFields \subseteq DOMAIN d
    BY DEF EnrolInv, PeerTable
  <2> HIDE DEF d
  <2> QED
    BY <2>1 DEF PeerFields, SamePeer
<1> HIDE DEF e
<1>3. w.kind = "peer" /\ w.id = p /\ w.doc = e /\ "peer" \in Kinds
  BY DEF Put, Kinds
<1> HIDE DEF w
<1>4. gs \in SUBSET Rows("grant")
  OBVIOUS
<1> HIDE DEF gs
<1>5. IsSeq(ws) /\ \A i \in 1..Len(ws) : ws[i].kind = "grant"
  BY <1>4, Revocations DEF Revokes
<1>6. /\ IsSeq(q) /\ Len(ws) \in Nat /\ Len(q) = 1 + Len(ws)
      /\ q[1] = w
      /\ \A i \in 1..Len(ws) : q[1 + i] = ws[i]
  <2>1. IsSeq(<<w>>) /\ Len(<<w>>) = 1 /\ <<w>>[1] = w
    BY OneItem
  <2> QED
    BY <1>5, <2>1, BothItems
<1> HIDE DEF q
<1>7. \A i \in 1..Len(q) : i # 1 => q[i].kind = "grant"
  <2> SUFFICES ASSUME NEW i \in 1..Len(q), i # 1 PROVE q[i].kind = "grant"
    OBVIOUS
  <2>1. i - 1 \in 1..Len(ws) /\ q[i] = ws[i - 1]
    BY <1>6
  <2> QED
    BY <1>5, <2>1
<1>8. WritesPeer(q, 1)
  BY <1>2, <1>3, <1>6, <1>7 DEF WritesPeer
<1>9. Enrolling(q)
  <2> SUFFICES ASSUME NEW i \in 1..Len(q)
               PROVE  /\ q[i].kind \in {"peer", "grant"}
                      /\ q[i].kind = "peer" => WritesPeer(q, i)
    BY DEF Enrolling
  <2> QED
    BY <1>3, <1>6, <1>7, <1>8
<1> QED
  BY <1>1, <1>3, <1>6, <1>9, EnrolDo DEF q

\* An enrolment: the peer has the key, the proposal and the scopes of the
\* approval, which is the last of its invitation, and the invitation is
\* consumed before the answer goes out.
LEMMA RegisterEnrols ==
    ASSUME TokensInv, EnrolInv, NEW reg \in Registrations, Register(reg),
           UNCHANGED <<approvals, enrolled>>
    PROVE  EnrolInv'
<1> DEFINE p == reg.pair
           rec == Doc("pair", p)
           new == [rec EXCEPT !.state = "CONSUMED"]
           e == [pair |-> p, peer |-> NextId("peer")]
<1>1. PICK q, m : Do(q) /\ Enrols(q, m, reg)
  BY RegisterItems
<1>2. p \in Rows("pair")
  BY DEF Registrations
<1>3. /\ PairFields \subseteq DOMAIN rec /\ rec.pair = p
      /\ p \in DOMAIN approvals /\ rec.approved = approvals[p]
      /\ rec.state = "APPROVED" /\ rec.approved.proposal = <<reg.key, reg.claim>>
  BY <1>2 DEF Register, Registerable, Proposal, EnrolInv, PairTable
<1>4. KeepsPair(new, rec) /\ new.state = "CONSUMED"
  BY <1>3, Moved
<1>5. \A f \in enrolled : f.pair # p
  BY <1>3 DEF EnrolInv, EnrolledTable
<1>6. /\ IsSeq(q) /\ m \in Nat /\ m >= 1 /\ Len(q) = m + 4
      /\ \A i \in 1..(m - 1) : q[i].kind = "source"
      /\ q[m].kind = "peer" /\ q[m].id = NextId("peer")
      /\ q[m + 1].kind = "grant" /\ q[m + 2].kind = "challenge"
      /\ q[m + 3].kind = "pair" /\ q[m + 3].id = p /\ q[m + 3].doc = new
      /\ q[m + 4].kind = "answer" /\ q[m + 4].id = "enrol" /\ q[m + 4].doc = e
  BY <1>1 DEF Enrols, Issue, Put, Answer
<1>7. PeerFields \subseteq DOMAIN q[m].doc /\ PeerMatches(q[m].doc, p)
  <2> DEFINE d == q[m].doc
  <2>1. /\ PeerFields \subseteq DOMAIN d
        /\ d.key = reg.key /\ d.claim = reg.claim /\ d.role = rec.role
        /\ d.scopes = EffectiveScopes(reg)
    BY <1>1 DEF Enrols, PeerOf
  <2>2. EffectiveScopes(reg) = EnrolledScopes(approvals[p], reg.claim)
    BY <1>3 DEF EffectiveScopes, EnrolledScopes
  <2> HIDE DEF d
  <2>3. PeerMatches(d, p)
    BY <1>3, <2>1, <2>2 DEF PeerMatches
  <2> QED
    BY <2>1, <2>3 DEF d
<1> HIDE DEF new
<1>8. ASSUME NEW i \in 1..Len(q)
      PROVE  i \in 1..(m - 1) \/ i = m \/ i = m + 1 \/ i = m + 2 \/ i = m + 3 \/ i = m + 4
  BY <1>6
<1>9. WritesPeer(q, m)
  <2>1. ASSUME NEW j \in 1..Len(q), j # m PROVE q[j].kind # "peer"
    BY <1>6, <1>8, <2>1
  <2> QED
    BY <1>6, <1>7, <2>1 DEF WritesPeer
<1>10. MovesPair(q, m + 3)
  <2>1. ASSUME NEW j \in 1..((m + 3) - 1) PROVE q[j].kind # "pair"
    <3>1. j \in 1..(m - 1) \/ j = m \/ j = m + 1 \/ j = m + 2
      BY <1>6
    <3> QED
      BY <1>6, <3>1
  <2> QED
    BY <1>2, <1>4, <1>6, <2>1 DEF MovesPair
<1>11. AnswersEnrol(q, m + 4)
  <2>1. e.pair = p /\ e.peer = NextId("peer")
    OBVIOUS
  <2> HIDE DEF e, p
  <2>2. m \in 1..((m + 4) - 1) /\ m + 3 \in 1..((m + 4) - 1)
    BY <1>6
  <2>3. WrittenBefore(q, m + 4, "pair", p) /\ WrittenBefore(q, m + 4, "peer", NextId("peer"))
    BY <1>6, <2>2 DEF WrittenBefore
  <2>4. ASSUME NEW j \in 1..((m + 4) - 1)
        PROVE  /\ q[j].kind = "pair" => q[j].doc.state = "CONSUMED"
               /\ q[j].kind = "peer" => q[j].id = NextId("peer") /\ PeerMatches(q[j].doc, p)
    <3>1. j \in 1..(m - 1) \/ j = m \/ j = m + 1 \/ j = m + 2 \/ j = m + 3
      BY <1>6
    <3>2. CASE j = m
      BY <1>6, <1>7, <3>2
    <3>3. CASE j = m + 3
      BY <1>4, <1>6, <3>3
    <3> QED
      BY <1>6, <3>1, <3>2, <3>3
  <2> QED
    BY <1>3, <1>5, <1>6, <2>1, <2>3, <2>4 DEF AnswersEnrol
<1>12. Enrolling(q)
  <2> SUFFICES ASSUME NEW i \in 1..Len(q)
               PROVE  /\ q[i].kind = "pair" => MovesPair(q, i)
                      /\ q[i].kind = "peer" => WritesPeer(q, i)
                      /\ q[i].kind = "answer" /\ q[i].id = "enrol" => AnswersEnrol(q, i)
    BY DEF Enrolling
  <2>1. CASE i = m
    BY <1>6, <1>9, <2>1
  <2>2. CASE i = m + 3
    BY <1>6, <1>10, <2>2
  <2>3. CASE i = m + 4
    BY <1>6, <1>11, <2>3
  <2>4. CASE i \in 1..(m - 1) \/ i = m + 1 \/ i = m + 2
    BY <1>6, <2>4
  <2> QED
    BY <1>8, <2>1, <2>2, <2>3, <2>4
<1>13. q[1].kind \in Kinds
  <2>1. 1 \in 1..(m - 1) \/ m = 1
    BY <1>6
  <2> QED
    BY <1>6, <2>1 DEF Kinds
<1> QED
  BY <1>1, <1>6, <1>12, <1>13, EnrolDo

-----------------------------------------------------------------------------
(* An enrolment: the handler's later steps, and the whole step. *)

LEMMA CommitEnrols ==
    ASSUME TokensInv, EnrolInv, CommitDoc
    PROVE  EnrolInv'
<1>1. /\ IsSeq(todo) /\ todo # <<>> /\ todo[1].kind \in Kinds
      /\ db' = Committed(todo[1]) /\ todo' = Tail(todo)
      /\ approvals' = approvals /\ enrolled' = enrolled
  <2>1. IsSeq(todo) /\ todo # <<>>
    BY DEF TokensInv, CommitDoc, Idle
  <2>2. 1 \in 1..Len(todo) /\ Head(todo) = todo[1]
    BY <2>1, TailItems
  <2>3. todo[1].kind \in Kinds \union {"answer"}
    BY <2>2 DEF TokensInv, Pending
  <2> QED
    BY <2>1, <2>2, <2>3 DEF CommitDoc, history
<1>2. todo[1].kind = "pair" \/ todo[1].kind = "peer" \/ todo[1].kind \in Kinds \ {"pair", "peer"}
  BY <1>1
<1> QED
  BY <1>1, <1>2, PairCommit, PeerCommit, AsideCommit DEF EnrolInv

\* The answer to an enrolment finds its invitation consumed and its peer there.
LEMMA DeliverEnrols ==
    ASSUME TokensInv, EnrolInv, Deliver
    PROVE  EnrolInv'
<1> DEFINE a == todo[1]
<1>1. /\ a.kind = "answer" /\ 1 \in 1..Len(todo)
      /\ enrolled' = IF a.id = "enrol" THEN enrolled \union {a.doc} ELSE enrolled
      /\ todo' = <<>> /\ db' = db /\ approvals' = approvals
  <2>1. IsSeq(todo) /\ todo # <<>>
    BY DEF TokensInv, Deliver, Idle
  <2>2. Head(todo) = todo[1] /\ 1 \in 1..Len(todo)
    BY <2>1, TailItems
  <2> QED
    BY <2>2 DEF Deliver
<1>2. CASE a.id # "enrol"
  <2>1. enrolled' = enrolled
    BY <1>1, <1>2
  <2> QED
    BY <1>1, <2>1, EnrolIdle
<1>3. CASE a.id = "enrol"
  <2> DEFINE e == a.doc
  <2>1. AnswersEnrol(todo, 1)
    BY <1>1, <1>3 DEF EnrolInv, Enrolling
  <2>2. \A kind, id : ~WrittenBefore(todo, 1, kind, id)
    BY DEF WrittenBefore
  <2>3. /\ e.pair \in DOMAIN approvals /\ \A f \in enrolled : f.pair # e.pair
        /\ Doc("pair", e.pair).state = "CONSUMED"
        /\ e.peer \in Rows("peer") /\ PeerMatches(Doc("peer", e.peer), e.pair)
    BY <2>1, <2>2 DEF AnswersEnrol
  <2>4. enrolled' = enrolled \union {e}
    BY <1>1, <1>3
  <2> HIDE DEF e
  <2>5. /\ \A f \in enrolled' :
              /\ f.pair \in DOMAIN approvals /\ Doc("pair", f.pair).state = "CONSUMED"
              /\ f.peer \in Rows("peer") /\ PeerMatches(Doc("peer", f.peer), f.pair)
        /\ \A f, g \in enrolled' : f.pair = g.pair => f = g
    BY <2>3, <2>4 DEF EnrolInv, EnrolledTable
  <2>6. PairTable' /\ PeerTable' /\ EnrolledTable'
    BY <1>1, <2>5 DEF EnrolInv, PairTable, PeerTable, EnrolledTable, PeerMatches,
                      EnrolledScopes, Rows, Doc
  <2>7. Enrolling(todo)'
    <3>1. Enrolling(<<>>)'
      BY DEF Enrolling
    <3> QED
      BY <1>1, <3>1
  <2> QED
    BY <2>6, <2>7 DEF EnrolInv
<1> QED
  BY <1>2, <1>3

LEMMA EnrolStep ==
    ASSUME TokensInv, EnrolInv, [Next]_vars
    PROVE  EnrolInv'
<1>1. CASE Call /\ UNCHANGED history
  <2>1. UNCHANGED <<approvals, enrolled>>
    BY <1>1 DEF history
  <2>2. CASE \E i \in Invites : CreateInvitation(i)
    BY <2>1, <2>2, InvitationEnrols
  <2>3. CASE \E reg \in Registrations : Propose(reg)
    BY <2>1, <2>3, ProposeEnrols
  <2>4. CASE \E reg \in Registrations : Register(reg)
    BY <2>1, <2>4, RegisterEnrols
  <2>5. CASE \E reg \in Registrations : RefuseRegistration(reg)
    BY <2>1, <2>5, RefusalEnrols
  <2>6. CASE \E p \in Rows("pair"), code \in {"none", "wrong"} : GetPair(p, code)
    BY <2>1, <2>6, GetPairEnrols
  <2>7. CASE \E p \in Rows("pair") : CancelPair(p)
    BY <2>1, <2>7, CancelEnrols
  <2>8. CASE \E k \in Keys : Challenge(k)
    BY <2>1, <2>8, ChallengeEnrols
  <2>9. CASE \E g \in Rows("grant"), c \in Rows("challenge"), r \in Requests : Renew(g, c, r)
    BY <2>1, <2>9, RenewEnrols
  <2>10. CASE \E p \in Rows("peer") : RevokePeer(p)
    BY <2>1, <2>10, RevokePeerEnrols
  <2>11. CASE \E p \in Rows("peer") : Disconnect(p)
    BY <2>1, <2>11, DisconnectEnrols
  <2>12. CASE \E g \in Rows("grant"), n \in Nonces, i \in 0..now, by \in Keys :
                 Authenticate([grant |-> g, nonce |-> n, issued |-> i], by)
    BY <2>1, <2>12, AuthenticateEnrols
  <2> QED
    BY <1>1, <2>2, <2>3, <2>4, <2>5, <2>6, <2>7, <2>8, <2>9, <2>10, <2>11, <2>12 DEF Call
<1>2. CASE \E p \in Rows("pair"), k \in Keys, c \in DOMAIN Claims, scopes \in ApproveScopes :
               Approve(p, <<k, c>>, scopes)
  BY <1>2, ApproveEnrols
<1>3. CASE CommitDoc
  BY <1>3, CommitEnrols
<1>4. CASE Deliver
  BY <1>4, DeliverEnrols
<1>5. CASE CommitFails \/ Reboot \/ Tick
  <2>1. db' = db /\ (todo' = todo \/ todo' = <<>>) /\ approvals' = approvals /\ enrolled' = enrolled
    BY <1>5 DEF CommitFails, Reboot, Tick, history
  <2> QED
    BY <2>1, EnrolIdle
<1>6. CASE UNCHANGED vars
  <2>1. db' = db /\ todo' = todo /\ approvals' = approvals /\ enrolled' = enrolled
    BY <1>6 DEF vars, history
  <2> QED
    BY <2>1, EnrolIdle
<1> QED
  BY <1>1, <1>2, <1>3, <1>4, <1>5, <1>6 DEF Next

LEMMA EnrolInit == Init => EnrolInv
<1> SUFFICES ASSUME Init PROVE EnrolInv
  OBVIOUS
<1>1. /\ db = [k \in Kinds |-> <<>>] /\ todo = <<>>
      /\ approvals = <<>> /\ enrolled = {}
  BY DEF Init
<1>2. Rows("pair") = {} /\ Rows("peer") = {} /\ DOMAIN approvals = {}
  BY <1>1 DEF Rows, Kinds
<1>3. IsFiniteSet({}) /\ Cardinality({}) = 0 /\ 1..0 = {}
  BY FS_EmptySet
<1>4. PairTable /\ PeerTable /\ EnrolledTable
  BY <1>1, <1>2, <1>3 DEF PairTable, PeerTable, EnrolledTable
<1>5. Enrolling(todo)
  BY <1>1, NoItems DEF Enrolling
<1> QED
  BY <1>4, <1>5 DEF EnrolInv

-----------------------------------------------------------------------------
(* What an invitation enrols. *)

\* An invitation enrols one peer at most, and that peer has the key and the
\* claim of the operator's last approval, and no grant beyond the approval,
\* the invitation, the policy and the signed capabilities (agent.register,
\* pairs.ts assertRegisterable and consume, scopes.ts).
THEOREM EnrolsAsApproved == Spec => []EnrolledAsApproved
<1>1. TokensInv /\ EnrolInv => EnrolledAsApproved
  <2> SUFFICES ASSUME TokensInv, EnrolInv PROVE EnrolledAsApproved
    OBVIOUS
  <2> SUFFICES ASSUME NEW e \in enrolled
               PROVE  LET peer == Doc("peer", e.peer)
                          may  == {x \in Grants(approvals[e.pair].scopes) \intersect
                                         Grants(Doc("pair", e.pair).scopes) \intersect Grants(Policy) :
                                      /\ x[1] = "emit" /\ x[2] = "topics" =>
                                            x[3] \in Claims[peer.claim].emit
                                      /\ x[1] = "approvals" => Claims[peer.claim].request_approvals}
                      IN  /\ <<peer.key, peer.claim>> = approvals[e.pair].proposal
                          /\ Grants(peer.scopes) \subseteq may
                          /\ peer.role = "agent" => \A s \in peer.scopes : s.permission # "manage"
                          /\ \A f \in enrolled : f.pair = e.pair => f = e
    BY DEF EnrolledAsApproved
  <2> DEFINE peer == Doc("peer", e.peer)
             pair == Doc("pair", e.pair)
             a    == approvals[e.pair]
             cap  == Claims[peer.claim]
  <2>1. /\ <<peer.key, peer.claim>> = a.proposal
        /\ peer.scopes = BindCapabilities(IntersectPolicy(a.scopes, Policy), cap)
        /\ peer.role = pair.role
        /\ \A f \in enrolled : f.pair = e.pair => f = e
    BY DEF EnrolInv, EnrolledTable, PeerMatches, EnrolledScopes
  <2>2. \A s \in a.scopes : /\ ScopeWithin(s, pair.scopes)
                            /\ CheckScopeAdmission(s, pair.role, AllowOperator)
    BY DEF EnrolInv, EnrolledTable, PairTable
  <2> HIDE DEF peer, pair, a, cap
  <2>3. ASSUME NEW x \in Grants(peer.scopes)
        PROVE  /\ x \in Grants(a.scopes) /\ x \in Grants(pair.scopes) /\ x \in Grants(Policy)
               /\ x[1] = "emit" /\ x[2] = "topics" => x[3] \in cap.emit
               /\ x[1] = "approvals" => cap.request_approvals
    <3>1. /\ x \in Grants(IntersectPolicy(a.scopes, Policy))
          /\ x[1] = "emit" /\ x[2] = "topics" => x[3] \in cap.emit
          /\ x[1] = "approvals" => cap.request_approvals
      BY <2>1, CapabilityGrants
    <3>2. x \in Grants(a.scopes) /\ x \in Grants(Policy)
      BY <3>1, PolicyGrants
    <3>3. Grants(a.scopes) \subseteq Grants(pair.scopes)
      BY <2>2, WithinGrants
    <3> QED
      BY <3>1, <3>2, <3>3
  <2>4. ASSUME peer.role = "agent", NEW s \in peer.scopes
        PROVE  s.permission # "manage"
    <3>1. PICK o \in a.scopes : o.permission = s.permission
      BY <2>1, SamePermissions
    <3> QED
      BY <2>1, <2>2, <2>4, <3>1 DEF CheckScopeAdmission
  <2> QED
    BY <2>1, <2>3, <2>4 DEF peer, pair, a, cap
<1>2. Init => TokensInv /\ EnrolInv
  BY TokensInit, EnrolInit
<1>3. TokensInv /\ EnrolInv /\ [Next]_vars => TokensInv' /\ EnrolInv'
  BY TokensStep, EnrolStep
<1> QED
  BY <1>1, <1>2, <1>3, PTL DEF Spec

=============================================================================
