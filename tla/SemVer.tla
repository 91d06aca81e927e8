------------------------------- MODULE SemVer -------------------------------
(***************************************************************************)
(* Versions and version ranges (core/src/v2/lifecycle/semver.ts).  A       *)
(* version is its numeric core and its prerelease identifiers; build       *)
(* metadata takes no part.  An identifier is <<0, n>> for the number n and *)
(* <<1, n>> for the n-th alphanumeric one, so that numbers come first.  A  *)
(* range is a hyphen range of two versions, a caret or tilde range of one  *)
(* version that may lack its last components, or a set of comparators.     *)
(***************************************************************************)
EXTENDS Integers, Sequences

Version(core, pre) == [core |-> core, pre |-> pre]

\* s comes before t: a difference decides, else the prefix comes first.
Lexicographic(s, t, Less(_, _)) ==
    \E i \in DOMAIN t :
        /\ \A j \in 1..(i - 1) : j \in DOMAIN s /\ s[j] = t[j]
        /\ i \in DOMAIN s => Less(s[i], t[i])

IdentifierLess(x, y) == x[1] < y[1] \/ (x[1] = y[1] /\ x[2] < y[2])

\* A prerelease comes before its release.
PreLess(p, q) == p # <<>> /\ (q = <<>> \/ Lexicographic(p, q, IdentifierLess))

\* compareSemver(v, w) < 0.
Precedes(v, w) ==
    \/ Lexicographic(v.core, w.core, <)
    \/ v.core = w.core /\ PreLess(v.pre, w.pre)

AtLeast(v, w) == ~Precedes(v, w)

\* The version with zeros for the missing components of a partial one.
Pad(p) == Version([i \in 1..3 |-> IF i \in DOMAIN p.parts THEN p.parts[i] ELSE 0], p.pre)

\* The first release in which component i is higher.
Bump(p, i) ==
    Version([j \in 1..3 |-> IF j < i THEN p.parts[j] ELSE IF j = i THEN p.parts[i] + 1 ELSE 0], <<>>)

NextAfter(p) == Bump(p, Len(p.parts))

\* comparatorBounds: a missing component is a wildcard; "<" drops the
\* prerelease; an exact prerelease reaches up to the next patch.
Meets(v, c) ==
    LET whole == Len(c.parts) = 3
    IN  CASE c.op = ">"  -> IF whole THEN Precedes(Pad(c), v) ELSE AtLeast(v, NextAfter(c))
          [] c.op = ">=" -> AtLeast(v, Pad(c))
          [] c.op = "<"  -> Precedes(v, [Pad(c) EXCEPT !.pre = <<>>])
          [] c.op = "<=" -> IF whole THEN AtLeast(Pad(c), v) ELSE Precedes(v, NextAfter(c))
          [] c.op = "="  -> /\ AtLeast(v, Pad(c))
                            /\ IF whole /\ c.pre = <<>>
                               THEN AtLeast(Pad(c), v) ELSE Precedes(v, NextAfter(c))

\* caretBounds: compatible up to the first component that is not zero.
CaretTop(p) ==
    IF p.parts[1] > 0 \/ Len(p.parts) = 1 THEN Bump(p, 1)
    ELSE IF p.parts[2] > 0 \/ Len(p.parts) = 2 THEN Bump(p, 2)
    ELSE Bump(p, 3)

\* tildeBounds.
TildeTop(p) == Bump(p, IF Len(p.parts) = 1 THEN 1 ELSE 2)

\* satisfiesSemver; only runtime.node allows partial versions.
Satisfies(v, r, allowPartial) ==
    LET whole(p) == allowPartial \/ Len(p.parts) = 3
    IN  CASE r.kind = "hyphen" -> AtLeast(v, r.low) /\ AtLeast(r.high, v)
          [] r.kind = "caret"  -> whole(r) /\ AtLeast(v, Pad(r)) /\ Precedes(v, CaretTop(r))
          [] r.kind = "tilde"  -> whole(r) /\ AtLeast(v, Pad(r)) /\ Precedes(v, TildeTop(r))
          [] r.kind = "set"    -> \A c \in r.set : whole(c) /\ Meets(v, c)

Caret(parts)  == [kind |-> "caret", parts |-> parts, pre |-> <<>>]
Exactly(parts) == [kind |-> "set", set |-> {[op |-> "=", parts |-> parts, pre |-> <<>>]}]

=============================================================================
