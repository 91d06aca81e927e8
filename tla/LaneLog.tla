------------------------------ MODULE LaneLog ------------------------------
(***************************************************************************)
(* What a lane of the store promises its readers: a log of records that is *)
(* only ever extended, each record under a cursor above all cursors before *)
(* it, and callers told no cursor but that of a record in the log.  There  *)
(* are no segments, no orphans and no crashes here.                        *)
(***************************************************************************)
EXTENDS Naturals, Sequences

CONSTANTS Records, MaxCursor

VARIABLES log,   \* the committed records, [id, cursor], in commit order
          told   \* what callers were told

Entry == [id : Records, cursor : 1..MaxCursor]

Rising(s) == \A i, k \in DOMAIN s : i < k => s[i].cursor < s[k].cursor

Init == log = <<>> /\ told = {}

\* A longer log that begins with the old one.
Extends(old, new) ==
    /\ Len(new) > Len(old) /\ SubSeq(new, 1, Len(old)) = old
    /\ new \in Seq(Entry) /\ Rising(new)

Extend == told' = told /\ Extends(log, log')

Holds(entries, new) == \A t \in new : \E i \in DOMAIN entries : entries[i] = t

Tell == /\ told' # told /\ told \subseteq told' /\ log' = log
        /\ Holds(log, told' \ told)

Spec == Init /\ [][Extend \/ Tell]_<<log, told>>
=============================================================================
