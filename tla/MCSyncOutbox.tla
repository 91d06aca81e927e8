---------------------------- MODULE MCSyncOutbox ----------------------------
(***************************************************************************)
(* Instances of SyncOutbox for TLC: the third item has a stream of its own *)
(* where there are two.                                                    *)
(***************************************************************************)
EXTENDS SyncOutbox

CONSTANTS s1, s2, d1, d2

MCStreamOf == [i \in Items |-> IF i = 3 /\ s2 \in Streams THEN s2 ELSE s1]

MCInitDest == [s \in Streams |-> IF s = s2 /\ d2 \in Destinations THEN d2 ELSE d1]

=============================================================================
