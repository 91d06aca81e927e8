----------------------------- MODULE CommitLog -----------------------------
(***************************************************************************)
(* What the gateway's store promises its callers: one append-only log of   *)
(* commits.  A commit takes the next free tx, keeps it for ever, and only  *)
(* then may its caller be told that tx.  There is no crash here: a crash   *)
(* of the store must look like a step of this log or like no step at all.  *)
(***************************************************************************)
EXTENDS Naturals, Sequences

CONSTANT Ops   \* names of commits

VARIABLES log,    \* the durable commits, in the order of their tx
          told    \* answers given to callers

Distinct(s) == \A i, k \in 1..Len(s) : s[i] = s[k] => i = k

Init == log \in Seq(Ops) /\ Distinct(log) /\ told = {}

\* Commits become durable behind the ones that are, each one once.
Durable == /\ log' \in Seq(Ops)
           /\ Len(log') > Len(log)
           /\ \A i \in 1..Len(log) : log'[i] = log[i]
           /\ Distinct(log')
           /\ UNCHANGED told

\* A caller is told the tx of its commit, once and only after it is durable.
Tell(i) == /\ \A t \in told : t.tx # i
           /\ told' = told \cup {[tx |-> i, op |-> log[i]]}
           /\ UNCHANGED log

Next == \/ Durable
        \/ \E i \in 1..Len(log) : Tell(i)

vars == <<log, told>>

Spec == Init /\ [][Next]_vars

=============================================================================
