--------------------------- MODULE PromiseProofs ---------------------------
(***************************************************************************)
(* Four things the clients and the operator of a daemon rely on, for any   *)
(* requests, migrations, documents, events, consents, indexes and bounds:  *)
(* an answer a client was given sticks, the migration of the configuration *)
(* file loses nothing, a sync stream discloses only what its consent lets  *)
(* out, and the catalog is not rolled back and keeps what is pinned.  The  *)
(* modules share no state; each theorem is about the specification of its  *)
(* own.                                                                    *)
(*                                                                         *)
(* Dispatch, when no client sends a key again that is in flight.  A key    *)
(* gets its binding from a call that no other call of the key runs beside, *)
(* and a call is only admitted while its key has no row; a binding without *)
(* a row is still being acknowledged, or the store it was to be shown in   *)
(* is closed and admits nothing.                                           *)
(*                                                                         *)
(* Migration.  The property is about the file and its backup in the        *)
(* directory of the moment; the invariant is about every directory a loss  *)
(* of power may leave, Views.  In each of them the file and the backup it  *)
(* needs are whole and synced, so nothing can be torn that a name leads    *)
(* to, and a name of a backup leads to a file that has no other name, so   *)
(* that nobody writes to it.  An invocation that holds a temporary file    *)
(* holds it alone.                                                         *)
(*                                                                         *)
(* Disclosure.  A row is what its event says under the consent it was made *)
(* with, and its id names the event and the policy; since the policy       *)
(* decides the projection, a row that is there already is the one that     *)
(* would be stored.                                                        *)
(*                                                                         *)
(* Catalog.  A refresh commits the cache before the highest revision, so   *)
(* the cache is at it, or ahead where the daemon died between the two.     *)
(***************************************************************************)
EXTENDS CatalogStore, ConfigFile, Disclosure, Dispatch, TLAPS

-----------------------------------------------------------------------------
(* Dispatch.                                                               *)

Bodies  == {q.body : q \in Requests} \cup {"none"}
Stages  == {"service", "commit", "ack", "audit"}
Executions == [req : Requests, boot : Nat]
Entries == [req : Requests, outcome : {"OK", "FAILED"}, result : Nat]
RPCs    == {Free} \cup [at : Stages, req : Requests, result : Nat]

\* The types of the state.
Types ==
    /\ state \in {"READY", "DRAINING", "STOPPED", "DOWN"}
    /\ {stopping, timer, listening, storeOpen} \subseteq BOOLEAN
    /\ call \in [Calls -> RPCs]
    /\ rows \in [Keys -> [body : Bodies, result : Nat]]
    /\ log \in Seq(Entries)
    /\ executed \in Seq(Executions)
    /\ told \subseteq [req : Requests, result : Nat]
    /\ boots \in Nat

\* An execution is numbered from 1, so no binding looks like a missing row.
Numbered ==
    /\ \A c \in Calls : call[c].at \in {"commit", "ack"} /\ Mutating(call[c].req)
                            => call[c].result # 0
    /\ \A k \in Keys : \A i \in Bindings(k) : log[i].result # 0

\* The clients wait for an answer before they send a key again.
OnePerKey ==
    \A c, d \in InFlight : c # d => call[c].req.key # call[d].req.key

\* A row shows a binding of the journal.
RowsBound ==
    \A k \in Keys : rows[k] # NoRow => \E i \in Bindings(k) : rows[k] = RowOf(log[i])

\* A mutation on its way to the commit has no binding yet.
PendingUnbound ==
    \A c \in InFlight : \A k \in Keys :
        Mutating(call[c].req) /\ call[c].req.key = k /\ call[c].at # "ack"
            => Bindings(k) = {}

\* A mutation to be acknowledged is bound.
AckBound ==
    \A c \in InFlight : \A k \in Keys :
        Mutating(call[c].req) /\ call[c].req.key = k /\ call[c].at = "ack"
            => \E i \in Bindings(k) : /\ log[i].req = call[c].req
                                      /\ log[i].result = call[c].result

\* A binding is served, unless its acknowledgement is still to come.
BoundServed ==
    storeOpen => \A k \in Keys : \A i \in Bindings(k) :
        \/ rows[k] = RowOf(log[i])
        \/ \E c \in InFlight : /\ call[c].at = "ack"
                               /\ Mutating(call[c].req)
                               /\ call[c].req.key = k

\* What a client was told is bound.
ToldBound ==
    \A t \in told : Mutating(t.req) =>
        \E i \in Bindings(t.req.key) : RowOf(log[i]) = [body |-> t.req.body,
                                                        result |-> t.result]

IInv == /\ Types /\ Numbered /\ OnePerKey /\ RowsBound /\ PendingUnbound /\ AckBound
        /\ BoundServed /\ ToldBound /\ BoundOnce
        /\ listening => storeOpen

-----------------------------------------------------------------------------
(* Lemmas about the journal. *)

\* A line appended to the journal binds its own key and no other.
LEMMA BindingsAppend ==
    ASSUME Types, NEW e \in Entries, log' = Append(log, e), NEW k
    PROVE  /\ \A i : i \in Bindings(k)' <=>
                 \/ i \in Bindings(k)
                 \/ i = Len(log) + 1 /\ e.outcome = "OK" /\ Mutating(e.req) /\ e.req.key = k
           /\ e.outcome # "OK" => Bindings(k)' = Bindings(k)
           /\ \A i \in Bindings(k) : log'[i] = log[i]
           /\ log'[Len(log) + 1] = e
<1>1. /\ Len(log') = Len(log) + 1 /\ Len(log) \in Nat
      /\ \A i \in 1..Len(log) : log'[i] = log[i]
      /\ log'[Len(log) + 1] = e
  BY DEF Types
<1>2. \A i : i \in 1..Len(log') <=> i \in 1..Len(log) \/ i = Len(log) + 1
  BY <1>1
<1>3. \A i : i \in Bindings(k)' <=>
                 \/ i \in Bindings(k)
                 \/ i = Len(log) + 1 /\ e.outcome = "OK" /\ Mutating(e.req) /\ e.req.key = k
  BY <1>1, <1>2 DEF Bindings
<1>4. \A i \in Bindings(k) : log'[i] = log[i]
  BY <1>1 DEF Bindings
<1> QED
  BY <1>1, <1>3, <1>4

\* Nothing is bound anew while the journal stays.
LEMMA BindingsStay ==
    ASSUME UNCHANGED log, NEW k PROVE Bindings(k)' = Bindings(k)
  BY DEF Bindings

\* A replay shows the one binding of a key.
LEMMA ReplayedOne ==
    ASSUME BoundOnce, NEW k \in Keys, NEW i \in Bindings(k)
    PROVE  Replayed[k] = RowOf(log[i])
<1>1. \A j \in Bindings(k) : j = i
  BY DEF BoundOnce
<1>2. (CHOOSE m \in Bindings(k) : \A j \in Bindings(k) : j <= m) = i
  <2>1. i \in Int
    BY DEF Bindings
  <2>2. \A j \in Bindings(k) : j <= i
    BY <1>1, <2>1
  <2> QED
    BY <1>1, <2>2
<1> QED
  BY <1>2 DEF Replayed

LEMMA ReplayedNone ==
    ASSUME NEW k \in Keys, Bindings(k) = {} PROVE Replayed[k] = NoRow
  BY DEF Replayed

-----------------------------------------------------------------------------
(* The invariant is inductive. *)

\* No binding is lost or changed.
BindingsKept == \A k : \A i \in Bindings(k) : i \in Bindings(k)' /\ log'[i] = log[i]

\* What clients were told stays bound, and so do the rows that stay.
LEMMA KeptBound ==
    ASSUME IInv, BindingsKept
    PROVE  /\ UNCHANGED rows => RowsBound'
           /\ (\A t \in told' : \/ t \in told
                                \/ ~Mutating(t.req)
                                \/ \E i \in Bindings(t.req.key)' :
                                       RowOf(log'[i]) = [body |-> t.req.body, result |-> t.result])
              => ToldBound'
<1>1. ASSUME UNCHANGED rows, NEW k \in Keys, rows[k] # NoRow
      PROVE  \E i \in Bindings(k)' : rows'[k] = RowOf(log'[i])
  <2>1. PICK i \in Bindings(k) : rows[k] = RowOf(log[i])
    BY <1>1 DEF IInv, RowsBound
  <2>2. i \in Bindings(k)' /\ log'[i] = log[i]
    BY DEF BindingsKept
  <2> QED
    BY <1>1, <2>1, <2>2
<1>2. ASSUME NEW t \in told, Mutating(t.req)
      PROVE  \E i \in Bindings(t.req.key)' :
                 RowOf(log'[i]) = [body |-> t.req.body, result |-> t.result]
  <2>1. PICK i \in Bindings(t.req.key) :
             RowOf(log[i]) = [body |-> t.req.body, result |-> t.result]
    BY <1>2 DEF IInv, ToldBound
  <2>2. i \in Bindings(t.req.key)' /\ log'[i] = log[i]
    BY DEF BindingsKept
  <2> QED
    BY <2>1, <2>2
<1>3. UNCHANGED rows => RowsBound'
  BY <1>1 DEF RowsBound, RowOf, BindingHash
<1> QED
  BY <1>2, <1>3 DEF ToldBound, RowOf, BindingHash

LEMMA InitInv == Init => IInv
<1> SUFFICES ASSUME Init PROVE IInv
  OBVIOUS
<1> USE DEF Init
<1>1. Types
  <2>1. rows \in [Keys -> [body : Bodies, result : Nat]]
    BY DEF NoRow, Bodies
  <2>2. call \in [Calls -> RPCs]
    BY DEF RPCs
  <2>3. log \in Seq(Entries) /\ executed \in Seq(Executions)
    OBVIOUS
  <2> QED
    BY <2>1, <2>2, <2>3 DEF Types
<1>2. \A k : Bindings(k) = {}
  BY DEF Bindings
<1>3. InFlight = {}
  BY DEF InFlight, Free
<1>4. Numbered
  BY <1>2 DEF Numbered, Free
<1> QED
  BY <1>1, <1>2, <1>3, <1>4 DEF IInv, OnePerKey, RowsBound, PendingUnbound, AckBound,
     BoundServed, ToldBound, BoundOnce

\* The steps that touch neither a call nor the journal nor the table.
LEMMA GateInv ==
    ASSUME IInv, Types', UNCHANGED <<call, rows, log, told>>,
           storeOpen' => storeOpen, listening' => storeOpen'
    PROVE  IInv'
<1>1. \A k : Bindings(k)' = Bindings(k)
  BY BindingsStay
<1>2. InFlight' = InFlight
  BY DEF InFlight
<1> QED
  BY <1>1, <1>2 DEF IInv, Numbered, OnePerKey, RowsBound, PendingUnbound, AckBound,
     BoundServed, ToldBound, BoundOnce, RowOf, BindingHash

\* A call that is not being acknowledged leaves its place, or goes on to a
\* place where nothing depends on its result.
LEMMA DropInv ==
    ASSUME IInv, Types', NEW c \in InFlight, call[c].at # "ack",
           \/ Done(c)
           \/ call' = [call EXCEPT ![c].at = "audit"],
           \A k : /\ Bindings(k)' = Bindings(k)
                  /\ \A i \in Bindings(k) : log'[i] = log[i],
           rows' = rows, storeOpen' = storeOpen, listening' = listening,
           ToldBound'
    PROVE  IInv'
<1>2. /\ \A d \in Calls : d # c => call'[d] = call[d]
      /\ call'[c] = Free \/ (call'[c].at = "audit" /\ call'[c].req = call[c].req)
      /\ c \in Calls
  BY DEF IInv, Types, RPCs, Done, InFlight
<1>3. /\ InFlight' \subseteq InFlight
      /\ c \in InFlight' => call'[c].at = "audit" /\ call'[c].req = call[c].req
      /\ \A d \in InFlight : d # c => d \in InFlight'
  BY <1>2 DEF InFlight, Free
<1>4. Numbered'
  BY <1>2 DEF IInv, Numbered, Free
<1>5. OnePerKey'
  BY <1>2, <1>3 DEF IInv, OnePerKey, InFlight
<1>6. PendingUnbound' /\ AckBound'
  BY <1>2, <1>3 DEF IInv, PendingUnbound, AckBound, InFlight
<1>7. RowsBound' /\ BoundOnce'
  BY KeptBound DEF BindingsKept, IInv, BoundOnce
<1>8. BoundServed'
  <2> SUFFICES ASSUME storeOpen, NEW k \in Keys, NEW i \in Bindings(k), rows[k] # RowOf(log[i])
               PROVE  \E d \in InFlight' : /\ call'[d].at = "ack" /\ Mutating(call'[d].req)
                                           /\ call'[d].req.key = k
    BY DEF BoundServed, RowOf, BindingHash
  <2>1. PICK d \in InFlight : /\ call[d].at = "ack" /\ Mutating(call[d].req)
                              /\ call[d].req.key = k
    BY DEF IInv, BoundServed
  <2>2. d # c /\ d \in Calls
    BY <2>1 DEF InFlight
  <2> QED
    BY <1>2, <1>3, <2>1, <2>2
<1> QED
  BY <1>4, <1>5, <1>6, <1>7, <1>8 DEF IInv

\* Every step keeps the types.
LEMMA NextTypes == Types /\ BoundOnce /\ [Next]_vars => Types'
<1> SUFFICES ASSUME Types, BoundOnce, [Next]_vars PROVE Types'
  OBVIOUS
<1> USE DEF Types
<1>1. CASE UNCHANGED vars
  BY <1>1 DEF vars, daemon
<1>2. ASSUME NEW c \in Calls, NEW q \in Requests, Receive(c, q) PROVE Types'
  <2>1. /\ UNCHANGED <<daemon, rows, log, executed>>
        /\ call' \in [Calls -> RPCs]
    BY <1>2 DEF Receive, Refuse, RefuseDraining, Replay, Conflict, Admit, RPCs, Stages
  <2>2. told' \subseteq [req : Requests, result : Nat]
    <3>1. q.key \in Keys
      BY DEF Keys
    <3> QED
      BY <1>2, <3>1 DEF Receive, Refuse, RefuseDraining, Replay, Conflict, Admit, Answers
  <2> QED
    BY <2>1, <2>2 DEF daemon
<1>3. ASSUME NEW c \in Calls, Continue(c) PROVE Types'
  <2>1. call[c] # Free /\ call[c] \in [at : Stages, req : Requests, result : Nat]
        /\ call[c].req \in Requests /\ call[c].result \in Nat
        /\ call[c].req.key \in Keys /\ call[c].req.body \in Bodies
    BY <1>3 DEF Continue, ServiceReturns, Hello, ServiceThrows, Audited, CommitLands,
       CommitFails, Ack, Free, RPCs, Keys, Bodies
  <2>2. Free \in RPCs
    BY DEF RPCs
  <2>3. CASE ServiceReturns(c)
    <3>1. [req |-> call[c].req, boot |-> boots] \in Executions
      BY <2>1 DEF Executions
    <3>2. executed' \in Seq(Executions)
      BY <2>3, <3>1 DEF ServiceReturns, Effect
    <3>3. Len(executed') \in Nat
      BY <3>2
    <3>4. CASE storeOpen
      <4>1. [call[c] EXCEPT !.at = "commit",
                            !.result = IF Mutating(call[c].req) THEN Len(executed') ELSE 0]
                \in [at : Stages, req : Requests, result : Nat]
        BY <2>1, <3>3 DEF Stages
      <4>2. call' = [call EXCEPT ![c] = [call[c] EXCEPT !.at = "commit",
                            !.result = IF Mutating(call[c].req) THEN Len(executed') ELSE 0]]
        BY <2>3, <3>4 DEF ServiceReturns
      <4> QED
        <5>1. call' \in [Calls -> RPCs]
          BY <4>1, <4>2 DEF RPCs
        <5> QED
          BY <5>1, <2>3, <3>2 DEF ServiceReturns, Effect
    <3>5. CASE ~storeOpen
      BY <2>2, <2>3, <3>2, <3>5 DEF ServiceReturns, Effect, Done
    <3> QED
      BY <3>4, <3>5
  <2>4. CASE Hello(c)
    <3>1. [req |-> call[c].req, result |-> 0] \in [req : Requests, result : Nat]
      BY <2>1
    <3> QED
      BY <2>2, <2>4, <3>1 DEF Hello, Answers, Done, daemon
  <2>5. CASE ServiceThrows(c)
    <3>1. [call[c] EXCEPT !.at = "audit"] \in RPCs
      BY <2>1 DEF RPCs, Stages
    <3> QED
      BY <2>2, <2>5, <3>1 DEF ServiceThrows, Done, daemon
  <2>6. CASE Audited(c)
    <3>1. [req |-> call[c].req, outcome |-> "FAILED", result |-> 0] \in Entries
      BY <2>1 DEF Entries
    <3>2. PICK e \in Entries : log' = log \/ log' = Append(log, e)
      BY <2>6, <3>1 DEF Audited
    <3>3. log' \in Seq(Entries)
      <4>1. Append(log, e) \in Seq(Entries)
        OBVIOUS
      <4> QED
        BY <3>2, <4>1
    <3> QED
      BY <2>2, <2>6, <3>3 DEF Audited, Done, daemon
  <2>7. CASE CommitLands(c)
    <3>1. [req |-> call[c].req, outcome |-> "OK", result |-> call[c].result] \in Entries
      BY <2>1 DEF Entries
    <3>2. [call[c] EXCEPT !.at = "ack"] \in RPCs
      BY <2>1 DEF RPCs, Stages
    <3> QED
      BY <2>7, <3>1, <3>2 DEF CommitLands, daemon
  <2>8. CASE CommitFails(c)
    BY <2>2, <2>8 DEF CommitFails, Done, daemon
  <2>9. CASE Ack(c)
    <3>1. /\ [body |-> call[c].req.body, result |-> call[c].result]
                 \in [body : Bodies, result : Nat]
          /\ [req |-> call[c].req, result |-> call[c].result]
                 \in [req : Requests, result : Nat]
      BY <2>1
    <3>2. rows' \in [Keys -> [body : Bodies, result : Nat]]
      BY <2>9, <3>1 DEF Ack
    <3>3. told' \subseteq [req : Requests, result : Nat]
      BY <2>9, <3>1 DEF Ack, Answers
    <3> QED
      BY <2>2, <2>9, <3>2, <3>3 DEF Ack, Done, daemon
  <2> QED
    BY <1>3, <2>3, <2>4, <2>5, <2>6, <2>7, <2>8, <2>9 DEF Continue
<1>4. CASE StopTimer \/ Signal \/ Teardown
  BY <1>4 DEF StopTimer, Signal, Stop, Teardown, DrainEnds, CloseStore, Stopped
<1>5. CASE ProcessEnds
  BY <1>5 DEF ProcessEnds, RPCs
<1>6. CASE Boot
  <2>1. ASSUME NEW k \in Keys PROVE Replayed[k] \in [body : Bodies, result : Nat]
    <3>1. CASE Bindings(k) = {}
      BY <3>1, ReplayedNone DEF NoRow, Bodies
    <3>2. ASSUME NEW i \in Bindings(k)
          PROVE  Replayed[k] \in [body : Bodies, result : Nat]
      <4>1. log[i] \in Entries
        BY DEF Bindings
      <4>2. RowOf(log[i]) \in [body : Bodies, result : Nat]
        BY <4>1 DEF RowOf, BindingHash, Entries, Bodies
      <4> QED
        BY <4>2, ReplayedOne
    <3> QED
      BY <3>1, <3>2
  <2>2. Replayed \in [Keys -> [body : Bodies, result : Nat]]
    BY <2>1 DEF Replayed
  <2> QED
    BY <1>6, <2>2 DEF Boot
<1> QED
  BY <1>1, <1>2, <1>3, <1>4, <1>5, <1>6 DEF Next

-----------------------------------------------------------------------------
(* One lemma for each kind of step. *)

\* A request that is not executed: only what the clients know changes.
LEMMA AnswerInv ==
    ASSUME IInv, Types', UNCHANGED <<daemon, call, rows, log>>, ToldBound'
    PROVE  IInv'
<1>1. \A k : Bindings(k)' = Bindings(k)
  BY BindingsStay
<1>2. InFlight' = InFlight
  BY DEF InFlight
<1> QED
  BY <1>1, <1>2 DEF IInv, Numbered, OnePerKey, RowsBound, PendingUnbound, AckBound,
     BoundServed, BoundOnce, RowOf, BindingHash, daemon

\* A saved answer that leaves is the one binding's.
LEMMA ReplayInv ==
    ASSUME IInv, Types', NEW c \in Calls, NEW q \in Requests, Replay(c, q)
    PROVE  IInv'
<1>1. UNCHANGED <<daemon, call, rows, log>> /\ q.key \in Keys
  BY DEF Replay, Keys
<1>2. PICK i \in Bindings(q.key) : rows[q.key] = RowOf(log[i])
  BY <1>1 DEF Replay, IInv, RowsBound
<1>3. RowOf(log[i]) = [body |-> q.body, result |-> rows[q.key].result]
  BY <1>2 DEF Replay, RowOf, BindingHash
<1>4. told' \subseteq told \cup {[req |-> q, result |-> rows[q.key].result]}
  BY DEF Replay, Answers
<1>5. ToldBound'
  <2>1. BindingsKept
    BY <1>1, BindingsStay DEF BindingsKept
  <2>2. q.key \in Keys /\ i \in Bindings(q.key)' /\ log'[i] = log[i]
    BY <1>1, <1>2, <2>1 DEF BindingsKept
  <2> QED
    BY <1>3, <1>4, <2>1, <2>2, KeptBound
<1> QED
  BY <1>1, <1>5, AnswerInv

\* A mutation is admitted only where its key is not bound.
LEMMA AdmitInv ==
    ASSUME ~Overlap, IInv, Types', NEW c \in Calls, NEW q \in Requests, Admit(c, q)
    PROVE  IInv'
<1>1. /\ call[c].at = "idle" /\ listening
      /\ \A d \in InFlight : call[d].req.key # q.key
      /\ call' = [call EXCEPT ![c] = [at |-> "service", req |-> q, result |-> 0]]
      /\ UNCHANGED <<daemon, rows, log, told>>
  BY DEF Admit, Arrives
<1>2. \A k : Bindings(k)' = Bindings(k)
  BY <1>1, BindingsStay
<1>3. /\ \A d \in Calls : d # c => call'[d] = call[d]
      /\ call'[c].at = "service" /\ call'[c].req = q
      /\ c \notin InFlight /\ InFlight' = InFlight \cup {c}
  BY <1>1 DEF IInv, Types, InFlight
<1>4. Mutating(q) => Bindings(q.key) = {}
  <2> SUFFICES ASSUME Mutating(q), NEW i \in Bindings(q.key) PROVE FALSE
    OBVIOUS
  <2>1. rows[q.key] = NoRow /\ q.key \in Keys /\ storeOpen
    BY <1>1 DEF Admit, Keys, IInv
  <2>2. rows[q.key] = RowOf(log[i])
    BY <1>1, <2>1 DEF IInv, BoundServed
  <2>3. log[i].result = 0
    BY <2>1, <2>2 DEF RowOf, NoRow
  <2> QED
    BY <2>1, <2>3 DEF IInv, Numbered
<1>5. Numbered' /\ OnePerKey' /\ PendingUnbound' /\ AckBound'
  <2>1. Numbered'
    BY <1>1, <1>2, <1>3 DEF IInv, Numbered
  <2>2. OnePerKey'
    BY <1>1, <1>3 DEF IInv, OnePerKey, InFlight
  <2>3. PendingUnbound'
    BY <1>1, <1>2, <1>3, <1>4 DEF IInv, PendingUnbound, InFlight
  <2>4. AckBound'
    BY <1>1, <1>2, <1>3 DEF IInv, AckBound, InFlight
  <2> QED
    BY <2>1, <2>2, <2>3, <2>4
<1>6. RowsBound' /\ ToldBound' /\ BoundOnce'
  BY <1>1, <1>2, KeptBound DEF BindingsKept, IInv, BoundOnce
<1>7. BoundServed'
  <2> SUFFICES ASSUME storeOpen, NEW k \in Keys, NEW i \in Bindings(k), rows[k] # RowOf(log[i])
               PROVE  \E d \in InFlight' : /\ call'[d].at = "ack" /\ Mutating(call'[d].req)
                                           /\ call'[d].req.key = k
    BY <1>1, <1>2 DEF BoundServed, RowOf, BindingHash, daemon
  <2>1. PICK d \in InFlight : /\ call[d].at = "ack" /\ Mutating(call[d].req)
                              /\ call[d].req.key = k
    BY DEF IInv, BoundServed
  <2>2. d # c /\ d \in Calls
    BY <1>1, <2>1 DEF InFlight
  <2> QED
    BY <1>3, <2>1, <2>2
<1> QED
  BY <1>1, <1>5, <1>6, <1>7 DEF IInv, daemon

\* The service returns: the execution is numbered and its commit called.
LEMMA ServiceInv ==
    ASSUME IInv, Types', NEW c \in Calls, ServiceReturns(c), storeOpen
    PROVE  IInv'
<1>1. /\ call[c].at = "service" /\ c \in InFlight
      /\ UNCHANGED <<listening, storeOpen, rows, log, told>>
  BY DEF ServiceReturns, Effect, InFlight
<1>2. \A k : Bindings(k)' = Bindings(k)
  BY <1>1, BindingsStay
<1>3. /\ \A d \in Calls : d # c => call'[d] = call[d]
      /\ call'[c].at = "commit" /\ call'[c].req = call[c].req
      /\ Mutating(call[c].req) => call'[c].result = Len(executed')
      /\ InFlight' = InFlight
  <2>1. call[c] # Free /\ call[c] \in [at : Stages, req : Requests, result : Nat]
    BY <1>1 DEF Free, IInv, Types, RPCs
  <2>2. call' = [call EXCEPT ![c] = [call[c] EXCEPT
                    !.at = "commit",
                    !.result = IF Mutating(call[c].req) THEN Len(executed') ELSE 0]]
    BY DEF ServiceReturns
  <2>3. /\ \A d \in Calls : d # c => call'[d] = call[d]
        /\ call'[c] = [call[c] EXCEPT
                    !.at = "commit",
                    !.result = IF Mutating(call[c].req) THEN Len(executed') ELSE 0]
    BY <2>2 DEF IInv, Types
  <2>4. /\ call'[c].at = "commit" /\ call'[c].req = call[c].req
        /\ Mutating(call[c].req) => call'[c].result = Len(executed')
    BY <2>1, <2>3
  <2>5. InFlight' = InFlight
    BY <1>1, <2>3, <2>4 DEF InFlight
  <2> QED
    BY <2>3, <2>4, <2>5
<1>4. Mutating(call[c].req) => Len(executed') # 0
  <2>1. ASSUME Mutating(call[c].req)
        PROVE  executed' = Append(executed, [req |-> call[c].req, boot |-> boots])
    BY <2>1 DEF ServiceReturns, Effect
  <2>2. Mutating(call[c].req) => Len(executed') = Len(executed) + 1
    BY <2>1 DEF IInv, Types
  <2> QED
    BY <2>2 DEF IInv, Types
<1>5. Numbered'
  BY <1>1, <1>2, <1>3, <1>4 DEF IInv, Numbered
<1>6. OnePerKey' /\ PendingUnbound' /\ AckBound'
  BY <1>1, <1>2, <1>3 DEF IInv, OnePerKey, PendingUnbound, AckBound, InFlight
<1>7. RowsBound' /\ ToldBound' /\ BoundOnce'
  BY <1>1, <1>2, KeptBound DEF BindingsKept, IInv, BoundOnce
<1>8. BoundServed'
  <2> SUFFICES ASSUME storeOpen, NEW k \in Keys, NEW i \in Bindings(k), rows[k] # RowOf(log[i])
               PROVE  \E d \in InFlight : /\ call'[d].at = "ack" /\ Mutating(call'[d].req)
                                          /\ call'[d].req.key = k
    BY <1>1, <1>2, <1>3 DEF BoundServed, RowOf, BindingHash
  <2>1. PICK d \in InFlight : /\ call[d].at = "ack" /\ Mutating(call[d].req)
                              /\ call[d].req.key = k
    BY DEF IInv, BoundServed
  <2>2. d # c /\ d \in Calls
    BY <1>1, <2>1 DEF InFlight
  <2> QED
    BY <1>3, <2>1, <2>2
<1> QED
  BY <1>1, <1>5, <1>6, <1>7, <1>8 DEF IInv

\* The receipt of a failure binds nothing.
LEMMA AuditInv ==
    ASSUME IInv, Types', NEW c \in Calls, Audited(c)
    PROVE  IInv'
<1>1. c \in InFlight /\ call[c].at = "audit"
  BY DEF Audited, InFlight
<1>2. \A k : Bindings(k)' = Bindings(k) /\ \A i \in Bindings(k) : log'[i] = log[i]
  <2>1. CASE log' = log
    BY <2>1, BindingsStay
  <2>2. CASE log' # log
    <3> DEFINE e == [req |-> call[c].req, outcome |-> "FAILED", result |-> 0]
    <3>1. log' = Append(log, e) /\ e.outcome # "OK"
      BY <2>2 DEF Audited
    <3>2. e \in Entries
      <4>1. call[c] # Free /\ call[c] \in [at : Stages, req : Requests, result : Nat]
        BY <1>1 DEF Free, IInv, Types, RPCs
      <4> QED
        BY <4>1 DEF Entries
    <3> HIDE DEF e
    <3>3. Types
      BY DEF IInv
    <3>4. ASSUME NEW k
          PROVE  Bindings(k)' = Bindings(k) /\ \A i \in Bindings(k) : log'[i] = log[i]
      BY <3>1, <3>2, <3>3, BindingsAppend
    <3> QED
      BY <3>4
  <2> QED
    BY <2>1, <2>2
<1>3. ToldBound'
  BY <1>2, KeptBound DEF Audited, BindingsKept
<1> QED
  BY <1>1, <1>2, <1>3, DropInv DEF Audited, daemon

\* The commit binds a key that had no binding.
LEMMA CommitInv ==
    ASSUME IInv, Types', NEW c \in Calls, CommitLands(c)
    PROVE  IInv'
<1> DEFINE q == call[c].req
           e == [req |-> q, outcome |-> "OK", result |-> call[c].result]
           n == Len(log) + 1
<1>1. /\ call[c].at = "commit" /\ c \in InFlight
      /\ log' = Append(log, e)
      /\ UNCHANGED <<daemon, rows, told>>
  BY DEF CommitLands, InFlight
<1>2. call[c] # Free /\ call[c] \in [at : Stages, req : Requests, result : Nat]
  BY <1>1 DEF Free, IInv, Types, RPCs
<1>3. e \in Entries /\ e.outcome = "OK" /\ e.req = q /\ e.result = call[c].result
  BY <1>2 DEF Entries
<1>4. /\ \A d \in Calls : d # c => call'[d] = call[d]
      /\ call'[c].at = "ack" /\ call'[c].req = q /\ call'[c].result = call[c].result
      /\ InFlight' = InFlight
  BY <1>1, <1>2 DEF CommitLands, IInv, Types, InFlight
<1>5. Mutating(q) => Bindings(q.key) = {} /\ call[c].result # 0
  <2>1. q.key \in Keys
    BY <1>2 DEF Keys
  <2> QED
    BY <1>1, <2>1 DEF IInv, PendingUnbound, Numbered
<1> HIDE DEF e
<1>6. /\ \A k : \A i : i \in Bindings(k)' <=> \/ i \in Bindings(k)
                                              \/ i = n /\ Mutating(q) /\ k = q.key
      /\ log'[n] = e
      /\ \A k : \A i \in Bindings(k) : log'[i] = log[i]
  <2>1. Types
    BY DEF IInv
  <2>2. ASSUME NEW k
        PROVE  /\ \A i : i \in Bindings(k)' <=>
                     \/ i \in Bindings(k)
                     \/ i = n /\ e.outcome = "OK" /\ Mutating(e.req) /\ e.req.key = k
               /\ \A i \in Bindings(k) : log'[i] = log[i]
               /\ log'[n] = e
    BY <1>1, <1>3, <2>1, BindingsAppend
  <2> HIDE DEF n, q
  <2> QED
    BY <1>3, <2>2
<1>k. BindingsKept
  BY <1>6 DEF BindingsKept
<1> HIDE DEF q, n
<1>7. Numbered'
  BY <1>3, <1>4, <1>5, <1>6 DEF IInv, Numbered
<1>8. OnePerKey'
  BY <1>4 DEF IInv, OnePerKey, InFlight, q
<1>9. PendingUnbound'
  <2> SUFFICES ASSUME NEW d \in InFlight, NEW k \in Keys, Mutating(call'[d].req),
                      call'[d].req.key = k, call'[d].at # "ack"
               PROVE  Bindings(k)' = {}
    BY <1>4 DEF PendingUnbound
  <2>1. d # c /\ call'[d] = call[d]
    BY <1>1, <1>4 DEF InFlight
  <2>2. k # q.key
    BY <1>1, <2>1 DEF IInv, OnePerKey, q
  <2>3. Bindings(k) = {}
    BY <2>1 DEF IInv, PendingUnbound
  <2> QED
    BY <1>6, <2>2, <2>3
<1>10. AckBound'
  <2> SUFFICES ASSUME NEW d \in InFlight, NEW k \in Keys, Mutating(call'[d].req),
                      call'[d].req.key = k, call'[d].at = "ack"
               PROVE  \E i \in Bindings(k)' : log'[i].req = call'[d].req
                                              /\ log'[i].result = call'[d].result
    BY <1>4 DEF AckBound
  <2>1. CASE d = c
    BY <1>3, <1>4, <1>6, <2>1
  <2>2. CASE d # c
    <3>1. call'[d] = call[d]
      BY <1>4, <2>2 DEF InFlight
    <3>2. PICK i \in Bindings(k) : log[i].req = call[d].req /\ log[i].result = call[d].result
      BY <3>1 DEF IInv, AckBound
    <3> QED
      BY <1>6, <3>1, <3>2
  <2> QED
    BY <2>1, <2>2
<1>11. RowsBound'
  BY <1>1, <1>k, KeptBound
<1>12. BoundServed'
  <2> SUFFICES ASSUME storeOpen, NEW k \in Keys, NEW i \in Bindings(k)'
               PROVE  \/ rows[k] = RowOf(log'[i])
                      \/ \E d \in InFlight : /\ call'[d].at = "ack" /\ Mutating(call'[d].req)
                                             /\ call'[d].req.key = k
    BY <1>1, <1>4 DEF BoundServed, daemon, RowOf, BindingHash
  <2>1. CASE i = n /\ Mutating(q) /\ k = q.key
    BY <1>1, <1>4, <2>1
  <2>2. CASE i \in Bindings(k)
    <3>1. log'[i] = log[i]
      BY <1>6, <2>2
    <3>2. CASE rows[k] = RowOf(log[i])
      BY <3>1, <3>2
    <3>3. CASE rows[k] # RowOf(log[i])
      <4>1. PICK d \in InFlight : /\ call[d].at = "ack" /\ Mutating(call[d].req)
                                  /\ call[d].req.key = k
        BY <2>2, <3>3 DEF IInv, BoundServed
      <4>2. d # c /\ d \in Calls
        BY <1>1, <4>1 DEF InFlight
      <4> QED
        BY <1>4, <4>1, <4>2
    <3> QED
      BY <3>2, <3>3
  <2> QED
    BY <1>6, <2>1, <2>2
<1>13. ToldBound'
  BY <1>1, <1>k, KeptBound
<1>14. BoundOnce'
  BY <1>5, <1>6 DEF IInv, BoundOnce
<1> QED
  BY <1>1, <1>7, <1>8, <1>9, <1>10, <1>11, <1>12, <1>13, <1>14 DEF IInv, daemon

\* The answer is the one binding's, and the table shows it.
LEMMA AckInv ==
    ASSUME IInv, Types', NEW c \in Calls, Ack(c)
    PROVE  IInv'
<1> DEFINE q == call[c].req
           row == [body |-> q.body, result |-> call[c].result]
<1>1. /\ call[c].at = "ack" /\ c \in InFlight
      /\ call' = [call EXCEPT ![c] = Free]
      /\ UNCHANGED <<daemon, log>>
  BY DEF Ack, InFlight, Done
<1>2. q.key \in Keys
  <2>1. call[c] # Free /\ call[c] \in [at : Stages, req : Requests, result : Nat]
    BY <1>1 DEF Free, IInv, Types, RPCs
  <2> QED
    BY <2>1 DEF Keys
<1>3. /\ \A d \in Calls : d # c => call'[d] = call[d]
      /\ call'[c] = Free
      /\ InFlight' = InFlight \ {c}
  BY <1>1 DEF IInv, Types, InFlight, Free
<1>4. \A k : Bindings(k)' = Bindings(k)
  BY <1>1, BindingsStay
<1>5. Mutating(q) => \E i \in Bindings(q.key) : RowOf(log[i]) = row
  BY <1>1, <1>2 DEF IInv, AckBound, RowOf, BindingHash
<1>6. /\ rows' = IF storeOpen /\ Mutating(q) THEN [rows EXCEPT ![q.key] = row] ELSE rows
      /\ told' \subseteq told \cup {[req |-> q, result |-> call[c].result]}
  BY DEF Ack, Answers
<1>7. \A k \in Keys : rows'[k] = IF storeOpen /\ Mutating(q) /\ k = q.key THEN row ELSE rows[k]
  BY <1>2, <1>6 DEF IInv, Types
<1>8. Numbered' /\ OnePerKey' /\ PendingUnbound' /\ AckBound' /\ BoundOnce'
  <2>1. Numbered' /\ BoundOnce'
    BY <1>1, <1>3, <1>4 DEF IInv, Numbered, Free, BoundOnce
  <2>2. OnePerKey'
    BY <1>3 DEF IInv, OnePerKey, InFlight
  <2>3. PendingUnbound' /\ AckBound'
    BY <1>1, <1>3, <1>4 DEF IInv, PendingUnbound, AckBound, InFlight
  <2> QED
    BY <2>1, <2>2, <2>3
<1> HIDE DEF row
<1>9. RowsBound'
  BY <1>1, <1>4, <1>5, <1>7 DEF IInv, RowsBound, RowOf, BindingHash
<1>10. BoundServed'
  <2> SUFFICES ASSUME storeOpen, NEW k \in Keys, NEW i \in Bindings(k)
               PROVE  \/ rows'[k] = RowOf(log[i])
                      \/ \E d \in InFlight' : /\ call'[d].at = "ack" /\ Mutating(call'[d].req)
                                              /\ call'[d].req.key = k
    BY <1>1, <1>4 DEF BoundServed, daemon, RowOf, BindingHash
  <2>1. CASE Mutating(q) /\ k = q.key
    BY <1>5, <1>7, <2>1 DEF IInv, BoundOnce
  <2>2. CASE ~(Mutating(q) /\ k = q.key)
    BY <1>3, <1>7, <2>2 DEF IInv, BoundServed, InFlight
  <2> QED
    BY <2>1, <2>2
<1>11. ToldBound'
  <2> SUFFICES ASSUME NEW t \in told', Mutating(t.req)
               PROVE  \E i \in Bindings(t.req.key) :
                          RowOf(log[i]) = [body |-> t.req.body, result |-> t.result]
    BY <1>1, <1>4 DEF ToldBound, RowOf, BindingHash
  <2>1. CASE t \in told
    BY <2>1 DEF IInv, ToldBound
  <2>2. CASE t = [req |-> q, result |-> call[c].result]
    BY <1>5, <2>2 DEF row
  <2> QED
    BY <1>6, <2>1, <2>2
<1> QED
  BY <1>1, <1>8, <1>9, <1>10, <1>11 DEF IInv, daemon

\* The process ends: no call is left.
LEMMA EndInv ==
    ASSUME IInv, Types', ProcessEnds
    PROVE  IInv'
<1>1. /\ ~storeOpen' /\ ~listening' /\ UNCHANGED <<rows, log, told>>
      /\ call' = [d \in Calls |-> Free]
  BY DEF ProcessEnds
<1>2. InFlight' = {}
  BY <1>1 DEF InFlight, Free
<1>3. \A k : Bindings(k)' = Bindings(k)
  BY <1>1, BindingsStay
<1>4. Numbered'
  BY <1>1, <1>3 DEF IInv, Numbered, Free
<1> QED
  BY <1>1, <1>2, <1>3, <1>4 DEF IInv, OnePerKey, RowsBound, PendingUnbound, AckBound,
     BoundServed, ToldBound, BoundOnce, RowOf, BindingHash

\* A new process serves what a replay of the journal yields.
LEMMA BootInv ==
    ASSUME IInv, Types', Boot
    PROVE  IInv'
<1>1. storeOpen' /\ rows' = Replayed /\ UNCHANGED <<call, log, told>>
  BY DEF Boot
<1>2. InFlight' = InFlight /\ \A k : Bindings(k)' = Bindings(k)
  BY <1>1, BindingsStay DEF InFlight
<1>3. RowsBound'
  <2> SUFFICES ASSUME NEW k \in Keys, Replayed[k] # NoRow
               PROVE  \E i \in Bindings(k) : Replayed[k] = RowOf(log[i])
    BY <1>1, <1>2 DEF RowsBound, RowOf, BindingHash
  <2>1. Bindings(k) # {}
    BY ReplayedNone
  <2> QED
    BY <2>1, ReplayedOne DEF IInv
<1>4. BoundServed'
  BY <1>1, <1>2, ReplayedOne DEF IInv, BoundServed, RowOf, BindingHash
<1> QED
  BY <1>1, <1>2, <1>3, <1>4 DEF IInv, Numbered, OnePerKey, PendingUnbound, AckBound,
     ToldBound, BoundOnce, RowOf, BindingHash

LEMMA NextInv == ASSUME ~Overlap PROVE IInv /\ [Next]_vars => IInv'
<1> SUFFICES ASSUME IInv, [Next]_vars PROVE IInv'
  OBVIOUS
<1>a. Types'
  BY NextTypes DEF IInv
<1>1. CASE UNCHANGED vars
  BY <1>1, <1>a, GateInv DEF vars, daemon, IInv
<1>2. ASSUME NEW c \in Calls, NEW q \in Requests, Receive(c, q) PROVE IInv'
  <2>1. CASE Refuse(c, q) \/ RefuseDraining(c, q) \/ Conflict(c, q)
    BY <1>a, <2>1, GateInv DEF Refuse, RefuseDraining, Conflict, daemon, IInv
  <2>2. CASE Replay(c, q)
    BY <1>a, <2>2, ReplayInv
  <2>3. CASE Admit(c, q)
    BY <1>a, <2>3, AdmitInv
  <2> QED
    BY <1>2, <2>1, <2>2, <2>3 DEF Receive
<1>3. ASSUME NEW c \in Calls, Continue(c) PROVE IInv'
  <2>1. call[c].at # "idle" => c \in InFlight
    BY DEF InFlight
  <2>2. UNCHANGED log => \A k : /\ Bindings(k)' = Bindings(k)
                                /\ \A i \in Bindings(k) : log'[i] = log[i]
    BY BindingsStay
  <2>3. UNCHANGED <<log, told>> => ToldBound'
    BY <2>2 DEF IInv, ToldBound, RowOf, BindingHash
  <2>4. CASE ServiceReturns(c) /\ storeOpen
    BY <1>a, <2>4, ServiceInv
  <2>5. CASE ServiceReturns(c) /\ ~storeOpen
    BY <1>a, <2>1, <2>2, <2>3, <2>5, DropInv DEF ServiceReturns, Effect
  <2>6. CASE Hello(c)
    <3>1. ToldBound'
      <4>1. ~Mutating(call[c].req)
        BY <2>6 DEF Hello, Mutating
      <4>2. told' \subseteq told \cup {[req |-> call[c].req, result |-> 0]}
        BY <2>6 DEF Hello, Answers
      <4> QED
        BY <2>2, <2>6, <4>1, <4>2, KeptBound DEF Hello, BindingsKept
    <3> QED
      BY <1>a, <2>1, <2>2, <2>6, <3>1, DropInv DEF Hello, daemon
  <2>7. CASE ServiceThrows(c)
    BY <1>a, <2>1, <2>2, <2>3, <2>7, DropInv DEF ServiceThrows, daemon
  <2>8. CASE CommitFails(c)
    BY <1>a, <2>1, <2>2, <2>3, <2>8, DropInv DEF CommitFails, daemon
  <2> QED
    BY <1>3, <1>a, <2>4, <2>5, <2>6, <2>7, <2>8, AuditInv, CommitInv, AckInv DEF Continue
<1>4. CASE StopTimer \/ Signal \/ Teardown
  BY <1>4, <1>a, GateInv DEF StopTimer, Signal, Teardown, DrainEnds, CloseStore, Stopped, Stop, IInv
<1> QED
  BY <1>1, <1>2, <1>3, <1>4, <1>a, EndInv, BootInv DEF Next

-----------------------------------------------------------------------------
LEMMA SpecInv == ASSUME ~Overlap PROVE Spec => []IInv
  BY InitInv, NextInv, PTL DEF Spec

\* run() of dispatch.ts: what a client was told of a mutation is what the
\* journal binds its key to, for ever, for any number of requests, calls in
\* flight, crashes and boots, when no client sends a key again that is in
\* flight.
THEOREM AnswersStickWhenSerial == ASSUME ~Overlap PROVE Spec => []AnswersStick
<1>1. IInv => AnswersStick
  <2> SUFFICES ASSUME IInv, NEW t \in told, Mutating(t.req)
               PROVE  Replayed[t.req.key] = [body |-> t.req.body, result |-> t.result]
    BY DEF AnswersStick
  <2>1. t.req.key \in Keys
    BY DEF IInv, Types, Keys
  <2> QED
    BY <2>1, ReplayedOne DEF IInv, ToldBound
<1> QED
  BY <1>1, SpecInv, PTL

\* receipt-writer.ts, the commit of receipt and binding: of all the executions of the mutations sent under a key
\* at most one is bound.
THEOREM BoundOnceWhenSerial == ASSUME ~Overlap PROVE Spec => []BoundOnce
<1>1. IInv => BoundOnce
  BY DEF IInv
<1> QED
  BY <1>1, SpecInv, PTL

\* runtime.ts, the registry-backed lookup: a process that serves, with no commit to be
\* acknowledged, answers a retry from a row exactly when the journal binds its
\* key, and with what the journal binds it to.
THEOREM ReplayDurableWhenSerial == ASSUME ~Overlap PROVE Spec => []ReplayIffDurable
<1>1. IInv => ReplayIffDurable
  <2> SUFFICES ASSUME IInv, storeOpen, \A c \in Calls : call[c].at # "ack"
               PROVE  rows = Replayed
    BY DEF ReplayIffDurable
  <2>1. ASSUME NEW k \in Keys PROVE rows[k] = Replayed[k]
    <3>1. CASE Bindings(k) = {}
      BY <3>1, ReplayedNone DEF IInv, RowsBound
    <3>2. ASSUME NEW i \in Bindings(k) PROVE rows[k] = Replayed[k]
      <4>1. rows[k] = RowOf(log[i])
        BY DEF IInv, BoundServed, InFlight
      <4> QED
        BY <4>1, ReplayedOne DEF IInv
    <3> QED
      BY <3>1, <3>2
  <2>2. rows = [k \in Keys |-> rows[k]]
    BY DEF IInv, Types
  <2>3. Replayed = [k \in Keys |-> Replayed[k]]
    BY DEF Replayed
  <2> QED
    BY <2>1, <2>2, <2>3
<1> QED
  BY <1>1, SpecInv, PTL


-----------------------------------------------------------------------------
(* The migration of the configuration file.                                *)

IsSeq(q) == q \in Seq({q[i] : i \in DOMAIN q})

\* The directories a loss of power may leave.
Views == {dir} \union {past[i] : i \in DOMAIN past}

Fields == {"doc", "sha", "output", "given", "bytes"}

DiskShape ==
    /\ IsSeq(file) /\ IsSeq(past)
    /\ \A i \in 1..Len(file) : file[i] = [data |-> file[i].data, synced |-> file[i].synced]
    /\ \A d \in Views : d \in [Names -> 0..Len(file)]

PlanShape ==
    /\ pc = [m \in Migrators |-> pc[m]]
    /\ plan = [m \in Migrators |-> plan[m]]
    /\ \A m \in Migrators : plan[m] = [f \in Fields |-> plan[m][f]]

\* In directory d the file is a whole document that is on the disk,
Whole(d) ==
    LET x == file[d[Live]] IN
    /\ d[Live] # 0 /\ x.synced
    /\ x.data.doc \in V1Docs
    /\ x.data = V1(x.data.doc) \/ x.data.version = 2

\* a document has its backup, which is on the disk,
HasBackup(d, c) == d[Backup(c)] # 0 /\ file[d[Backup(c)]] = Written(V1(c))

\* and a migrated file is beside the backup of what it was made from.
Sound(d) == Whole(d) /\ (file[d[Live]].data.version = 2 => HasBackup(d, file[d[Live]].data.doc))

\* The file of a backup, or of an output, has no other name.
Separate ==
    \A d, e \in Views, n \in {Output} \union {Backup(c) : c \in V1Docs}, k \in Names :
        d[n] = e[k] /\ d[n] # 0 => k = n

\* A migration that was answered is in every directory a loss of power may leave.
Durable == migrated # Nothing => \A d \in Views : file[d[Live]].data = migrated

DiskInv == DiskShape /\ (\A d \in Views : Sound(d)) /\ Separate /\ Durable

\* The file m has begun is m's alone, and never was the live one.
OwnTemp(m) ==
    /\ dir[Temp(m)] # 0
    /\ \A n \in Names : n # Temp(m) => dir[n] # dir[Temp(m)]
    /\ \A d \in Views : d[Live] # dir[Temp(m)]

\* What an invocation has done when it takes its next step.
Ready(m) ==
    LET c == plan[m].bytes IN
    /\ pc[m] \in {"backup", "fill", "temp", "write", "rename", "sync"} => c \in V1Docs
    /\ pc[m] = "print" => dir[Output] # 0
    /\ pc[m] = "fill" => dir[Backup(c)] # 0
    /\ pc[m] \in {"temp", "write", "rename"} => HasBackup(dir, c)
    /\ pc[m] \in {"write", "rename"} => OwnTemp(m)
    /\ pc[m] = "rename" => file[dir[Temp(m)]] = Written(Result(m))

ConfigInv == DiskInv /\ PlanShape /\ \A m \in Migrators : Ready(m)

-----------------------------------------------------------------------------
(* Names and sequences. *)

\* The names of the directory are different names.
LEMMA NamesDiffer ==
    /\ Live # Output /\ Live \in Names /\ Output \in Names
    /\ \A c : Backup(c) # Live /\ Backup(c) # Output
    /\ \A m : Temp(m) # Live /\ Temp(m) # Output
    /\ \A c, m : Backup(c) # Temp(m)
    /\ \A c, d : Backup(c) = Backup(d) => c = d
    /\ \A k, m : Temp(k) = Temp(m) => k = m
    /\ \A c \in V1Docs : Backup(c) \in Names
    /\ \A m \in Migrators : Temp(m) \in Names
<1>1. \A c, m : Backup(c)[1] = "bak" /\ Backup(c)[2] = c /\ Temp(m)[1] = "tmp" /\ Temp(m)[2] = m
  BY DEF Backup, Temp
<1>2. Live[1] = "latticeag.json" /\ Output[1] = "output"
  BY DEF Live, Output
<1>3. /\ Live \in Names /\ Output \in Names /\ \A c \in V1Docs : Backup(c) \in Names
      /\ \A m \in Migrators : Temp(m) \in Names
  BY DEF Names
<1>4. "latticeag.json" # "output" /\ "latticeag.json" # "bak" /\ "latticeag.json" # "tmp" /\ "output" # "bak"
      /\ "output" # "tmp" /\ "bak" # "tmp"
  OBVIOUS
<1>5. \A c : Backup(c) # Live /\ Backup(c) # Output
  BY <1>1, <1>2, <1>4
<1>6. \A m : Temp(m) # Live /\ Temp(m) # Output
  BY <1>1, <1>2, <1>4
<1>7. \A c, m : Backup(c) # Temp(m)
  BY <1>1, <1>4
<1>8. \A c, d : Backup(c) = Backup(d) => c = d
  BY <1>1
<1>9. \A k, m : Temp(k) = Temp(m) => k = m
  BY <1>1
<1> QED BY <1>2, <1>3, <1>4, <1>5, <1>6, <1>7, <1>8, <1>9

\* IsSeq is being a sequence, of whatever.
LEMMA SeqIsSeq == ASSUME NEW S, NEW q \in Seq(S) PROVE IsSeq(q)
<1>1. DOMAIN q = 1..Len(q) /\ q = [i \in 1..Len(q) |-> q[i]] /\ Len(q) \in Nat
  OBVIOUS
<1>2. q \in Seq({q[i] : i \in DOMAIN q})
  BY <1>1
<1> QED BY <1>2 DEF IsSeq

\* Appending keeps what there was.
LEMMA Appended ==
    ASSUME NEW q, IsSeq(q), NEW x
    PROVE  /\ IsSeq(Append(q, x)) /\ Len(q) \in Nat
           /\ Len(Append(q, x)) = Len(q) + 1
           /\ DOMAIN q = 1..Len(q) /\ DOMAIN Append(q, x) = 1..(Len(q) + 1)
           /\ \A i \in 1..Len(q) : Append(q, x)[i] = q[i]
           /\ Append(q, x)[Len(q) + 1] = x
<1> DEFINE S == {q[i] : i \in DOMAIN q} \union {x}
           r == Append(q, x)
<1>1. q \in Seq(S)
  BY DEF IsSeq
<1> HIDE DEF S
<1>2. r \in Seq(S \union {x}) /\ Len(q) \in Nat /\ Len(r) = Len(q) + 1 /\ DOMAIN q = 1..Len(q)
      /\ (\A i \in 1..Len(q) : r[i] = q[i]) /\ r[Len(q) + 1] = x
  <2>1. q \in Seq(S \union {x}) /\ x \in S \union {x}
    BY <1>1
  <2> QED BY <2>1
<1>3. IsSeq(r)
  <2> HIDE DEF r
  <2> QED BY <1>2, SeqIsSeq
<1>4. DOMAIN r = 1..Len(r)
  BY <1>2
<1> QED BY <1>2, <1>3, <1>4

\* So does replacing one element, but for that one.
LEMMA Replaced ==
    ASSUME NEW q, IsSeq(q), NEW i \in 1..Len(q), NEW x, NEW r, r = [j \in DOMAIN q |-> r[j]],
           r[i] = x, \A j \in DOMAIN q : j # i => r[j] = q[j]
    PROVE  /\ IsSeq(r) /\ Len(r) = Len(q) /\ r[i] = x
           /\ \A j \in 1..Len(q) : j # i => r[j] = q[j]
<1>1. PICK S : q \in Seq(S) /\ x \in S
  <2> DEFINE S == {q[j] : j \in DOMAIN q}
             T == S \union {x}
  <2>1. q \in Seq(S)
    BY DEF IsSeq
  <2> HIDE DEF S
  <2>2. q \in Seq(T) /\ x \in T
    BY <2>1
  <2> QED BY <2>2
<1>2. r \in Seq(S) /\ Len(q) \in Nat /\ Len(r) = Len(q) /\ DOMAIN q = 1..Len(q)
  BY <1>1
<1>3. r[i] = x /\ \A j \in 1..Len(q) : j # i => r[j] = q[j]
  BY <1>2
<1>4. IsSeq(r)
  BY <1>2, SeqIsSeq
<1> QED BY <1>2, <1>3, <1>4

\* A directory operation leaves what there was to a loss of power.
LEMMA ViewsGrow ==
    ASSUME IsSeq(past), past' = Append(past, dir)
    PROVE  IsSeq(past') /\ Views' = Views \union {dir'}
<1>1. IsSeq(past')
  BY Appended
<1>2. {past'[i] : i \in DOMAIN past'} = {past[i] : i \in DOMAIN past} \union {dir}
  BY Appended
<1> QED BY <1>1, <1>2 DEF Views

-----------------------------------------------------------------------------
(* The effects of the steps on the disk. *)

\* A file is created under a free name, or renamed over the live one.
LEMMA NewFile ==
    ASSUME ConfigInv, NEW n \in Names, NEW x, x = [data |-> x.data, synced |-> x.synced],
           n = Live \/ dir[n] = 0,
           file' = Append(file, x), dir' = [dir EXCEPT ![n] = Len(file) + 1], past' = Append(past, dir),
           n = Live => x = Written(V1(x.data.doc)) /\ x.data.doc \in V1Docs,
           migrated' = IF n = Live THEN Nothing ELSE migrated
    PROVE  /\ DiskInv'
           /\ \A k \in Migrators : pc'[k] = pc[k] /\ plan'[k] = plan[k] => Ready(k)'
           /\ \A c \in V1Docs : HasBackup(dir, c) => HasBackup(dir, c)'
           /\ file'[dir'[n]] = x /\ dir'[n] # 0
           /\ \A k \in Names : k # n => dir'[k] # dir'[n]
           /\ n # Live => \A d \in Views' : d[Live] # dir'[n]
<1> DEFINE f == Len(file) + 1
<1>1. /\ IsSeq(file) /\ IsSeq(past) /\ \A d \in Views : d \in [Names -> 0..Len(file)]
      /\ \A i \in 1..Len(file) : file[i] = [data |-> file[i].data, synced |-> file[i].synced]
  BY DEF ConfigInv, DiskInv, DiskShape
<1>2. /\ IsSeq(file') /\ Len(file) \in Nat /\ Len(file') = f
      /\ \A i \in 1..Len(file) : file'[i] = file[i]
      /\ file'[f] = x
  BY <1>1, Appended
<1>3. IsSeq(past') /\ Views' = Views \union {dir'} /\ dir \in Views
  BY <1>1, ViewsGrow DEF Views
<1>4. /\ dir' \in [Names -> 0..f] /\ dir'[n] = f /\ f # 0 /\ f \in 1..f
      /\ \A k \in Names : k # n => dir'[k] = dir[k]
      /\ \A d \in Views, k \in Names : d[k] \in 0..Len(file) /\ d[k] # f
      /\ \A d \in Views : d \in [Names -> 0..f]
  BY <1>1, <1>2, <1>3
<1>5. DiskShape'
  <2>1. \A i \in 1..Len(file') : file'[i] = [data |-> file'[i].data, synced |-> file'[i].synced]
    BY <1>1, <1>2
  <2>2. \A d \in Views' : d \in [Names -> 0..Len(file')]
    BY <1>2, <1>3, <1>4
  <2> QED BY <1>2, <1>3, <2>1, <2>2 DEF DiskShape
<1>6. \A d \in Views, c \in V1Docs : HasBackup(d, c) => file'[d[Backup(c)]] = Written(V1(c)) /\ d[Backup(c)] # 0
  BY <1>2, <1>4, NamesDiffer DEF HasBackup
<1>7. \A d \in Views : file'[d[Live]] = file[d[Live]] /\ d[Live] # 0
  BY <1>2, <1>4, NamesDiffer DEF ConfigInv, DiskInv, Sound, Whole
<1>8. \A c \in V1Docs : HasBackup(dir, c) => HasBackup(dir, c)'
  <2> TAKE c \in V1Docs
  <2> HAVE HasBackup(dir, c)
  <2>1. n # Backup(c) /\ dir'[Backup(c)] = dir[Backup(c)]
    BY <1>4, NamesDiffer DEF HasBackup
  <2> QED BY <1>3, <1>6, <2>1 DEF HasBackup
<1>9. \A d \in Views : Sound(d)'
  <2> TAKE d \in Views
  <2>1. Sound(d)
    BY DEF ConfigInv, DiskInv
  <2> DEFINE y == file[d[Live]]
  <2>2. file'[d[Live]] = y
    BY <1>7
  <2>3. Whole(d)'
    BY <2>1, <2>2 DEF Sound, Whole
  <2>4. y.data.version = 2 => file'[d[Backup(y.data.doc)]] = Written(V1(y.data.doc)) /\ d[Backup(y.data.doc)] # 0
    BY <1>6, <2>1 DEF Sound, Whole
  <2> QED BY <2>2, <2>3, <2>4 DEF Sound, HasBackup
<1>10. Sound(dir)'
  <2>1. CASE n = Live
    <3>1. file'[dir'[Live]] = Written(V1(x.data.doc)) /\ x.data.doc \in V1Docs /\ dir'[Live] # 0
      BY <1>2, <1>4, <2>1
    <3> QED BY <3>1 DEF Sound, Whole, Written, V1
  <2>2. CASE n # Live
    <3> DEFINE y == file[dir[Live]]
    <3>1. dir'[Live] = dir[Live] /\ file'[dir[Live]] = y
      BY <1>3, <1>4, <1>7, <2>2, NamesDiffer
    <3>2. Sound(dir)
      BY <1>3 DEF ConfigInv, DiskInv
    <3>3. Whole(dir)'
      BY <3>1, <3>2 DEF Sound, Whole
    <3>4. y.data.doc \in V1Docs /\ (y.data.version = 2 => HasBackup(dir, y.data.doc))
      BY <3>2 DEF Sound, Whole
    <3>5. \A c \in V1Docs : y.data.version = 2 /\ c = y.data.doc => HasBackup(dir, c)'
      BY <1>8, <3>4
    <3> QED BY <3>1, <3>3, <3>4, <3>5 DEF Sound, HasBackup
  <2> QED BY <2>1, <2>2
<1>11. Separate'
  <2> SUFFICES ASSUME NEW d \in Views', NEW e \in Views', NEW b \in {Output} \union {Backup(c) : c \in V1Docs},
                      NEW k \in Names, d[b] = e[k], d[b] # 0
               PROVE  k = b
    BY DEF Separate
  <2>1. b \in Names /\ b # Live
    BY NamesDiffer
  <2>2. CASE d[b] = f
    BY <1>3, <1>4, <2>1, <2>2
  <2>3. CASE d[b] # f
    <3>1. \E d2 \in Views : d2[b] = d[b]
      BY <1>3, <1>4, <2>1, <2>3
    <3>2. \E e2 \in Views : e2[k] = e[k]
      BY <1>3, <1>4, <2>3
    <3> QED BY <3>1, <3>2 DEF ConfigInv, DiskInv, Separate
  <2> QED BY <2>2, <2>3
<1>12. Durable'
  <2> SUFFICES ASSUME migrated' # Nothing, NEW d \in Views'
               PROVE  file'[d[Live]].data = migrated'
    BY DEF Durable
  <2>1. n # Live /\ migrated' = migrated
    OBVIOUS
  <2>2. \A e \in Views : file[e[Live]].data = migrated
    BY <2>1 DEF ConfigInv, DiskInv, Durable
  <2>3. dir'[Live] = dir[Live]
    BY <1>4, <2>1, NamesDiffer
  <2>4. CASE d \in Views
    BY <1>7, <2>1, <2>2, <2>4
  <2>5. CASE d = dir'
    <3>1. file'[dir[Live]] = file[dir[Live]] /\ file[dir[Live]].data = migrated
      BY <1>3, <1>7, <2>2
    <3> QED BY <2>1, <2>3, <2>5, <3>1
  <2> QED BY <1>3, <2>4, <2>5
<1>13. DiskInv'
  <2>1. \A d \in Views' : Sound(d)'
    <3> TAKE d \in Views'
    <3>1. CASE d = dir'
      BY <1>10, <3>1 DEF Sound, Whole, HasBackup
    <3> QED BY <1>3, <1>9, <3>1
  <2> QED BY <1>5, <1>11, <1>12, <2>1 DEF DiskInv
<1>14. \A k \in Migrators : pc'[k] = pc[k] /\ plan'[k] = plan[k] => Ready(k)'
  <2> SUFFICES ASSUME NEW k \in Migrators, pc'[k] = pc[k], plan'[k] = plan[k] PROVE Ready(k)'
    OBVIOUS
  <2> DEFINE c == plan[k].bytes
  <2>1. Ready(k) /\ Result(k)' = Result(k)
    BY DEF ConfigInv, Result
  <2>2. /\ pc[k] = "print" => dir'[Output] # 0
        /\ pc[k] = "fill" => dir'[Backup(c)] # 0
    BY <1>2, <1>4, <2>1, NamesDiffer DEF Ready
  <2>3. pc[k] \in {"temp", "write", "rename"} => HasBackup(dir, c)'
    BY <1>8, <2>1 DEF Ready
  <2>4. pc[k] \in {"write", "rename"} => n # Temp(k) /\ dir'[Temp(k)] = dir[Temp(k)] /\ dir[Temp(k)] \in 1..Len(file)
    BY <1>2, <1>3, <1>4, <2>1, NamesDiffer DEF Ready, OwnTemp
  <2>5. pc[k] \in {"write", "rename"} => OwnTemp(k)'
    <3> SUFFICES ASSUME pc[k] \in {"write", "rename"} PROVE OwnTemp(k)'
      OBVIOUS
    <3>1. OwnTemp(k)
      BY <2>1 DEF Ready
    <3>2. \A b \in Names : b # Temp(k) => dir'[b] # dir[Temp(k)]
      BY <1>2, <1>4, <2>4, <3>1 DEF OwnTemp
    <3>3. \A d \in Views' : d[Live] # dir[Temp(k)]
      BY <1>3, <1>4, <2>4, <3>1, <3>2, NamesDiffer DEF OwnTemp
    <3> QED BY <2>4, <3>1, <3>2, <3>3 DEF OwnTemp
  <2>6. pc[k] = "rename" => file'[dir'[Temp(k)]] = Written(Result(k))
    BY <1>2, <2>1, <2>4 DEF Ready
  <2> QED BY <2>1, <2>2, <2>3, <2>5, <2>6 DEF Ready
<1>15. \A k \in Names : k # n => dir'[k] # dir'[n]
  BY <1>3, <1>4
<1>16. n # Live => \A d \in Views' : d[Live] # dir'[n]
  BY <1>3, <1>4, <1>15, NamesDiffer
<1> QED BY <1>2, <1>4, <1>8, <1>13, <1>14, <1>15, <1>16

\* A file that is no document yet is written: an output, a backup, or the
\* temporary file of m.
LEMMA WriteFile ==
    ASSUME ConfigInv, NEW m \in Migrators, NEW i \in 1..Len(file),
           IsSeq(file'), Len(file') = Len(file), file'[i] = [data |-> file'[i].data, synced |-> file'[i].synced],
           \A j \in 1..Len(file) : j # i => file'[j] = file[j],
           dir' = dir, past' = past, migrated' = migrated,
           \A d \in Views : d[Live] # i,
           \A d \in Views, c \in V1Docs : d[Backup(c)] = i => file'[i] = Written(V1(c)),
           \A k \in Migrators : k # m => dir[Temp(k)] # i \/ pc[k] # "rename"
    PROVE  /\ DiskInv'
           /\ \A k \in Migrators : k # m /\ pc'[k] = pc[k] /\ plan'[k] = plan[k] => Ready(k)'
           /\ \A c \in V1Docs : HasBackup(dir, c) => HasBackup(dir, c)'
           /\ OwnTemp(m) => OwnTemp(m)'
<1>1. /\ IsSeq(file) /\ IsSeq(past) /\ \A d \in Views : d \in [Names -> 0..Len(file)]
      /\ \A j \in 1..Len(file) : file[j] = [data |-> file[j].data, synced |-> file[j].synced]
  BY DEF ConfigInv, DiskInv, DiskShape
<1>2. Len(file) \in Nat
  BY <1>1 DEF IsSeq
<1>3. Views' = Views /\ dir \in Views
  BY DEF Views
<1>4. \A d \in Views : file'[d[Live]] = file[d[Live]] /\ d[Live] # 0 /\ Sound(d)
  BY <1>1, <1>2, NamesDiffer DEF ConfigInv, DiskInv, Sound, Whole
<1>5. DiskShape'
  BY <1>1, <1>2, <1>3 DEF DiskShape
<1>6. \A d \in Views, c \in V1Docs : HasBackup(d, c) => file'[d[Backup(c)]] = Written(V1(c)) /\ d[Backup(c)] # 0
  BY <1>1, <1>2, NamesDiffer DEF HasBackup
<1>7. \A c \in V1Docs : HasBackup(dir, c) => HasBackup(dir, c)'
  BY <1>3, <1>6 DEF HasBackup
<1>8. \A d \in Views : Sound(d)'
  <2> TAKE d \in Views
  <2> DEFINE y == file[d[Live]]
  <2>1. Whole(d)'
    BY <1>4 DEF Sound, Whole
  <2>2. y.data.version = 2 => file'[d[Backup(y.data.doc)]] = Written(V1(y.data.doc)) /\ d[Backup(y.data.doc)] # 0
    BY <1>4, <1>6 DEF Sound, Whole
  <2> QED BY <1>4, <2>1, <2>2 DEF Sound, HasBackup
<1>9. Separate' /\ Durable'
  BY <1>3, <1>4 DEF ConfigInv, DiskInv, Separate, Durable
<1>10. DiskInv'
  BY <1>3, <1>5, <1>8, <1>9 DEF DiskInv
<1>11. \A k \in Migrators : OwnTemp(k) => OwnTemp(k)'
  BY <1>3 DEF OwnTemp
<1>12. \A k \in Migrators : k # m /\ pc'[k] = pc[k] /\ plan'[k] = plan[k] => Ready(k)'
  <2> SUFFICES ASSUME NEW k \in Migrators, k # m, pc'[k] = pc[k], plan'[k] = plan[k] PROVE Ready(k)'
    OBVIOUS
  <2>1. Ready(k) /\ Result(k)' = Result(k)
    BY DEF ConfigInv, Result
  <2>2. pc[k] \in {"temp", "write", "rename"} => HasBackup(dir, plan[k].bytes)'
    BY <1>7, <2>1 DEF Ready
  <2>3. pc[k] = "rename" => file'[dir[Temp(k)]] = Written(Result(k))
    BY <1>1, <1>2, <1>3, <2>1, NamesDiffer DEF Ready, OwnTemp
  <2> QED BY <1>11, <2>1, <2>2, <2>3 DEF Ready
<1> QED BY <1>2, <1>7, <1>10, <1>11, <1>12

\* The temporary file of m is removed, or renamed over the live one.
LEMMA TempGoes ==
    ASSUME ConfigInv, NEW m \in Migrators, file' = file, past' = Append(past, dir),
           dir' \in [Names -> 0..Len(file)], dir'[Temp(m)] = 0,
           \A n \in Names : n # Live /\ n # Temp(m) => dir'[n] = dir[n],
           \/ dir'[Live] = dir[Live] /\ migrated' = migrated
           \/ /\ dir'[Live] = dir[Temp(m)] /\ dir[Temp(m)] # 0 /\ migrated' = Nothing
              /\ plan[m].bytes \in V1Docs /\ HasBackup(dir, plan[m].bytes)
              /\ file[dir[Temp(m)]] = Written(Result(m))
    PROVE  /\ DiskInv'
           /\ \A k \in Migrators : k # m /\ pc'[k] = pc[k] /\ plan'[k] = plan[k] => Ready(k)'
<1>1. /\ IsSeq(past) /\ \A d \in Views : d \in [Names -> 0..Len(file)]
  BY DEF ConfigInv, DiskInv, DiskShape
<1>2. IsSeq(past') /\ Views' = Views \union {dir'} /\ dir \in Views
  BY <1>1, ViewsGrow DEF Views
<1>3. DiskShape'
  BY <1>1, <1>2 DEF ConfigInv, DiskInv, DiskShape
<1>4. /\ dir'[Output] = dir[Output]
      /\ \A c \in V1Docs : dir'[Backup(c)] = dir[Backup(c)] /\ (HasBackup(dir, c) => HasBackup(dir, c)')
      /\ \A k \in Migrators : k # m => dir'[Temp(k)] = dir[Temp(k)]
  BY NamesDiffer DEF HasBackup
<1>5. Sound(dir)'
  <2>1. CASE dir'[Live] = dir[Live] /\ migrated' = migrated
    <3>1. Sound(dir)
      BY <1>2 DEF ConfigInv, DiskInv
    <3> QED BY <1>4, <2>1, <3>1 DEF Sound, Whole, HasBackup
  <2>2. CASE /\ dir'[Live] = dir[Temp(m)] /\ dir[Temp(m)] # 0
             /\ plan[m].bytes \in V1Docs /\ HasBackup(dir, plan[m].bytes)
             /\ file[dir[Temp(m)]] = Written(Result(m))
    <3> DEFINE y == file'[dir'[Live]]
    <3>1. y.synced /\ y.data.version = 2 /\ y.data.doc = plan[m].bytes
      BY <2>2 DEF Written, Result, MigrateConfig
    <3>2. \A c \in V1Docs : c = plan[m].bytes => HasBackup(dir, c)'
      BY <1>4, <2>2
    <3> QED BY <2>2, <3>1, <3>2 DEF Sound, Whole, HasBackup
  <2> QED BY <2>1, <2>2
<1>6. Separate'
  <2> SUFFICES ASSUME NEW d \in Views', NEW e \in Views', NEW b \in {Output} \union {Backup(c) : c \in V1Docs},
                      NEW k \in Names, d[b] = e[k], d[b] # 0
               PROVE  k = b
    BY DEF Separate
  <2>1. b \in Names /\ b # Live /\ b # Temp(m)
    BY NamesDiffer
  <2>2. \E d2 \in Views : d2[b] = d[b]
    BY <1>2, <2>1
  <2>3. \E e2 \in Views, k2 \in Names : e2[k2] = e[k] /\ (k2 = k \/ k2 = Temp(m))
    BY <1>2, NamesDiffer
  <2> QED BY <2>1, <2>2, <2>3 DEF ConfigInv, DiskInv, Separate
<1>7. Durable'
  BY <1>2 DEF ConfigInv, DiskInv, Durable
<1>8. \A d \in Views : Sound(d)'
  BY DEF ConfigInv, DiskInv, Sound, Whole, HasBackup
<1>9. DiskInv'
  <2>1. \A d \in Views' : Sound(d)'
    <3> TAKE d \in Views'
    <3>1. CASE d = dir'
      BY <1>5, <3>1 DEF Sound, Whole, HasBackup
    <3> QED BY <1>2, <1>8, <3>1
  <2> QED BY <1>3, <1>6, <1>7, <2>1 DEF DiskInv
<1>10. \A k \in Migrators : k # m /\ pc'[k] = pc[k] /\ plan'[k] = plan[k] => Ready(k)'
  <2> SUFFICES ASSUME NEW k \in Migrators, k # m, pc'[k] = pc[k], plan'[k] = plan[k] PROVE Ready(k)'
    OBVIOUS
  <2>1. Ready(k) /\ Result(k)' = Result(k)
    BY DEF ConfigInv, Result
  <2>2. pc[k] \in {"temp", "write", "rename"} => HasBackup(dir, plan[k].bytes)'
    BY <1>4, <2>1 DEF Ready
  <2>3. pc[k] \in {"write", "rename"} => OwnTemp(k)'
    <3> SUFFICES ASSUME pc[k] \in {"write", "rename"} PROVE OwnTemp(k)'
      OBVIOUS
    <3>1. OwnTemp(k) /\ dir'[Temp(k)] = dir[Temp(k)] /\ Temp(k) # Temp(m) /\ Temp(m) \in Names
      BY <1>4, <2>1, NamesDiffer DEF Ready
    <3>2. \A n \in Names : n # Temp(k) => dir'[n] # dir[Temp(k)]
      BY <3>1, NamesDiffer DEF OwnTemp
    <3>3. \A d \in Views' : d[Live] # dir[Temp(k)]
      BY <1>2, <3>1, <3>2, NamesDiffer DEF OwnTemp
    <3> QED BY <3>1, <3>2, <3>3 DEF OwnTemp
  <2> QED BY <1>4, <2>1, <2>2, <2>3 DEF Ready
<1> QED BY <1>9, <1>10

\* The disk is as it was, or fewer directories can be lost to.
LEMMA SameDisk ==
    ASSUME ConfigInv, file' = file, dir' = dir, past' = past \/ past' = <<>>,
           \/ migrated' = migrated
           \/ past' = <<>> /\ migrated' = file[dir[Live]].data
    PROVE  /\ DiskInv'
           /\ \A k \in Migrators : pc'[k] = pc[k] /\ plan'[k] = plan[k] => Ready(k)'
           /\ \A k \in Migrators : OwnTemp(k) => OwnTemp(k)'
<1>1. IsSeq(past') /\ Views' \subseteq Views /\ dir \in Views' /\ (past' = <<>> => Views' = {dir})
  <2>1. CASE past' = past
    BY <2>1 DEF ConfigInv, DiskInv, DiskShape, Views, IsSeq
  <2>2. CASE past' = <<>>
    <3>1. {past'[i] : i \in DOMAIN past'} = {} /\ past' \in Seq({})
      BY <2>2
    <3>2. IsSeq(past')
      BY <3>1, SeqIsSeq
    <3> QED BY <2>2, <3>1, <3>2 DEF Views
  <2> QED BY <2>1, <2>2
<1>2. DiskShape' /\ Separate' /\ Durable'
  BY <1>1 DEF ConfigInv, DiskInv, DiskShape, Separate, Durable
<1>3. \A d \in Views' : Sound(d)'
  BY <1>1 DEF ConfigInv, DiskInv, Sound, Whole, HasBackup
<1>4. \A k \in Migrators : OwnTemp(k) => OwnTemp(k)'
  BY <1>1 DEF OwnTemp
<1>5. \A k \in Migrators : pc'[k] = pc[k] /\ plan'[k] = plan[k] => Ready(k)'
  BY <1>4 DEF ConfigInv, Ready, Result, HasBackup
<1> QED BY <1>2, <1>3, <1>4, <1>5 DEF DiskInv

\* Power is lost in any of the directories, with any files torn that are not on the disk.
LEMMA Lost ==
    ASSUME ConfigInv, PowerLoss
    PROVE  ConfigInv'
<1>1. PICK d \in Views : dir' = d
  BY DEF PowerLoss, Views
<1>2. past' = <<>> /\ plan' = plan /\ migrated' = migrated
      /\ pc' = [m \in Migrators |-> IF pc[m] \in Ended THEN pc[m] ELSE "crashed"]
  BY DEF PowerLoss
<1>3. IsSeq(past') /\ Views' = {d}
  <2>1. {past'[i] : i \in DOMAIN past'} = {} /\ past' \in Seq({})
    BY <1>2
  <2>2. IsSeq(past')
    BY <2>1, SeqIsSeq
  <2> QED BY <1>1, <2>1, <2>2 DEF Views
<1>4. IsSeq(file) /\ d \in [Names -> 0..Len(file)]
      /\ \A j \in 1..Len(file) : file[j] = [data |-> file[j].data, synced |-> file[j].synced]
  BY DEF ConfigInv, DiskInv, DiskShape
<1>5. Len(file) \in Nat /\ DOMAIN file = 1..Len(file)
  BY <1>4 DEF IsSeq
<1>6. /\ IsSeq(file') /\ Len(file') = Len(file)
      /\ \A j \in 1..Len(file) : /\ file'[j] = [data |-> file'[j].data, synced |-> file'[j].synced]
                                 /\ file[j].synced => file'[j] = [data |-> file[j].data, synced |-> TRUE]
  <2> DEFINE q == file'
  <2>1. PICK lost \in SUBSET {i \in DOMAIN file : ~file[i].synced} :
            file' = [i \in 1..Len(file) |->
                       [data |-> IF i \in lost THEN Torn ELSE file[i].data, synced |-> TRUE]]
    BY <1>5 DEF PowerLoss
  <2>2. DOMAIN q = 1..Len(file) /\ q = [j \in 1..Len(file) |-> q[j]]
    BY <2>1
  <2>3. q \in Seq({q[j] : j \in 1..Len(file)}) /\ Len(q) = Len(file)
    <3> HIDE DEF q
    <3> QED BY <1>5, <2>2
  <2>4. IsSeq(q)
    BY <2>2, <2>3 DEF IsSeq
  <2> QED BY <2>1, <2>3, <2>4
<1>7. DiskShape'
  <2>1. \A e \in Views' : e \in [Names -> 0..Len(file')]
    BY <1>3, <1>4, <1>6
  <2>2. \A j \in 1..Len(file') : file'[j] = [data |-> file'[j].data, synced |-> file'[j].synced]
    BY <1>6
  <2> QED BY <1>3, <1>6, <2>1, <2>2 DEF DiskShape
<1>8. Sound(d) /\ d[Live] \in 1..Len(file)
  BY <1>4, <1>5, NamesDiffer DEF ConfigInv, DiskInv, Sound, Whole
<1>9. file'[d[Live]].data = file[d[Live]].data /\ file'[d[Live]].synced
  <2>1. file[d[Live]].synced
    BY <1>8 DEF Sound, Whole
  <2>2. file'[d[Live]] = [data |-> file[d[Live]].data, synced |-> TRUE]
    BY <1>6, <1>8, <2>1
  <2> QED BY <2>2
<1>10. \A c \in V1Docs : HasBackup(d, c) => file'[d[Backup(c)]] = Written(V1(c))
  <2> SUFFICES ASSUME NEW c \in V1Docs, HasBackup(d, c) PROVE file'[d[Backup(c)]] = Written(V1(c))
    OBVIOUS
  <2>1. d[Backup(c)] \in 1..Len(file) /\ file[d[Backup(c)]] = Written(V1(c))
    BY <1>4, <1>5, NamesDiffer DEF HasBackup
  <2>2. file[d[Backup(c)]].synced /\ file[d[Backup(c)]].data = V1(c)
    BY <2>1 DEF Written
  <2> QED BY <1>6, <2>1, <2>2 DEF Written
<1>11. Sound(d)'
  BY <1>8, <1>9, <1>10 DEF Sound, Whole, HasBackup
<1>12. Separate' /\ Durable'
  BY <1>2, <1>3, <1>9 DEF ConfigInv, DiskInv, Separate, Durable
<1>13. DiskInv'
  <2>1. \A e \in Views' : Sound(e)'
    BY <1>3, <1>11 DEF Sound, Whole, HasBackup
  <2> QED BY <1>7, <1>12, <2>1 DEF DiskInv
<1>14. PlanShape'
  BY <1>2 DEF ConfigInv, PlanShape
<1>15. \A m \in Migrators : Ready(m)'
  BY <1>2 DEF Ready, Ended
<1> QED BY <1>13, <1>14, <1>15 DEF ConfigInv

-----------------------------------------------------------------------------
(* The steps of an invocation. *)

\* The steps that leave the disk alone.
LEMMA Starts ==
    ASSUME ConfigInv, NEW m \in Migrators,
           ReadPlan(m) \/ HashPlan(m) \/ Review(m) \/ EndsAtReview(m) \/ Read(m) \/ MigratorCrash(m)
    PROVE  ConfigInv'
<1>1. file' = file /\ dir' = dir /\ past' = past /\ migrated' = migrated
  BY DEF ReadPlan, HashPlan, Review, EndsAtReview, Read, MigratorCrash, disk
<1>2. /\ pc = [k \in Migrators |-> pc[k]] /\ plan = [k \in Migrators |-> plan[k]]
      /\ \A k \in Migrators : plan[k] = [f \in Fields |-> plan[k][f]]
  BY DEF ConfigInv, PlanShape
<1>3. \A k \in Migrators : k # m => pc'[k] = pc[k] /\ plan'[k] = plan[k]
  BY <1>2 DEF ReadPlan, HashPlan, Review, EndsAtReview, Read, MigratorCrash, Go
<1>4. Sound(dir)
  BY DEF ConfigInv, DiskInv, Views
<1>5. /\ pc'[m] \in {"hash", "failed", "review", "output", "read", "crashed", "backup"}
      /\ pc'[m] = "backup" => plan'[m].bytes \in V1Docs
  <2>1. CASE Read(m)
    <3>1. CASE Data(Live).version = 1
      <4>1. plan'[m].bytes = Data(Live).doc /\ pc'[m] = "backup"
        BY <1>2, <2>1, <3>1 DEF Read, After, Fields
      <4> QED BY <1>4, <4>1 DEF Sound, Whole, Data
    <3> QED BY <1>2, <2>1, <3>1 DEF Read
  <2> QED BY <1>2, <2>1 DEF ReadPlan, HashPlan, Review, EndsAtReview, MigratorCrash, Go
<1>6. PlanShape'
  <2>1. pc' = [k \in Migrators |-> pc'[k]]
    BY <1>2 DEF ReadPlan, HashPlan, Review, EndsAtReview, Read, MigratorCrash, Go
  <2>2. PICK r : (plan' = plan \/ plan' = [plan EXCEPT ![m] = r]) /\ r = [g \in Fields |-> r[g]]
    <3>1. CASE ReadPlan(m)
      <4>1. CASE Data(Live).version = 1
        <5>1. PICK o, g : plan' = [plan EXCEPT ![m] = [NoPlan EXCEPT !.doc = Data(Live).doc, !.output = o, !.given = g]]
          BY <3>1, <4>1 DEF ReadPlan
        <5> DEFINE r == [NoPlan EXCEPT !.doc = Data(Live).doc, !.output = o, !.given = g]
        <5>2. plan' = [plan EXCEPT ![m] = r]
          BY <5>1
        <5>3. r = [f \in Fields |-> r[f]]
          BY DEF NoPlan, Fields
        <5> QED BY <5>2, <5>3
      <4>2. CASE Data(Live).version # 1
        BY <1>2, <3>1, <4>2 DEF ReadPlan
      <4> QED BY <4>1, <4>2
    <3>2. CASE HashPlan(m) \/ Read(m)
      <4>1. PICK f, v : plan' = plan \/ plan' = [plan EXCEPT ![m] = [plan[m] EXCEPT ![f] = v]]
        BY <1>2, <3>2 DEF HashPlan, Read
      <4>2. [plan[m] EXCEPT ![f] = v] = [g \in Fields |-> [plan[m] EXCEPT ![f] = v][g]]
        BY <1>2
      <4> QED BY <4>1, <4>2
    <3>3. CASE Review(m) \/ EndsAtReview(m) \/ MigratorCrash(m)
      BY <1>2, <3>3 DEF Review, EndsAtReview, MigratorCrash
    <3> QED BY <3>1, <3>2, <3>3
  <2>3. /\ plan' = [k \in Migrators |-> plan'[k]]
        /\ \A k \in Migrators : plan'[k] = [f \in Fields |-> plan'[k][f]]
    BY <1>2, <2>2
  <2> QED BY <2>1, <2>3 DEF PlanShape
<1>7. Ready(m)'
  BY <1>5 DEF Ready
<1>8. DiskInv' /\ \A k \in Migrators : k # m => Ready(k)'
  BY <1>1, <1>3, SameDisk
<1> QED BY <1>6, <1>7, <1>8 DEF ConfigInv

\* The output, which no property of the live file rests on.
LEMMA Outputs ==
    ASSUME ConfigInv, NEW m \in Migrators, CreateOutput(m) \/ WriteOutput(m)
    PROVE  ConfigInv'
<1>1. pc = [k \in Migrators |-> pc[k]] /\ plan' = plan /\ migrated' = migrated
  BY DEF ConfigInv, PlanShape, CreateOutput, WriteOutput
<1>2. (\A k \in Migrators : k # m => pc'[k] = pc[k]) /\ pc'[m] \in {"failed", "print", "done"}
  BY <1>1 DEF CreateOutput, WriteOutput, Go
<1>3. PlanShape'
  BY <1>1 DEF ConfigInv, PlanShape, CreateOutput, WriteOutput, Go
<1>4. CASE CreateOutput(m) /\ Exists(Output)
  <2>1. file' = file /\ dir' = dir /\ past' = past /\ pc'[m] = "failed"
    BY <1>1, <1>4 DEF CreateOutput, disk
  <2>2. Ready(m)'
    BY <2>1 DEF Ready
  <2> QED BY <1>1, <1>2, <1>3, <2>1, <2>2, SameDisk DEF ConfigInv
<1>5. CASE CreateOutput(m) /\ ~Exists(Output)
  <2> DEFINE x == [data |-> Torn, synced |-> FALSE]
  <2>1. /\ Output \in Names /\ Output # Live /\ dir[Output] = 0
        /\ file' = Append(file, x) /\ dir' = [dir EXCEPT ![Output] = Len(file) + 1] /\ past' = Append(past, dir)
        /\ pc'[m] = "print"
    BY <1>1, <1>5, NamesDiffer DEF CreateOutput, Create, Exists
  <2>2. x = [data |-> x.data, synced |-> x.synced]
    OBVIOUS
  <2> HIDE DEF x
  <2>3. DiskInv' /\ dir'[Output] # 0 /\ \A k \in Migrators : k # m => Ready(k)'
    BY <1>1, <1>2, <2>1, <2>2, NewFile
  <2>4. Ready(m)'
    BY <2>1, <2>3 DEF Ready
  <2> QED BY <1>3, <2>3, <2>4 DEF ConfigInv
<1>6. CASE WriteOutput(m)
  <2> DEFINE x == WrittenCached(Plan(m).new)
             i == dir[Output]
  <2>1. /\ file' = [file EXCEPT ![i] = x] /\ dir' = dir /\ past' = past /\ pc[m] = "print" /\ pc'[m] = "done"
    BY <1>1, <1>6 DEF WriteOutput, Go
  <2>2. x = [data |-> x.data, synced |-> x.synced]
    BY DEF WrittenCached
  <2>3. dir \in Views /\ Output \in Names /\ i # 0 /\ i \in 1..Len(file)
    <3>1. dir \in Views /\ Ready(m) /\ dir \in [Names -> 0..Len(file)] /\ Len(file) \in Nat
      BY DEF ConfigInv, DiskInv, DiskShape, Views, IsSeq
    <3> QED BY <2>1, <3>1, NamesDiffer DEF Ready
  <2>4. \A e \in Views, k \in Names : k # Output => e[k] # i
    BY <2>3 DEF ConfigInv, DiskInv, Separate
  <2>5. /\ \A d \in Views : d[Live] # i
        /\ \A d \in Views, c \in V1Docs : d[Backup(c)] = i => x = Written(V1(c))
        /\ \A k \in Migrators : k # m => dir[Temp(k)] # i \/ pc[k] # "rename"
    BY <2>3, <2>4, NamesDiffer
  <2> HIDE DEF x, i
  <2>6. /\ IsSeq(file') /\ Len(file') = Len(file) /\ file'[i] = x
        /\ file'[i] = [data |-> file'[i].data, synced |-> file'[i].synced]
        /\ \A j \in 1..Len(file) : j # i => file'[j] = file[j]
    <3>1. IsSeq(file)
      BY DEF ConfigInv, DiskInv, DiskShape
    <3>2. DOMAIN file = 1..Len(file)
      BY <3>1 DEF IsSeq
    <3>3. file' = [j \in DOMAIN file |-> file'[j]] /\ file'[i] = x /\ \A j \in DOMAIN file : j # i => file'[j] = file[j]
      BY <2>1, <2>3, <3>2
    <3> QED BY <2>2, <2>3, <3>1, <3>3, Replaced
  <2>7. DiskInv' /\ \A k \in Migrators : k # m => Ready(k)'
    <3>1. \A d \in Views, c \in V1Docs : d[Backup(c)] = i => file'[i] = Written(V1(c))
      BY <2>5, <2>6
    <3>2. dir' = dir /\ past' = past /\ migrated' = migrated /\ i \in 1..Len(file)
      BY <1>1, <2>1, <2>3
    <3>3. \A d \in Views : d[Live] # i
      BY <2>5
    <3>4. \A k \in Migrators : k # m => dir[Temp(k)] # i \/ pc[k] # "rename"
      BY <2>5
    <3>5. DiskInv' /\ \A k \in Migrators : k # m /\ pc'[k] = pc[k] /\ plan'[k] = plan[k] => Ready(k)'
      BY <2>6, <3>1, <3>2, <3>3, <3>4, WriteFile
    <3> QED BY <1>1, <1>2, <3>5
  <2>8. Ready(m)'
    BY <2>1 DEF Ready
  <2> QED BY <1>3, <2>7, <2>8 DEF ConfigInv
<1> QED BY <1>4, <1>5, <1>6

\* The backup.
LEMMA Backups ==
    ASSUME ConfigInv, NEW m \in Migrators, CreateBackup(m) \/ FillBackup(m)
    PROVE  ConfigInv'
<1> DEFINE c == plan[m].bytes
           n == Backup(c)
<1>1. pc = [k \in Migrators |-> pc[k]] /\ plan' = plan /\ migrated' = migrated
  BY DEF ConfigInv, PlanShape, CreateBackup, FillBackup
<1>2. (\A k \in Migrators : k # m => pc'[k] = pc[k]) /\ pc'[m] \in {"failed", "fill", "temp"}
  BY <1>1 DEF CreateBackup, FillBackup, Go, After
<1>3. PlanShape'
  BY <1>1 DEF ConfigInv, PlanShape, CreateBackup, FillBackup, Go
<1>4. c \in V1Docs /\ n \in Names /\ n # Live
  <2>1. Ready(m) /\ pc[m] \in {"backup", "fill"}
    BY DEF ConfigInv, CreateBackup, FillBackup, Go
  <2>2. c \in V1Docs
    BY <2>1 DEF Ready
  <2> QED BY <2>2, NamesDiffer
<1>5. CASE CreateBackup(m) /\ Exists(n)
  <2>1. file' = file /\ dir' = dir /\ past' = past /\ pc'[m] = "failed"
    BY <1>1, <1>5 DEF CreateBackup, disk
  <2>2. Ready(m)'
    BY <2>1 DEF Ready
  <2> QED BY <1>1, <1>2, <1>3, <2>1, <2>2, SameDisk DEF ConfigInv
<1>6. CASE CreateBackup(m) /\ ~Exists(n)
  <2> DEFINE x == [data |-> Torn, synced |-> FALSE]
  <2>1. /\ dir[n] = 0
        /\ file' = Append(file, x) /\ dir' = [dir EXCEPT ![n] = Len(file) + 1] /\ past' = Append(past, dir)
        /\ pc'[m] = "fill"
    BY <1>1, <1>6 DEF CreateBackup, Create, Exists
  <2>2. x = [data |-> x.data, synced |-> x.synced]
    OBVIOUS
  <2> HIDE DEF x, n
  <2>3. DiskInv' /\ dir'[n] # 0 /\ \A k \in Migrators : k # m => Ready(k)'
    BY <1>1, <1>2, <1>4, <2>1, <2>2, NewFile
  <2>4. Ready(m)'
    BY <1>1, <1>4, <2>1, <2>3 DEF Ready, n
  <2> QED BY <1>3, <2>3, <2>4 DEF ConfigInv
<1>7. CASE FillBackup(m)
  <2> DEFINE x == Written(V1(c))
             i == dir[n]
  <2>1. /\ file' = [file EXCEPT ![i] = x] /\ dir' = dir /\ past' = past /\ pc[m] = "fill" /\ pc'[m] = "temp"
    BY <1>1, <1>7 DEF FillBackup, Go, After
  <2>2. x = [data |-> x.data, synced |-> x.synced]
    BY DEF Written
  <2>3. dir \in Views /\ i # 0 /\ i \in 1..Len(file)
    <3>1. dir \in Views /\ Ready(m) /\ dir \in [Names -> 0..Len(file)] /\ Len(file) \in Nat
      BY DEF ConfigInv, DiskInv, DiskShape, Views, IsSeq
    <3> QED BY <1>4, <2>1, <3>1 DEF Ready
  <2>4. \A e \in Views, k \in Names : k # n => e[k] # i
    BY <1>4, <2>3 DEF ConfigInv, DiskInv, Separate
  <2>5. /\ \A e \in Views : e[Live] # i /\ \A b \in V1Docs : e[Backup(b)] = i => x = Written(V1(b))
        /\ \A k \in Migrators : dir[Temp(k)] # i
    BY <1>4, <2>3, <2>4, NamesDiffer
  <2> HIDE DEF x, i
  <2>6. /\ IsSeq(file') /\ Len(file') = Len(file) /\ file'[i] = x
        /\ file'[i] = [data |-> file'[i].data, synced |-> file'[i].synced]
        /\ \A j \in 1..Len(file) : j # i => file'[j] = file[j]
    <3>1. IsSeq(file)
      BY DEF ConfigInv, DiskInv, DiskShape
    <3>2. DOMAIN file = 1..Len(file)
      BY <3>1 DEF IsSeq
    <3>3. file' = [j \in DOMAIN file |-> file'[j]] /\ file'[i] = x /\ \A j \in DOMAIN file : j # i => file'[j] = file[j]
      BY <2>1, <2>3, <3>2
    <3> QED BY <2>2, <2>3, <3>1, <3>3, Replaced
  <2>7. DiskInv' /\ \A k \in Migrators : k # m => Ready(k)'
    <3>1. \A d \in Views, b \in V1Docs : d[Backup(b)] = i => file'[i] = Written(V1(b))
      BY <2>5, <2>6
    <3>2. dir' = dir /\ past' = past /\ migrated' = migrated /\ i \in 1..Len(file)
      BY <1>1, <2>1, <2>3
    <3>3. \A d \in Views : d[Live] # i
      BY <2>5
    <3>4. \A k \in Migrators : k # m => dir[Temp(k)] # i \/ pc[k] # "rename"
      BY <2>5
    <3>5. DiskInv' /\ \A k \in Migrators : k # m /\ pc'[k] = pc[k] /\ plan'[k] = plan[k] => Ready(k)'
      BY <2>6, <3>1, <3>2, <3>3, <3>4, WriteFile
    <3> QED BY <1>1, <1>2, <3>5
  <2>8. Ready(m)'
    BY <1>1, <1>4, <2>1, <2>3, <2>6 DEF Ready, HasBackup, x, i
  <2> QED BY <1>3, <2>7, <2>8 DEF ConfigInv
<1> QED BY <1>5, <1>6, <1>7

\* The temporary file.
LEMMA Temps ==
    ASSUME ConfigInv, NEW m \in Migrators, CreateTemp(m) \/ WriteTemp(m)
    PROVE  ConfigInv'
<1> DEFINE c == plan[m].bytes
           n == Temp(m)
<1>1. pc = [k \in Migrators |-> pc[k]] /\ plan' = plan /\ migrated' = migrated
  BY DEF ConfigInv, PlanShape, CreateTemp, WriteTemp
<1>2. \A k \in Migrators : k # m => pc'[k] = pc[k]
  BY <1>1 DEF CreateTemp, WriteTemp, Go, After
<1>3. PlanShape'
  BY <1>1 DEF ConfigInv, PlanShape, CreateTemp, WriteTemp, Go
<1>4. c \in V1Docs /\ HasBackup(dir, c) /\ n \in Names /\ n # Live
  <2>1. Ready(m) /\ pc[m] \in {"temp", "write"}
    BY DEF ConfigInv, CreateTemp, WriteTemp, Go
  <2> QED BY <2>1, NamesDiffer DEF Ready
<1>5. CASE CreateTemp(m)
  <2> DEFINE x == [data |-> Torn, synced |-> FALSE]
  <2>1. /\ dir[n] = 0
        /\ file' = Append(file, x) /\ dir' = [dir EXCEPT ![n] = Len(file) + 1] /\ past' = Append(past, dir)
        /\ pc'[m] = "write"
    BY <1>1, <1>5 DEF CreateTemp, Create, Exists, Go
  <2>2. x = [data |-> x.data, synced |-> x.synced]
    OBVIOUS
  <2> HIDE DEF x, n
  <2>3. /\ DiskInv' /\ dir'[n] # 0 /\ \A k \in Migrators : k # m => Ready(k)'
        /\ \A b \in V1Docs : HasBackup(dir, b) => HasBackup(dir, b)'
        /\ \A k \in Names : k # n => dir'[k] # dir'[n]
        /\ \A d \in Views' : d[Live] # dir'[n]
    BY <1>1, <1>2, <1>4, <2>1, <2>2, NewFile
  <2>4. OwnTemp(m)'
    BY <2>3 DEF OwnTemp, n
  <2>5. \A b \in V1Docs : b = c => HasBackup(dir, b)'
    BY <1>4, <2>3
  <2>6. Ready(m)'
    BY <1>1, <1>4, <2>1, <2>4, <2>5 DEF Ready
  <2> QED BY <1>3, <2>3, <2>6 DEF ConfigInv
<1>6. CASE WriteTemp(m)
  <2> DEFINE x == Written(Result(m))
             i == dir[n]
  <2>1. /\ file' = [file EXCEPT ![i] = x] /\ dir' = dir /\ past' = past /\ pc[m] = "write" /\ pc'[m] = "rename"
    BY <1>1, <1>6 DEF WriteTemp, Go, After
  <2>2. x = [data |-> x.data, synced |-> x.synced]
    BY DEF Written
  <2>3. OwnTemp(m) /\ i # 0 /\ i \in 1..Len(file)
    <3>1. dir \in Views /\ Ready(m) /\ dir \in [Names -> 0..Len(file)] /\ Len(file) \in Nat
      BY DEF ConfigInv, DiskInv, DiskShape, Views, IsSeq
    <3> QED BY <1>4, <2>1, <3>1 DEF Ready, OwnTemp
  <2>4. \A d \in Views, b \in V1Docs : d[Backup(b)] # i
    <3> SUFFICES ASSUME NEW d \in Views, NEW b \in V1Docs, d[Backup(b)] = i PROVE FALSE
      OBVIOUS
    <3>1. dir \in Views /\ d[Backup(b)] = dir[n] /\ d[Backup(b)] # 0
      BY <2>3 DEF Views
    <3>2. n = Backup(b)
      BY <1>4, <3>1 DEF ConfigInv, DiskInv, Separate
    <3> QED BY <3>2, NamesDiffer
  <2>5. /\ \A d \in Views : d[Live] # i
        /\ \A k \in Migrators : k # m => dir[Temp(k)] # i
    BY <2>3, NamesDiffer DEF OwnTemp
  <2> HIDE DEF x, i
  <2>6. /\ IsSeq(file') /\ Len(file') = Len(file) /\ file'[i] = x
        /\ file'[i] = [data |-> file'[i].data, synced |-> file'[i].synced]
        /\ \A j \in 1..Len(file) : j # i => file'[j] = file[j]
    <3>1. IsSeq(file)
      BY DEF ConfigInv, DiskInv, DiskShape
    <3>2. DOMAIN file = 1..Len(file)
      BY <3>1 DEF IsSeq
    <3>3. file' = [j \in DOMAIN file |-> file'[j]] /\ file'[i] = x /\ \A j \in DOMAIN file : j # i => file'[j] = file[j]
      BY <2>1, <2>3, <3>2
    <3> QED BY <2>2, <2>3, <3>1, <3>3, Replaced
  <2>7. /\ DiskInv' /\ OwnTemp(m)'
        /\ \A b \in V1Docs : HasBackup(dir, b) => HasBackup(dir, b)'
        /\ \A k \in Migrators : k # m /\ pc'[k] = pc[k] /\ plan'[k] = plan[k] => Ready(k)'
    <3>1. \A d \in Views, b \in V1Docs : d[Backup(b)] = i => file'[i] = Written(V1(b))
      BY <2>4
    <3>2. dir' = dir /\ past' = past /\ migrated' = migrated /\ i \in 1..Len(file)
      BY <1>1, <2>1, <2>3
    <3>3. \A d \in Views : d[Live] # i
      BY <2>5
    <3>4. \A k \in Migrators : k # m => dir[Temp(k)] # i \/ pc[k] # "rename"
      BY <2>5
    <3> QED BY <2>3, <2>6, <3>1, <3>2, <3>3, <3>4, WriteFile
  <2>8. Ready(m)'
    <3>1. \A b \in V1Docs : b = c => HasBackup(dir, b)'
      BY <1>4, <2>7
    <3>2. file'[dir'[n]] = Written(Result(m))'
      BY <1>1, <2>1, <2>6 DEF x, i, Result
    <3> QED BY <1>1, <1>4, <2>1, <2>7, <3>1, <3>2 DEF Ready
  <2> QED BY <1>1, <1>2, <1>3, <2>7, <2>8 DEF ConfigInv
<1> QED BY <1>5, <1>6

\* The new file takes the place of the old one, or is removed.
LEMMA Replaces ==
    ASSUME ConfigInv, NEW m \in Migrators, Rename(m) \/ SyncDir(m) \/ WriteFails(m)
    PROVE  ConfigInv'
<1>1. pc = [k \in Migrators |-> pc[k]] /\ plan' = plan /\ file' = file
  BY DEF ConfigInv, PlanShape, Rename, SyncDir, WriteFails
<1>2. \A k \in Migrators : k # m => pc'[k] = pc[k] /\ plan'[k] = plan[k]
  BY <1>1 DEF Rename, SyncDir, WriteFails, Go
<1>3. PlanShape'
  BY <1>1 DEF ConfigInv, PlanShape, Rename, SyncDir, WriteFails, Go
<1>4. Ready(m) /\ dir \in Views /\ dir \in [Names -> 0..Len(file)]
  BY DEF ConfigInv, DiskInv, DiskShape, Views
<1>5. Temp(m) \in Names /\ Temp(m) # Live /\ Live \in Names
  BY NamesDiffer
<1>6. CASE Rename(m)
  <2>1. /\ pc[m] = "rename" /\ pc'[m] = "sync" /\ past' = Append(past, dir) /\ migrated' = Nothing
        /\ dir' = [dir EXCEPT ![Live] = dir[Temp(m)], ![Temp(m)] = 0]
    BY <1>1, <1>6 DEF Rename, Go, After
  <2>2. /\ plan[m].bytes \in V1Docs /\ HasBackup(dir, plan[m].bytes) /\ OwnTemp(m)
        /\ file[dir[Temp(m)]] = Written(Result(m)) /\ dir[Temp(m)] # 0
    BY <1>4, <2>1 DEF Ready, OwnTemp
  <2>3. /\ dir' \in [Names -> 0..Len(file)] /\ dir'[Temp(m)] = 0 /\ dir'[Live] = dir[Temp(m)]
        /\ \A n \in Names : n # Live /\ n # Temp(m) => dir'[n] = dir[n]
    <3>1. 0 \in 0..Len(file)
      BY DEF ConfigInv, DiskInv, DiskShape, IsSeq
    <3> QED BY <1>4, <1>5, <2>1, <3>1
  <2>4. DiskInv' /\ \A k \in Migrators : k # m => Ready(k)'
    BY <1>1, <1>2, <2>1, <2>2, <2>3, TempGoes
  <2>5. Ready(m)'
    BY <1>1, <2>1, <2>2 DEF Ready
  <2> QED BY <1>3, <2>4, <2>5 DEF ConfigInv
<1>7. CASE SyncDir(m)
  <2>1. dir' = dir /\ past' = <<>> /\ pc'[m] = "done"
        /\ (migrated' = migrated \/ migrated' = file[dir[Live]].data)
    BY <1>1, <1>7 DEF SyncDir, Go, Data
  <2>2. Ready(m)'
    BY <2>1 DEF Ready
  <2> QED BY <1>1, <1>2, <1>3, <2>1, <2>2, SameDisk DEF ConfigInv
<1>8. CASE WriteFails(m)
  <2>1. pc'[m] = "failed" /\ migrated' = migrated
    BY <1>1, <1>8 DEF WriteFails
  <2>2. Ready(m)'
    BY <2>1 DEF Ready
  <2>3. CASE Exists(Temp(m))
    <3>1. dir' = [dir EXCEPT ![Temp(m)] = 0] /\ past' = Append(past, dir)
      BY <1>8, <2>3 DEF WriteFails
    <3>2. /\ dir' \in [Names -> 0..Len(file)] /\ dir'[Temp(m)] = 0 /\ dir'[Live] = dir[Live]
          /\ \A n \in Names : n # Live /\ n # Temp(m) => dir'[n] = dir[n]
      <4>1. 0 \in 0..Len(file)
        BY DEF ConfigInv, DiskInv, DiskShape, IsSeq
      <4> QED BY <1>4, <1>5, <3>1, <4>1
    <3>3. DiskInv' /\ \A k \in Migrators : k # m => Ready(k)'
      BY <1>1, <1>2, <2>1, <3>1, <3>2, TempGoes
    <3> QED BY <1>3, <2>2, <3>3 DEF ConfigInv
  <2>4. CASE ~Exists(Temp(m))
    <3>1. dir' = dir /\ past' = past
      BY <1>8, <2>4 DEF WriteFails
    <3> QED BY <1>1, <1>2, <1>3, <2>1, <2>2, <3>1, SameDisk DEF ConfigInv
  <2> QED BY <2>3, <2>4
<1> QED BY <1>6, <1>7, <1>8

\* The operator's editor renames a whole document over the file.
LEMMA Edits ==
    ASSUME ConfigInv, NEW c \in V1Docs, Edit(c)
    PROVE  ConfigInv'
<1> DEFINE x == Written(V1(c))
<1>1. /\ file' = Append(file, x) /\ dir' = [dir EXCEPT ![Live] = Len(file) + 1] /\ past' = Append(past, dir)
      /\ migrated' = Nothing /\ pc' = pc /\ plan' = plan
  BY DEF Edit, Written
<1>2. x = [data |-> x.data, synced |-> x.synced] /\ x = Written(V1(x.data.doc)) /\ x.data.doc \in V1Docs
  BY DEF Written, V1
<1> HIDE DEF x
<1>3. DiskInv' /\ \A k \in Migrators : Ready(k)'
  BY <1>1, <1>2, NamesDiffer, NewFile
<1>4. PlanShape'
  BY <1>1 DEF ConfigInv, PlanShape
<1> QED BY <1>3, <1>4 DEF ConfigInv

\* A fresh installation: the file alone, of schema 1 and synced.
LEMMA Installed == ConfigInit => ConfigInv
<1> SUFFICES ASSUME ConfigInit PROVE ConfigInv
  OBVIOUS
<1>1. PICK c \in V1Docs : file = <<Written(V1(c))>>
  BY DEF ConfigInit, Written
<1>2. /\ dir = [n \in Names |-> IF n = Live THEN 1 ELSE 0] /\ past = <<>> /\ migrated = Nothing
      /\ pc = [m \in Migrators |-> "idle"] /\ plan = [m \in Migrators |-> NoPlan]
  BY DEF ConfigInit
<1>3. IsSeq(past) /\ Views = {dir}
  <2>1. {past[i] : i \in DOMAIN past} = {} /\ past \in Seq({})
    BY <1>2
  <2>2. IsSeq(past)
    BY <2>1, SeqIsSeq
  <2> QED BY <2>1, <2>2 DEF Views
<1>4. IsSeq(file) /\ Len(file) = 1 /\ file[1] = Written(V1(c))
  <2>1. file \in Seq({Written(V1(c))}) /\ Len(file) = 1 /\ file[1] = Written(V1(c))
    BY <1>1
  <2>2. IsSeq(file)
    BY <2>1, SeqIsSeq
  <2> QED BY <2>1, <2>2
<1>5. dir[Live] = 1 /\ \A n \in Names : n # Live => dir[n] = 0
  BY <1>2, NamesDiffer
<1>6. DiskShape
  BY <1>2, <1>3, <1>4 DEF DiskShape, Written
<1>7. Sound(dir)
  BY <1>4, <1>5 DEF Sound, Whole, Written, V1
<1>8. Separate /\ Durable
  BY <1>2, <1>3, <1>5, NamesDiffer DEF Separate, Durable
<1>9. DiskInv
  BY <1>3, <1>6, <1>7, <1>8 DEF DiskInv
<1>10. PlanShape
  BY <1>2 DEF PlanShape, NoPlan, Fields
<1>11. \A m \in Migrators : Ready(m)
  BY <1>2 DEF Ready
<1> QED BY <1>9, <1>10, <1>11 DEF ConfigInv

\* Every step, of whatever migration or of the environment, keeps the invariant.
LEMMA ConfigStep == ConfigInv /\ [ConfigNext]_configVars => ConfigInv'
<1> SUFFICES ASSUME ConfigInv, [ConfigNext]_configVars PROVE ConfigInv'
  OBVIOUS
<1>1. ASSUME NEW m \in Migrators,
             ReadPlan(m) \/ HashPlan(m) \/ Review(m) \/ EndsAtReview(m) \/ Read(m) \/ MigratorCrash(m)
      PROVE  ConfigInv'
  BY <1>1, Starts
<1>2. ASSUME NEW m \in Migrators, CreateOutput(m) \/ WriteOutput(m) PROVE ConfigInv'
  BY <1>2, Outputs
<1>3. ASSUME NEW m \in Migrators, CreateBackup(m) \/ FillBackup(m) PROVE ConfigInv'
  BY <1>3, Backups
<1>4. ASSUME NEW m \in Migrators, CreateTemp(m) \/ WriteTemp(m) PROVE ConfigInv'
  BY <1>4, Temps
<1>5. ASSUME NEW m \in Migrators, Rename(m) \/ SyncDir(m) \/ WriteFails(m) PROVE ConfigInv'
  BY <1>5, Replaces
<1>6. ASSUME NEW c \in V1Docs, Edit(c) PROVE ConfigInv'
  BY <1>6, Edits
<1>7. CASE PowerLoss
  BY <1>7, Lost
<1>8. CASE UNCHANGED configVars
  <2>1. file' = file /\ dir' = dir /\ past' = past /\ migrated' = migrated /\ pc' = pc /\ plan' = plan
    BY <1>8 DEF configVars, disk
  <2>2. DiskInv' /\ \A m \in Migrators : Ready(m)'
    BY <2>1, SameDisk
  <2>3. PlanShape'
    BY <2>1 DEF ConfigInv, PlanShape
  <2> QED BY <2>2, <2>3 DEF ConfigInv
<1> QED BY <1>1, <1>2, <1>3, <1>4, <1>5, <1>6, <1>7, <1>8 DEF ConfigNext

\* migrate-file.ts, steps 4 to 6: whatever invocations run beside each other,
\* whoever edits the file, and wherever a crash, a failed write or a loss of
\* power falls, the file is a whole document with a backup of what it was
\* migrated from, and an answered migration stays.
THEOREM MigratesSafely == ConfigSpec => []MigrationSafe
<1>1. ConfigInv => MigrationSafe
  <2> SUFFICES ASSUME ConfigInv PROVE MigrationSafe
    OBVIOUS
  <2>1. Sound(dir) /\ (migrated # Nothing => Data(Live) = migrated)
    BY DEF ConfigInv, DiskInv, Durable, Views, Data
  <2>2. Data(Live) # Torn
    BY <2>1 DEF Sound, Whole, V1, Torn, Data
  <2> QED BY <2>1, <2>2 DEF MigrationSafe, BackupKept, MigrationDurable, Sound, HasBackup, Data, Exists, Written
<1> QED BY <1>1, Installed, ConfigStep, PTL DEF ConfigSpec

-----------------------------------------------------------------------------
(* What a consent discloses. *)

\* A redacted value is cleared.
LEMMA RedactedIsClear ==
    ASSUME NEW c, NEW value, Decoded(value)
    PROVE  Cleared(c, value, RedactValue(c, value))
<1> SUFFICES ASSUME NEW x \in value
             PROVE  LET leaf == Scrubbed(RedactedLeaf(c, x)) IN
                    /\ leaf.key \in RedactedKeys(c) => leaf.text = Redacted /\ leaf.secrets = 0
                    /\ leaf.secrets > 0 =>
                          \E read \in value :
                              read.key = leaf.key /\ read.text = leaf.text /\ read.secrets = leaf.secrets + 1
  BY DEF RedactValue, Cleared, RedactedKeys, PolicyKeys
<1>1. DOMAIN x = {"key", "text", "secrets"} /\ x.secrets \in Nat
  BY DEF Decoded
<1>2. CASE x.key \in RedactedKeys(c)
  BY <1>2 DEF Scrubbed, RedactedLeaf
<1>3. CASE x.key \notin RedactedKeys(c)
  <2>1. RedactedLeaf(c, x) = x
    BY <1>3 DEF RedactedLeaf
  <2>2. CASE x.secrets = 0
    BY <1>3, <2>1, <2>2 DEF Scrubbed
  <2>3. CASE x.secrets > 0
    <3>1. Scrubbed(x).key = x.key /\ Scrubbed(x).text = x.text /\ Scrubbed(x).secrets = x.secrets - 1
      BY <1>1, <2>3 DEF Scrubbed
    <3>2. x.secrets = Scrubbed(x).secrets + 1
      BY <1>1, <3>1
    <3> QED BY <1>3, <2>1, <3>1, <3>2
  <2> QED BY <1>1, <2>2, <2>3
<1> QED BY <1>2, <1>3

\* A signed envelope is sent as it is only if nothing in it is sensitive.
LEMMA ClearUnlessSensitive ==
    ASSUME NEW c, NEW value, ~ContainsSensitive(c, value)
    PROVE  Cleared(c, value, value)
BY DEF ContainsSensitive, Cleared, PolicyKeys

\* What a payload may hold.
LetOut(c, event, p) ==
    /\ event.personal => c.personalData /\ c.deletionContract
    /\ Cleared(c, event.envelope, p.body)
    /\ \A d \in DOMAIN p.objects :
          \/ c.profile = "full" /\ c.include_objects /\ d \in c.allowedObjects
          \/ c.profile = "masked" /\ Cleared(c, event.objects[d], p.objects[d])

\* Whatever the profile, what is not denied is projected to what may be let out.
LEMMA ProjectionLetsOut ==
    ASSUME NEW c, NEW event \in Events, ~IsDenied(c, event)
    PROVE  LetOut(c, event, ProjectForStream(c, event))
<1> DEFINE p == ProjectForStream(c, event)
<1>1. event.personal => c.personalData /\ c.deletionContract
  BY DEF IsDenied
<1>2. Cleared(c, event.envelope, RedactValue(c, event.envelope))
  BY DisclosureAssumption, RedactedIsClear
<1>3. CASE c.profile = "full"
  <2>1. p = Full(c, event)
    BY <1>3 DEF ProjectForStream
  <2>2. Cleared(c, event.envelope, p.body)
    <3>1. CASE event.signed
      <4>1. p.body = event.envelope
        BY <2>1, <3>1 DEF Full
      <4>2. ~ContainsSensitive(c, event.envelope)
        BY <1>3, <3>1 DEF IsDenied
      <4> QED BY <4>1, <4>2, ClearUnlessSensitive
    <3>2. CASE ~event.signed
      <4>1. p.body = RedactValue(c, event.envelope)
        BY <2>1, <3>2 DEF Full
      <4> QED BY <1>2, <4>1
    <3> QED BY <3>1, <3>2
  <2>3. \A d \in DOMAIN p.objects : c.include_objects /\ d \in c.allowedObjects
    BY <2>1 DEF Full
  <2> QED BY <1>1, <1>3, <2>2, <2>3 DEF LetOut
<1>4. CASE c.profile = "masked"
  <2>1. p = Masked(c, event)
    BY <1>4 DEF ProjectForStream
  <2>2. p.body = RedactValue(c, event.envelope)
        /\ p.objects = [d \in DOMAIN event.objects |-> RedactValue(c, event.objects[d])]
    BY <2>1 DEF Masked
  <2>3. \A d \in DOMAIN event.objects : Decoded(event.objects[d])
    BY DisclosureAssumption
  <2>4. \A d \in DOMAIN p.objects : Cleared(c, event.objects[d], p.objects[d])
    BY <2>2, <2>3, RedactedIsClear
  <2> QED BY <1>1, <1>2, <1>4, <2>2, <2>4 DEF LetOut
<1>5. CASE c.profile \notin {"full", "masked"}
  <2>1. p = Metadata(c, event)
    BY <1>5 DEF ProjectForStream
  <2>2. p.body = RedactValue(c, event.envelope) /\ DOMAIN p.objects = {}
    BY <2>1 DEF Metadata
  <2> QED BY <1>1, <1>2, <2>2 DEF LetOut
<1> QED BY <1>3, <1>4, <1>5

\* The policy hash covers all the projection depends on.
LEMMA PolicyDecides ==
    ASSUME NEW c, NEW d, NEW event, RedactionPolicy(c) = RedactionPolicy(d)
    PROVE  ProjectForStream(c, event) = ProjectForStream(d, event)
<1> DEFINE Flags == {"profile", "include_objects", "hashes", "ids", "existence", "personalData", "deletionContract",
                     "allowedObjects", "redactKeys", "includeRawText"}
<1>1. \A f \in Flags : RedactionPolicy(c)[f] = c[f] /\ RedactionPolicy(d)[f] = d[f]
  BY DEF RedactionPolicy
<1>2. /\ c.profile = d.profile /\ c.include_objects = d.include_objects /\ c.hashes = d.hashes
      /\ c.ids = d.ids /\ c.existence = d.existence /\ c.allowedObjects = d.allowedObjects
      /\ c.redactKeys = d.redactKeys /\ c.includeRawText = d.includeRawText
  BY <1>1
<1>3. RedactedKeys(c) = RedactedKeys(d)
  BY <1>2 DEF RedactedKeys, PolicyKeys
<1>4. \A value : RedactValue(c, value) = RedactValue(d, value)
  BY <1>3 DEF RedactValue, RedactedLeaf
<1>5. \A digests : Inventory(c, digests) = Inventory(d, digests)
  BY <1>2 DEF Inventory
<1>6. Source(c, event) = Source(d, event)
  BY <1>2 DEF Source
<1> QED BY <1>2, <1>4, <1>5, <1>6 DEF ProjectForStream, Full, Masked, Metadata

-----------------------------------------------------------------------------
(* The inductive invariant: a row is what its event says under the consent *)
(* it was made with, and its id names both.                                *)

RowsAsProjected ==
    \A id \in DOMAIN outbox :
        LET row == outbox[id] IN
        /\ row.event \in Events /\ ~IsDenied(row.consent, row.event)
        /\ row.payload = ProjectForStream(row.consent, row.event)
        /\ id = OutboxItemId(row.consent, row.event)

AnsweredAsAsked ==
    /\ revision \in Nat
    /\ \A a \in answered :
          /\ a.revision \in Nat /\ a.revision <= revision /\ a.id \in DOMAIN outbox
          /\ a.revision = revision => outbox[a.id].payload = ProjectForStream(consent, a.event)

DisclosureInv == RowsAsProjected /\ AnsweredAsAsked

\* Of an empty outbox there is nothing to say.
LEMMA DisclosureInitInv == DisclosureInit => DisclosureInv
BY DEF DisclosureInit, DisclosureInv, RowsAsProjected, AnsweredAsAsked

\* A new row, or the row that is there for the same event and policy.
LEMMA EnqueueInv ==
    ASSUME DisclosureInv, NEW event \in Events, Enqueue(event)
    PROVE  DisclosureInv'
<1> DEFINE id == OutboxItemId(consent, event)
           new == [payload |-> ProjectForStream(consent, event), consent |-> consent, event |-> event]
<1>1. /\ DOMAIN outbox' = DOMAIN outbox \union {id}
      /\ \A k \in DOMAIN outbox : outbox'[k] = outbox[k]
      /\ id \notin DOMAIN outbox => outbox'[id] = new
  BY DEF Enqueue
<1>2. consent' = consent /\ revision' = revision /\ ~IsDenied(consent, event)
      /\ answered' = {[event |-> event, id |-> id, revision |-> revision]}
  BY DEF Enqueue, Enqueueable
<1>3. RowsAsProjected'
  BY <1>1, <1>2 DEF DisclosureInv, RowsAsProjected
<1>4. outbox'[id].payload = ProjectForStream(consent, event)
  <2>1. CASE id \notin DOMAIN outbox
    BY <1>1, <2>1
  <2>2. CASE id \in DOMAIN outbox
    <3> DEFINE c == outbox[id].consent
               e == outbox[id].event
    <3>1. e \in Events /\ outbox[id].payload = ProjectForStream(c, e) /\ id = OutboxItemId(c, e)
      BY <2>2 DEF DisclosureInv, RowsAsProjected
    <3>2. e.source = event.source /\ RedactionPolicy(c) = RedactionPolicy(consent)
      BY <3>1 DEF OutboxItemId
    <3>3. e = event
      BY <3>1, <3>2, DisclosureAssumption
    <3> QED BY <1>1, <2>2, <3>1, <3>2, <3>3, PolicyDecides
  <2> QED BY <2>1, <2>2
<1>5. AnsweredAsAsked'
  <2>1. revision \in Nat
    BY DEF DisclosureInv, AnsweredAsAsked
  <2> HIDE DEF id, new
  <2>2. \A a \in answered' : a.revision = revision /\ a.id = id /\ a.event = event
    BY <1>2
  <2> QED BY <1>1, <1>2, <1>4, <2>1, <2>2 DEF AnsweredAsAsked
<1> QED BY <1>3, <1>5 DEF DisclosureInv

\* Answers that were given under another consent no longer speak for this one.
LEMMA ConsentInv ==
    ASSUME DisclosureInv, NEW c, Consent(c)
    PROVE  DisclosureInv'
<1>1. outbox' = outbox /\ answered' = answered /\ revision' = revision + 1
  BY DEF Consent
<1>2. RowsAsProjected'
  BY <1>1 DEF DisclosureInv, RowsAsProjected
<1>3. AnsweredAsAsked'
  BY <1>1 DEF DisclosureInv, AnsweredAsAsked
<1> QED BY <1>2, <1>3 DEF DisclosureInv

\* disclosure.ts and outboxItemId: whatever the consents are changed to and
\* however often an intent is repeated, no row holds what its consent keeps
\* back, and an answer of enqueue stands for what the consent in force lets out.
THEOREM DisclosesAsConsented == DisclosureSpec => []DisclosedAsConsented
<1>1. DisclosureInv /\ [DisclosureNext]_disclosureVars => DisclosureInv'
  <2> SUFFICES ASSUME DisclosureInv, [DisclosureNext]_disclosureVars PROVE DisclosureInv'
    OBVIOUS
  <2>1. CASE DisclosureNext
    BY <2>1, EnqueueInv, ConsentInv DEF DisclosureNext
  <2>2. CASE UNCHANGED disclosureVars
    BY <2>2 DEF disclosureVars, DisclosureInv, RowsAsProjected, AnsweredAsAsked
  <2> QED BY <2>1, <2>2
<1>2. DisclosureInv => DisclosedAsConsented
  <2> SUFFICES ASSUME DisclosureInv PROVE DisclosedAsConsented
    OBVIOUS
  <2>1. \A id \in DOMAIN outbox : LetOut(outbox[id].consent, outbox[id].event, outbox[id].payload)
    BY ProjectionLetsOut DEF DisclosureInv, RowsAsProjected
  <2>2. \A a \in answered : a.revision = revision => outbox[a.id].payload = ProjectForStream(consent, a.event)
    BY DEF DisclosureInv, AnsweredAsAsked
  <2> QED BY <2>1, <2>2 DEF DisclosedAsConsented, LetOut
<1> QED BY DisclosureInitInv, <1>1, <1>2, PTL DEF DisclosureSpec

-----------------------------------------------------------------------------
(* The catalog.                                                            *)

Mark(x) == [revision |-> x.revision, digest |-> x.digest]
Entered(x, offline) == [index |-> x, offline |-> offline]

\* The cache holds an index there is; the highest revision is of one, and the
\* cache is ahead of it, where a crash came between, or has its digest.
CatalogInv ==
    /\ cache = NoIndex \/ \E x \in Known, offline \in BOOLEAN : cache = Entered(x, offline)
    /\ highest # NoIndex =>
          /\ cache # NoIndex
          /\ \E x \in Known : highest = Mark(x)
          /\ \/ highest.revision < cache.index.revision
             \/ highest.revision = cache.index.revision /\ highest.digest = cache.index.digest

\* What the two action properties say of one step.
Advances ==
    highest # NoIndex =>
        /\ highest' # NoIndex /\ (highest' = highest \/ highest'.revision > highest.revision)
        /\ \/ highest.revision < cache.index.revision
           \/ cache'.index.revision > cache.index.revision
           \/ cache'.index.digest = cache.index.digest

Authorizes ==
    \A r \in Pinnable :
        /\ Pinned(r.slug, r.version, r.digest)
        /\ AuthorizeInstall(r.slug, r.version, r.digest) = "OK"
        /\ Pinned(r.slug, r.version, r.digest)'
        => AuthorizeInstall(r.slug, r.version, r.digest)' = "OK" \/ Revoked(cache, r.digest)'

LEMMA RevisionsAreNumbers == \A x \in Known : x.revision \in Nat
  BY CatalogAssumption

LEMMA NoneIsNoMark == \A x \in Known : Mark(x) # NoIndex
  BY CatalogAssumption, Zenon DEF Mark

LEMMA NoneIsNoEntry == \A x \in Known, offline \in BOOLEAN : Entered(x, offline) # NoIndex
  BY CatalogAssumption, Zenon DEF Entered

LEMMA MarkFields == \A x : Mark(x).revision = x.revision /\ Mark(x).digest = x.digest
  BY DEF Mark

LEMMA EntryFields == \A x, offline : Entered(x, offline).index = x
  BY DEF Entered

LEMMA CatalogBegun == CatalogInit => CatalogInv
<1> SUFFICES ASSUME CatalogInit PROVE CatalogInv
  OBVIOUS
<1>1. PICK x \in Kept : CatalogBegins(x)
  BY DEF CatalogInit
<1>2. CASE x = NoIndex
  BY <1>1, <1>2 DEF CatalogBegins, CatalogInv
<1>3. CASE x # NoIndex
  <2>1. x \in Known
    BY <1>3 DEF Known
  <2>2. cache = Entered(x, FALSE) /\ highest = Mark(x)
    BY <1>1, <1>3 DEF CatalogBegins, Entered, Mark
  <2>3. cache.index = x /\ highest.revision = x.revision /\ highest.digest = x.digest /\ cache # NoIndex
    BY <2>1, <2>2, MarkFields, EntryFields, NoneIsNoEntry
  <2> QED BY <2>1, <2>2, <2>3 DEF CatalogInv
<1> QED BY <1>2, <1>3

\* An index that is accepted is not below the highest revision, and has its
\* digest if it is at it.
LEMMA AcceptedFits ==
    ASSUME NEW x \in Known, RefreshCode(x, Channel, highest) = "OK", highest # NoIndex,
           highest.revision \in Nat
    PROVE  \/ highest.revision < x.revision
           \/ highest.revision = x.revision /\ highest.digest = x.digest
  BY RevisionsAreNumbers DEF RefreshCode

\* Whatever of its three commits a refresh makes.
LEMMA AcceptKeeps ==
    ASSUME CatalogInv, NEW x \in Known, NEW offline \in BOOLEAN, NEW k \in 1..3,
           RefreshCode(x, Channel, highest) = "OK", Accept(x, offline, k)
    PROVE  CatalogInv' /\ Advances /\ cache' # NoIndex
<1> USE RevisionsAreNumbers, NoneIsNoMark, NoneIsNoEntry, MarkFields, EntryFields
<1>1. cache' = Entered(x, offline) /\ cache' # NoIndex /\ cache'.index = x
  <2>1. cache' = Entered(x, offline)
    BY DEF Accept, SaveCache, Entered
  <2> QED BY <2>1
<1>2. x.revision \in Nat /\ Mark(x) # NoIndex
  OBVIOUS
<1>3. highest # NoIndex => \E y \in Known : highest = Mark(y) /\ highest.revision = y.revision /\ y.revision \in Nat
  BY DEF CatalogInv
<1>4. highest # NoIndex =>
        \/ highest.revision < x.revision
        \/ highest.revision = x.revision /\ highest.digest = x.digest
  BY <1>3, AcceptedFits
<1>5. CASE highest' = highest
  <2>1. highest # NoIndex => \E y \in Known : highest' = Mark(y)
    BY <1>3, <1>5
  <2>2. CatalogInv'
    BY <1>1, <1>4, <1>5, <2>1 DEF CatalogInv
  <2>3. cache # NoIndex => \E y \in Known : cache.index = y /\ y.revision \in Nat
    BY DEF CatalogInv
  <2>4. Advances
    BY <1>1, <1>2, <1>3, <1>4, <1>5, <2>3 DEF CatalogInv, Advances
  <2> QED BY <1>1, <2>2, <2>4
<1>6. CASE highest' # highest
  <2>1. highest' = Mark(x) /\ (highest = NoIndex \/ x.revision > highest.revision)
    BY <1>6 DEF Accept, Raised, Mark
  <2>2. highest'.revision = x.revision /\ highest'.digest = x.digest
    BY <2>1 DEF Mark
  <2>3. CatalogInv'
    BY <1>1, <1>2, <2>1, <2>2 DEF CatalogInv
  <2>4. cache # NoIndex => \E y \in Known : cache.index = y /\ y.revision \in Nat
    BY DEF CatalogInv
  <2>5. Advances
    BY <1>1, <1>2, <1>3, <1>4, <2>1, <2>2, <2>4 DEF CatalogInv, Advances
  <2> QED BY <1>1, <2>3, <2>5
<1> QED BY <1>5, <1>6

LEMMA SameKeeps ==
    ASSUME CatalogInv, UNCHANGED <<cache, highest>> PROVE CatalogInv' /\ Advances
<1>1. CatalogInv'
  BY DEF CatalogInv
<1>2. Advances
  BY DEF CatalogInv, Advances
<1> QED BY <1>1, <1>2

\* An answer of a refresh, online or not.
LEMMA RefreshKeeps ==
    ASSUME CatalogInv, NEW x \in Known, NEW offline \in BOOLEAN, Refreshed(x, offline)
    PROVE  CatalogInv' /\ Advances /\ (cache # NoIndex => cache' # NoIndex)
<1>1. CASE RefreshCode(x, Channel, highest) = "OK"
  <2>1. Accept(x, offline, 3)
    BY <1>1 DEF Refreshed
  <2> QED BY <1>1, <2>1, AcceptKeeps
<1>2. CASE RefreshCode(x, Channel, highest) # "OK"
  <2>1. UNCHANGED <<cache, highest>>
    BY <1>2 DEF Refreshed, Reject
  <2> QED BY <2>1, SameKeeps
<1> QED BY <1>1, <1>2

LEMMA CatalogSteps ==
    ASSUME CatalogInv, [CatalogNext]_catalogVars
    PROVE  CatalogInv' /\ Advances /\ (cache # NoIndex => cache' # NoIndex)
<1>1. \A x \in Indexes : x \in Known
  BY CatalogAssumption, Zenon DEF Known
<1>2. CASE Refresh
  BY <1>1, <1>2, RefreshKeeps DEF Refresh
<1>3. CASE OfflineRefresh
  <2>1. Offline \in Known
    BY <1>3 DEF OfflineRefresh, Known
  <2> QED BY <1>3, <2>1, RefreshKeeps DEF OfflineRefresh
<1>4. ASSUME NEW x \in Known, NEW offline \in BOOLEAN, Cut(x, offline)
      PROVE  CatalogInv' /\ Advances /\ (cache # NoIndex => cache' # NoIndex)
  <2>1. PICK k \in 1..2 : RefreshCode(x, Channel, highest) = "OK" /\ Accept(x, offline, k)
    BY <1>4 DEF Cut
  <2>2. k \in 1..3
    OBVIOUS
  <2> QED BY <2>1, <2>2, AcceptKeeps
<1>5. CASE CutRefresh
  BY <1>1, <1>4, <1>5 DEF CutRefresh
<1>6. CASE CutOffline
  <2>1. Offline \in Known
    BY <1>6 DEF CutOffline, Known
  <2> QED BY <1>4, <1>6, <2>1 DEF CutOffline
<1>7. CASE UNCHANGED <<cache, highest>>
  BY <1>7, SameKeeps
<1> QED
  BY <1>2, <1>3, <1>5, <1>6, <1>7 DEF CatalogNext, PinsChange, ClockAdvances, catalog, catalogVars

\* While there is a cache, a pin authorizes what is not revoked.
LEMMA PinAuthorizes ==
    ASSUME cache # NoIndex => cache' # NoIndex PROVE Authorizes
<1> SUFFICES ASSUME NEW r \in Pinnable,
                    AuthorizeInstall(r.slug, r.version, r.digest) = "OK",
                    Pinned(r.slug, r.version, r.digest)', ~Revoked(cache, r.digest)'
             PROVE  AuthorizeInstall(r.slug, r.version, r.digest)' = "OK"
  BY DEF Authorizes
<1>1. cache # NoIndex /\ ~(Strict /\ r.slug \notin Allowlist)
  BY DEF AuthorizeInstall
<1>2. cache' # NoIndex
  BY <1>1
<1> QED BY <1>1, <1>2 DEF AuthorizeInstall

\* catalog/index.ts and store-ports.ts, whatever indexes the sources answer
\* with, in any order, and whichever of its commits a refresh leaves out.
THEOREM NeverRollsBack == CatalogSpec => NoRollback
<1>1. CatalogInv /\ [CatalogNext]_catalogVars => CatalogInv'
  BY CatalogSteps
<1>2. CatalogInv /\ [CatalogNext]_catalogVars => [Advances]_catalogVars
  BY CatalogSteps
<1> QED BY <1>1, <1>2, CatalogBegun, PTL DEF CatalogSpec, NoRollback, Advances

\* catalog/index.ts: a pinned release stays authorized when its metadata
\* expires, is replaced, or is a snapshot.
THEOREM PinsHold == CatalogSpec => PinSurvives
<1>1. CatalogInv /\ [CatalogNext]_catalogVars => CatalogInv'
  BY CatalogSteps
<1>2. CatalogInv /\ [CatalogNext]_catalogVars => [Authorizes]_catalogVars
  BY CatalogSteps, PinAuthorizes
<1> QED BY <1>1, <1>2, CatalogBegun, PTL DEF CatalogSpec, PinSurvives, Authorizes

=============================================================================
