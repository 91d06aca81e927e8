------------------------------ MODULE MCSessions ----------------------------
(* Those who may talk to the daemon and what they are shown, in two small    *)
(* instances: the pairing of peers and their tokens (Peers), and the         *)
(* sessions, subscriptions and streams of the web view (EventStream).  They  *)
(* share no state, so a behaviour runs one of them, chosen at its start; the *)
(* other stays as it began.                                                  *)
EXTENDS Peers, EventStream

CONSTANTS k1, k2

VARIABLE client

Emit(t) == Scope("emit", t, {"self"}, {})

\* Two topics and a product: for anybody as an agent, for k1 as an operator.
Offered == {Emit({"t1", "t2"}), Scope("manage", {}, {}, {"p"})}
Invitations ==
    {[role |-> "agent", scopes |-> Offered, pinned |-> None],
     [role |-> "operator", scopes |-> Offered, pinned |-> k1]}

\* The operator approves it as it is, or one topic of it.
Approved == {{Emit({"t1"})}, Offered}

Ceiling == Offered

Capability(ts, ok) ==
    [emit |-> ts, consume |-> {}, request_approvals |-> FALSE, lineage |-> "none",
     supported |-> ok]

MCActs == <<[method |-> "events.publish", topics |-> {"t2"}, products |-> {}]>>

ClaimSets == <<Capability({"t2"}, TRUE)>>

\* Two contents for one slot of an enrolled producer, and calls that admit
\* refuses: the core topic, a wrong digest, a record over the cap, a Proof
\* record signed by another producer, one that is its own parent.
Base == [lane |-> "legacy", topic |-> "scan", slot |-> 1, raw |-> 1, size |-> 1, declared |-> Absent,
         producer |-> "p", body |-> [seq |-> 1, prev |-> 0, parents |-> {}], signer |-> "p"]
MCContents ==
    {Base, [Base EXCEPT !.raw = 2, !.declared = 2],
     [Base EXCEPT !.topic = "gateway.action"], [Base EXCEPT !.declared = 2],
     [Base EXCEPT !.size = 3], [Base EXCEPT !.lane = "proof", !.signer = "q"],
     [Base EXCEPT !.lane = "proof", !.body.parents = {1}]}
MCTopics == {"scan"}
MCCapOf == [legacy |-> 2, proof |-> 1]

SessionsInit == client \in {"peer", "view"} /\ Init /\ StreamInit

SessionsNext ==
    \/ client = "peer" /\ Next /\ UNCHANGED <<client, streamVars>>
    \/ client = "view" /\ StreamNext /\ UNCHANGED <<client, vars>>

\* The fairness of EventStream that CaughtUp needs, for the view.
SessionsSpec ==
    /\ SessionsInit /\ [][SessionsNext]_<<client, vars, streamVars>>
    /\ \A v \in Views :
          /\ WF_streamVars(client = "view" /\ StreamRead(v))
          /\ WF_streamVars(client = "view" /\ Receive(v))
=============================================================================
