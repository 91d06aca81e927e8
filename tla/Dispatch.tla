------------------------------ MODULE Dispatch ------------------------------
(***************************************************************************)
(* The RPC pipeline of the gateway daemon (rpc/dispatch.ts), with the      *)
(* receipt and idempotency commit behind it (adapters/receipt-writer.ts),  *)
(* the lookup in the registry (runtime.ts) and the daemon's drain and stop *)
(* (daemon.ts).                                                            *)
(*                                                                         *)
(* dispatchRequest runs without an await from the body to the service, so  *)
(* admission is one step; the service call and the receipt commit are      *)
(* awaited.  A client may lose an answer and send the request again; the   *)
(* process may crash, and the next one replays the journal.  A request is  *)
(* named by its (workspace, principal, id), its key; its body stands for   *)
(* the binding hash.  The result of an execution is its number.            *)
(***************************************************************************)
EXTENDS Integers, Sequences, FiniteSets

CONSTANTS
    Calls,      \* places for RPCs in flight
    Requests,   \* what clients send: [key, body, kind]
    Overlap,    \* a client may send a key again while it is in flight
    MaxSends,   \* bound on the requests sent
    MaxBoots    \* bound on the processes started

Kinds == {"mutation", "bind", "stop", "read", "hello"}

ASSUME DispatchAssumption ==
    /\ \A q \in Requests : q.kind \in Kinds
    /\ Overlap \in BOOLEAN
    /\ MaxSends \in Nat
    /\ MaxBoots \in Nat \ {0}

VARIABLES
    state,      \* DaemonState, or "DOWN" when there is no process
    stopping,   \* stop() is under way
    timer,      \* the 25 ms timer that daemon.stop armed
    listening,  \* the listeners are open
    storeOpen,  \* the store is not closed
    call,       \* call[c]: the RPC in place c
    rows,       \* rows[k]: the operations row of key k in the registry
    log,        \* the receipts and bindings in the journal
    executed,   \* mutations the services carried out
    told,       \* successful answers that reached a client
    sends,      \* requests sent so far
    boots       \* processes started so far

daemon == <<state, stopping, timer, listening, storeOpen, boots>>
vars   == <<daemon, call, rows, log, executed, told, sends>>

Keys   == {q.key : q \in Requests}

\* RPC_METHODS and NO_RECEIPT_METHODS: what the pipeline does for a method.
Mutating(q)   == q.kind \in {"mutation", "bind", "stop"}
HasReceipt(q) == q.kind \in {"mutation", "stop", "read"}

\* What binds an id to a call: the method with the parameters that are bound.
BindingHash(q) == q.body

NoRow == [body |-> "none", result |-> 0]

Free == [at |-> "idle"]

InFlight == {c \in Calls : call[c].at # "idle"}

\* The journal lines that bind key k.
Bindings(k) == {i \in 1..Len(log) : /\ log[i].outcome = "OK"
                                    /\ Mutating(log[i].req)
                                    /\ log[i].req.key = k}

\* INSERT OR REPLACE INTO operations: a later line replaces the row.
RowOf(e) == [body |-> BindingHash(e.req), result |-> e.result]

\* The table a replay of the journal yields.
Replayed ==
    [k \in Keys |-> IF Bindings(k) = {} THEN NoRow
                    ELSE RowOf(log[CHOOSE i \in Bindings(k) :
                                       \A j \in Bindings(k) : j <= i])]

Init ==
    /\ state = "READY"
    /\ stopping = FALSE
    /\ timer = FALSE
    /\ listening = TRUE
    /\ storeOpen = TRUE
    /\ call = [c \in Calls |-> Free]
    /\ rows = [k \in Keys |-> NoRow]
    /\ log = <<>>
    /\ executed = <<>>
    /\ told = {}
    /\ sends = 0
    /\ boots = 1

-----------------------------------------------------------------------------
(* Admission. *)

\* A request reaches the pipeline in place c.
Arrives(c, q) ==
    /\ listening
    /\ call[c].at = "idle"
    /\ Overlap \/ \A d \in InFlight : call[d].req.key # q.key
    /\ sends < MaxSends
    /\ sends' = sends + 1

Draining == state = "DRAINING" \/ stopping

\* The answer r of request q leaves; it may be lost, and is when the
\* connections are closed.
Answers(q, r) ==
    told' \in IF listening THEN {told, told \cup {[req |-> q, result |-> r]}}
              ELSE {told}

\* The body, the envelope, the credentials, the role or the scope fails.
Refuse(c, q) ==
    /\ Arrives(c, q)
    /\ UNCHANGED <<daemon, call, rows, log, executed, told>>

\* STATE_TRANSITION: no new mutation while the daemon drains.
RefuseDraining(c, q) ==
    /\ Arrives(c, q)
    /\ Mutating(q) /\ Draining
    /\ UNCHANGED <<daemon, call, rows, log, executed, told>>

\* Mutant: a bound key is answered whatever the body.
ReplayAny(c, q) ==
    /\ Arrives(c, q)
    /\ Mutating(q) /\ ~Draining
    /\ rows[q.key] # NoRow
    /\ Answers(q, rows[q.key].result)
    /\ UNCHANGED <<daemon, call, rows, log, executed>>

\* The saved response of a bound key, for the same body.
Replay(c, q) ==
    /\ Arrives(c, q)
    /\ Mutating(q) /\ ~Draining
    /\ rows[q.key] # NoRow
    /\ rows[q.key].body = BindingHash(q)
    /\ Answers(q, rows[q.key].result)
    /\ UNCHANGED <<daemon, call, rows, log, executed>>

\* IDEMPOTENCY_CONFLICT.
Conflict(c, q) ==
    /\ Arrives(c, q)
    /\ Mutating(q) /\ ~Draining
    /\ rows[q.key] # NoRow
    /\ rows[q.key].body # BindingHash(q)
    /\ UNCHANGED <<daemon, call, rows, log, executed, told>>

\* Mutant: the binding is not looked up.
AdmitUnbound(c, q) ==
    /\ Arrives(c, q)
    /\ Mutating(q) => ~Draining
    /\ call' = [call EXCEPT ![c] = [at |-> "service", req |-> q, result |-> 0]]
    /\ UNCHANGED <<daemon, rows, log, executed, told>>

\* The service is called.
Admit(c, q) ==
    /\ Arrives(c, q)
    /\ Mutating(q) => ~Draining /\ rows[q.key] = NoRow
    /\ call' = [call EXCEPT ![c] = [at |-> "service", req |-> q, result |-> 0]]
    /\ UNCHANGED <<daemon, rows, log, executed, told>>

-----------------------------------------------------------------------------
(* Execution, receipt and answer. *)

Done(c) == call' = [call EXCEPT ![c] = Free]

\* What the service call changes: its effect is durable by a commit of its
\* own, and daemon.stop closes the admission gate and arms the timer.
Effect(q) ==
    /\ executed' = IF Mutating(q) THEN Append(executed, [req |-> q, boot |-> boots])
                   ELSE executed
    /\ IF q.kind = "stop"
       THEN /\ state' = IF state = "STOPPED" THEN state ELSE "DRAINING"
            /\ timer' = TRUE
       ELSE UNCHANGED <<state, timer>>
    /\ UNCHANGED <<stopping, listening, storeOpen, boots>>

\* Services other than daemon.* need the store.
Served(q) == storeOpen \/ q.kind \in {"stop", "hello"}

\* The service returns and the receipt commit is called; a closed store
\* rejects it at once (STORAGE_UNAVAILABLE).
ServiceReturns(c) ==
    LET q == call[c].req IN
    /\ call[c].at = "service"
    /\ q.kind # "hello"
    /\ Served(q)
    /\ Effect(q)
    /\ IF storeOpen
       THEN call' = [call EXCEPT ![c].at = "commit",
                                 ![c].result = IF Mutating(q) THEN Len(executed') ELSE 0]
       ELSE Done(c)
    /\ UNCHANGED <<rows, log, told, sends>>

\* A method without receipt and binding is answered as it is.
Hello(c) ==
    /\ call[c].at = "service"
    /\ call[c].req.kind = "hello"
    /\ Answers(call[c].req, 0)
    /\ Done(c)
    /\ UNCHANGED <<daemon, rows, log, executed, sends>>

\* The service throws; the rejection of a method with receipts is audited.
ServiceThrows(c) ==
    /\ call[c].at = "service"
    /\ IF HasReceipt(call[c].req) /\ storeOpen
       THEN call' = [call EXCEPT ![c].at = "audit"]
       ELSE Done(c)
    /\ UNCHANGED <<daemon, rows, log, executed, told, sends>>

\* The receipt of a failure is committed, or that fails too.
Audited(c) ==
    /\ call[c].at = "audit"
    /\ log' \in {log, Append(log, [req |-> call[c].req, outcome |-> "FAILED",
                                   result |-> 0])}
    /\ Done(c)
    /\ UNCHANGED <<daemon, rows, executed, told, sends>>

\* One commit makes the receipt and the binding durable.
CommitLands(c) ==
    /\ call[c].at = "commit"
    /\ log' = Append(log, [req |-> call[c].req, outcome |-> "OK",
                           result |-> call[c].result])
    /\ call' = [call EXCEPT ![c].at = "ack"]
    /\ UNCHANGED <<daemon, rows, executed, told, sends>>

\* STORAGE_UNAVAILABLE before disclosure; the effect stays.
CommitFails(c) ==
    /\ call[c].at = "commit"
    /\ Done(c)
    /\ UNCHANGED <<daemon, rows, log, executed, told, sends>>

\* The registry follows and the answer leaves; a registry that teardown has
\* closed throws, and the answer is STORAGE_UNAVAILABLE.
Ack(c) ==
    LET q == call[c].req IN
    /\ call[c].at = "ack"
    /\ IF storeOpen
       THEN /\ rows' = IF Mutating(q)
                       THEN [rows EXCEPT ![q.key] = [body |-> q.body,
                                                     result |-> call[c].result]]
                       ELSE rows
            /\ Answers(q, call[c].result)
       ELSE UNCHANGED <<rows, told>>
    /\ Done(c)
    /\ UNCHANGED <<daemon, log, executed, sends>>

-----------------------------------------------------------------------------
(* Stop, crash and boot. *)

\* GatewayDaemon.stop: idempotent.
Stop ==
    /\ state \in {"READY", "DRAINING"}
    /\ ~stopping
    /\ stopping' = TRUE
    /\ state' = "DRAINING"

StopTimer ==
    /\ timer
    /\ timer' = FALSE
    /\ Stop
    /\ UNCHANGED <<listening, storeOpen, boots, call, rows, log, executed, told, sends>>

\* SIGTERM or SIGINT.
Signal ==
    /\ Stop
    /\ UNCHANGED <<timer, listening, storeOpen, boots, call, rows, log, executed, told,
                   sends>>

\* Mutant: only an empty daemon leaves the drain.
DrainEndsEmpty ==
    /\ stopping /\ listening
    /\ InFlight = {}
    /\ listening' = FALSE
    /\ UNCHANGED <<state, stopping, timer, storeOpen, boots, call, rows, log, executed,
                   told, sends>>

\* Nothing is in flight, or min(grace, 10 s) is over: teardown closes the
\* listeners and every connection.
DrainEnds ==
    /\ stopping /\ listening
    /\ listening' = FALSE
    /\ UNCHANGED <<state, stopping, timer, storeOpen, boots, call, rows, log, executed,
                   told, sends>>

CloseStore ==
    /\ stopping /\ ~listening /\ storeOpen
    /\ storeOpen' = FALSE
    /\ UNCHANGED <<state, stopping, timer, listening, boots, call, rows, log, executed,
                   told, sends>>

Stopped ==
    /\ stopping /\ ~storeOpen /\ state # "STOPPED"
    /\ state' = "STOPPED"
    /\ UNCHANGED <<stopping, timer, listening, storeOpen, boots, call, rows, log,
                   executed, told, sends>>

\* The process ends, by a crash or after STOPPED; RPCs in flight are gone.
ProcessEnds ==
    /\ state # "DOWN"
    /\ state' = "DOWN"
    /\ stopping' = FALSE /\ timer' = FALSE /\ listening' = FALSE /\ storeOpen' = FALSE
    /\ call' = [c \in Calls |-> Free]
    /\ UNCHANGED <<boots, rows, log, executed, told, sends>>

\* A new process: recovery has brought the registry up to the journal.
Boot ==
    /\ state = "DOWN" /\ boots < MaxBoots
    /\ boots' = boots + 1
    /\ state' = "READY"
    /\ listening' = TRUE /\ storeOpen' = TRUE
    /\ rows' = Replayed
    /\ UNCHANGED <<stopping, timer, call, log, executed, told, sends>>

Receive(c, q) == \/ Refuse(c, q)
                 \/ RefuseDraining(c, q)
                 \/ Replay(c, q)
                 \/ Conflict(c, q)
                 \/ Admit(c, q)

Continue(c) == \/ ServiceReturns(c)
               \/ Hello(c)
               \/ ServiceThrows(c)
               \/ Audited(c)
               \/ CommitLands(c)
               \/ CommitFails(c)
               \/ Ack(c)

Teardown == DrainEnds \/ CloseStore \/ Stopped

Next == \/ \E c \in Calls : \/ \E q \in Requests : Receive(c, q)
                            \/ Continue(c)
        \/ StopTimer \/ Signal
        \/ Teardown
        \/ ProcessEnds
        \/ Boot

Spec == Init /\ [][Next]_vars

\* The timer fires, the deadline of the drain passes and the awaits of
\* teardown are bounded.  Nothing makes a service return.
FairSpec == Spec /\ WF_vars(StopTimer) /\ WF_vars(Teardown)

-----------------------------------------------------------------------------
(* Properties. *)

CallTypeOK ==
    \A c \in Calls : \/ call[c] = Free
                     \/ /\ call[c].at \in {"service", "commit", "ack", "audit"}
                        /\ call[c].req \in Requests
                        /\ call[c].result \in 0..Len(executed)

\* Every variable has its type.
TypeOK ==
    /\ state \in {"READY", "DRAINING", "STOPPED", "DOWN"}
    /\ {stopping, timer, listening, storeOpen} \subseteq BOOLEAN
    /\ CallTypeOK
    /\ \A k \in Keys : rows[k].result \in 0..Len(executed)
    /\ \A i \in 1..Len(log) : log[i].req \in Requests
    /\ \A i \in 1..Len(executed) : executed[i].req \in Requests
    /\ \A t \in told : t.req \in Requests /\ t.result \in 0..Len(executed)
    /\ sends \in 0..MaxSends
    /\ boots \in 1..MaxBoots

\* An answer sticks: once a client was told that its mutation succeeded, the
\* journal binds the key to that body and that result for ever, so that every
\* later answer under the key is the same one, across retries, crashes and
\* restarts (the binding stage of run() and the commit of the receipt).
AnswersStick ==
    \A t \in told : Mutating(t.req) =>
        Replayed[t.req.key] = [body |-> t.req.body, result |-> t.result]

\* A key is bound once: of several executions of a mutation whose answers
\* were lost, at most one leaves a binding, whatever was retried after a
\* failed receipt, a crash or a teardown in the middle of a commit.
BoundOnce == \A k \in Keys : \A i, j \in Bindings(k) : i = j

\* Nothing is disclosed before its receipt is durable, and what is disclosed
\* is the result of an execution of that very request.
AuditedBeforeDisclosure ==
    \A t \in told :
        /\ HasReceipt(t.req) => \E i \in 1..Len(log) : /\ log[i].outcome = "OK"
                                                       /\ log[i].req = t.req
                                                       /\ log[i].result = t.result
        /\ Mutating(t.req) => executed[t.result].req = t.req

\* A process that serves sees a saved result exactly when its receipt is
\* durable, apart from the commits that are being acknowledged.
ReplayIffDurable ==
    storeOpen /\ (\A c \in Calls : call[c].at # "ack") => rows = Replayed

\* When a client holds the {state: "DRAINING"} of a daemon.stop carried out
\* by this process, the gate is closed.
StopInForce ==
    \A t \in told : t.req.kind = "stop" /\ executed[t.result].boot = boots
                       => state # "READY"

\* A stop ends, however long the services in flight take.
StopEnds == Draining ~> state \in {"STOPPED", "DOWN"}

=============================================================================
