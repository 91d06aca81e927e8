------------------------------ MODULE EventBus ------------------------------
(***************************************************************************)
(* The bus of one run: LatticeBus (bus/src/bus.ts) and the JSONL file it   *)
(* appends to (bus/src/jsonl.ts).                                          *)
(*                                                                         *)
(* emit puts a job behind #tail, so one event at a time is numbered, put   *)
(* in the ring and appended; its caller's promise settles afterwards.  A   *)
(* module that EXTENDS this one says, with Settle and Refuse, what the     *)
(* promise's owner does then, and appends its own emits to queue.          *)
(*                                                                         *)
(* An emit is a record with the event's name, cause and data, and the      *)
(* fields its owner needs when the promise settles.  The event's id is     *)
(* stood for by its seq, which one run of the bus never gives twice; an id *)
(* its caller minted is stood for alike, and Own is a cause that is that   *)
(* very event.                                                             *)
(***************************************************************************)
EXTENDS Integers, Sequences, FiniteSets, SequencesExt, TLC

CONSTANTS
    RingCap,      \* options.ring_capacity
    LogCap,       \* options.max_log_bytes, in lines
    MaxBusFaults  \* bound on oversized events and failed appends

ASSUME EventBusAssumption == RingCap \in Nat /\ LogCap \in Nat /\ MaxBusFaults \in Nat

VARIABLES
    persistFail,  \* options.persist_fail: "throw" or "log"
    queue,        \* emits whose job waits behind #tail
    cur,          \* the jobs begun and not settled
    seq,          \* #seq
    ring,         \* the length of #ring, which nothing drains
    closed,       \* #closed
    file,         \* the lines of log_path
    old,          \* the lines of the .bak files, in order
    busFaults

busVars == <<persistFail, queue, cur, seq, ring, closed, file, old, busFaults>>

BusInit ==
    /\ persistFail \in {"throw", "log"}
    /\ queue = <<>> /\ cur = {} /\ seq = 0 /\ ring = 0 /\ closed = FALSE
    /\ file = <<>> /\ old = <<>> /\ busFaults = 0

Written == old \o file

Own == -1

\* fill: the event e with the number n.
Named(cause, n) == IF cause = Own THEN n ELSE cause
Line(e, n) == [seq |-> n, name |-> e.name, cause |-> Named(e.cause, n), data |-> e.data]

(***************************************************************************)
(* JsonlLog.appendLine: the line is appended, then a file that has become  *)
(* too large is renamed.  Of a failed append the line may be in the file:  *)
(* stat or rename can fail after it.                                       *)
(***************************************************************************)
AppendLine(line, ok) ==
    LET size == Len(file) + 1 IN
    \/ ok /\ size <= LogCap /\ file' = Append(file, line) /\ old' = old
    \/ ok /\ size > LogCap /\ file' = <<>> /\ old' = old \o Append(file, line)
    \/ ~ok /\ file' \in {file, Append(file, line)} /\ old' = old

Fault(ok) == (ok \/ busFaults < MaxBusFaults) /\ busFaults' = busFaults + (IF ok THEN 0 ELSE 1)

\* #tail: a job starts when the one before it has settled.
TailFree == cur = {}

\* #persist up to its first await: the closed check, the number, the ring.
BeginPersist ==
    /\ TailFree /\ queue # <<>> /\ ~closed
    /\ seq' = seq + 1
    /\ ring' = IF ring >= RingCap THEN ring ELSE ring + 1
    /\ cur' = cur \union {[emit |-> Head(queue), seq |-> seq + 1, step |-> "append",
                           todo |-> IF ring >= RingCap THEN <<"capacity">> ELSE <<>>]}
    /\ queue' = Tail(queue)
    /\ UNCHANGED <<persistFail, closed, file, old, busFaults>>

\* Mutant: an append that fails is only logged, whatever persist_fail says.
AfterAppendQuiet(ok, todo) == IF todo # <<>> THEN "diagnose" ELSE "done"
\* What follows an append: the diagnostics there are reasons for, or the end;
\* or the error, when persist_fail says throw.
AfterAppend(ok, todo) ==
    IF ~ok /\ persistFail = "throw" THEN "failed"
    ELSE IF todo # <<>> THEN "diagnose" ELSE "done"

\* #persist: the event's line.
AppendEvent(j) ==
    \E ok \in BOOLEAN :
        /\ j.step = "append" /\ Fault(ok)
        /\ AppendLine(Line(j.emit, j.seq), ok)
        /\ LET todo == IF ok /\ Len(file) + 1 > LogCap THEN Append(j.todo, "rotate") ELSE j.todo
           IN cur' = (cur \ {j}) \union {[j EXCEPT !.todo = todo, !.step = AfterAppend(ok, todo)]}
        /\ UNCHANGED <<persistFail, queue, seq, ring, closed>>

\* #writeDiagnostic: bus_overflow, which shifts the ring rather than wait.
WriteDiagnostic(j) ==
    \E ok \in BOOLEAN :
        /\ j.step = "diagnose" /\ Fault(ok)
        /\ seq' = seq + 1
        /\ ring' = IF ring >= RingCap THEN ring ELSE ring + 1
        /\ AppendLine([seq |-> seq + 1, name |-> "bus_overflow", cause |-> j.seq,
                       data |-> Head(j.todo)], ok)
        /\ cur' = (cur \ {j}) \union
                  {[j EXCEPT !.todo = Tail(j.todo), !.step = AfterAppend(ok, Tail(j.todo))]}
        /\ UNCHANGED <<persistFail, queue, closed>>

\* The promise of emit settles, and its owner's next emits go behind #tail.
Settle(j, emits) ==
    /\ j \in cur /\ j.step \in {"done", "failed"}
    /\ cur' = cur \ {j}
    /\ queue' = queue \o emits
    /\ UNCHANGED <<persistFail, seq, ring, closed, file, old, busFaults>>

\* A job that throws before it appends: the bus is closed, or the event is
\* larger than MAX_ENVELOPE_BYTES and its number is given back.
Refuse(emits) ==
    /\ TailFree /\ queue # <<>>
    /\ closed \/ busFaults < MaxBusFaults
    /\ busFaults' = IF closed THEN busFaults ELSE busFaults + 1
    /\ queue' = Tail(queue) \o emits
    /\ UNCHANGED <<persistFail, cur, seq, ring, closed, file, old>>

Emit(emits) ==
    /\ queue' = queue \o emits
    /\ UNCHANGED <<persistFail, cur, seq, ring, closed, file, old, busFaults>>

\* #doClose: the jobs still behind #tail find the bus closed.
CloseBus == /\ closed' = TRUE
            /\ UNCHANGED <<persistFail, queue, cur, seq, ring, file, old, busFaults>>

Drained == closed /\ queue = <<>> /\ cur = {}

BusStep == BeginPersist \/ \E j \in cur : AppendEvent(j) \/ WriteDiagnostic(j)
=============================================================================
