--------------------------- MODULE PlatformStore ----------------------------
(* What every platform service stands on: the journal, the tables applied    *)
(* from it, the commits in flight and the clock.  A synchronous port commits *)
(* in the step that asked; a service that awaits its commit has read what it *)
(* decided on in an earlier step than the one its marker lands in.           *)
(* GatewayStore is the inside of a commit; here it is one step.              *)
EXTENDS Registry

CONSTANTS
    MaxCommits,    \* markers of a behaviour, for each family of services
    MaxFlight,     \* commits awaited at a time
    MaxNow,        \* clock bound
    MaxRestarts    \* restarts of a behaviour

VARIABLES
    family,     \* the services this behaviour calls: families share no table
    journal,    \* the durable markers, [mutation, records]
    db,         \* the registry, see Registry
    calls,      \* commits awaited: [mutation, records, call]
    now,        \* the clock the ports read
    epoch       \* the boot, which bootstraps and sessions are bound to

store == <<family, journal, db, calls, now, epoch>>

(* The records of a marker take the next places of the proof lane.           *)
Committed == FlattenSeq([tx \in DOMAIN journal |-> journal[tx].records])
At(records, before) ==
    [i \in 1..Len(records) |-> [cursor |-> before + i, order |-> before + i, lane |-> "proof", data |-> records[i]]]

Marker(mutation, records) == [mutation |-> mutation, records |-> At(records, Len(Committed))]

GetRecord(cursor) == IF cursor \in DOMAIN Committed THEN Committed[cursor].data ELSE NoValue

Families == {"config", "jobs", "approval", "cloud", "ui", "products", "audit"}
Room(n) == Len(journal) + n <= MaxCommits[family]

(* Journal.appendSync: each extends the head of the chain the open verified.  *)
AppendSync(markers) == journal' = journal \o markers

(* One mutation-only commit, as docPut, kvPut and commitSync make it.        *)
CommitSync(mutation) ==
    /\ Room(1)
    /\ AppendSync(<<Marker(mutation, <<>>)>>)
    /\ db' = ApplyCommit(db, Marker(mutation, <<>>), Len(journal) + 1)
    /\ UNCHANGED <<family, calls, now, epoch>>

(* Two in a row, by a handler that does not await between them; a crash may  *)
(* come after the first.                                                     *)
Both(first, second) ==
    LET one == ApplyCommit(db, Marker(first, <<>>), Len(journal) + 1) IN
    /\ Room(2)
    /\ AppendSync(<<Marker(first, <<>>), Marker(second, <<>>)>>)
    /\ db' = ApplyCommit(one, Marker(second, <<>>), Len(journal) + 2)
    /\ UNCHANGED <<family, calls, now, epoch>>

Await(call, mutation, records) ==
    /\ Cardinality(calls) < MaxFlight
    /\ calls' = calls \union {[call |-> call, mutation |-> mutation, records |-> records]}
    /\ UNCHANGED <<family, journal, db, now, epoch>>

Lands(c) ==
    LET marker == Marker(c.mutation, c.records) IN
    /\ c \in calls /\ Room(1)
    /\ journal' = Append(journal, marker)
    /\ db' = ApplyCommit(db, marker, Len(journal) + 1)
    /\ calls' = calls \ {c}
    /\ UNCHANGED <<family, now, epoch>>

(* A stop: the markers already in the journal stay, the commits in flight    *)
(* either landed before it or never do.  The next open replays the journal   *)
(* beyond the last indexed marker, or rebuilds the tables when sqlite was    *)
(* lost or holds no marker the journal has.                                  *)
NeedFullRebuild(found, markers) ==
    markers # <<>> /\ (found.last = 0 \/ found.last > Len(markers))

Recovered(found, markers) ==
    IF NeedFullRebuild(found, markers) THEN Rebuild(found, markers)
    ELSE Replay(found, markers, found.last)

Restart(markers, lost) ==
    /\ epoch <= MaxRestarts
    /\ journal' = markers
    /\ db' = Recovered(IF lost THEN EmptyDb ELSE db, markers)
    /\ calls' = {} /\ epoch' = epoch + 1
    /\ UNCHANGED <<family, now>>

Tick == now < MaxNow /\ now' = now + 1 /\ UNCHANGED <<family, journal, db, calls, epoch>>
=============================================================================
