------------------------------ MODULE LogTail ------------------------------
(***************************************************************************)
(* Following the event log while a run writes it: createJsonlWatcher of    *)
(* bus/src/watch.ts, followLog of cli/src/commands/events.ts and the tail  *)
(* of the child bus, core/src/child-bus.ts.                                *)
(*                                                                         *)
(* The log is counted in halves of lines: line k is its units 2k-1 and 2k, *)
(* and a writer may be seen between the two.  Rotation is the writer's     *)
(* (bus/src/jsonl.ts): the file is renamed and an empty one follows.  A    *)
(* reader is a set of reads, each of them a chain of awaits over the       *)
(* reader's own offset and buffer; a poll or a file event may begin one at *)
(* any time.  Each read is decoded on its own: of a line whose halves meet *)
(* inside a character of several bytes, and that two reads bring, that     *)
(* character becomes replacement characters, and the line an event that    *)
(* differs from the one written or a line that does not parse.             *)
(***************************************************************************)
EXTENDS Naturals, Sequences, FiniteSets, FiniteSetsExt

CONSTANTS
    Readers,
    Kind,         \* reader -> "watcher", "follower" or "child"
    Wide,         \* the lines whose halves meet inside a character
    MaxLines,     \* bound on the lines of a file
    MaxRotations, \* bound on the rotations
    MaxReads      \* bound on the reads of a reader under way at once

VARIABLES
    logs,      \* how many units each file of the log has got, oldest first
    offset,    \* reader -> how far it has read
    buffer,    \* reader -> the units after the last newline
    reads,     \* reader -> its reads under way, or idle
    queued,    \* reader -> whether another read was asked for meanwhile
    seen,      \* reader -> the lines it has cut out of what it read, in their order
    garbled,   \* reader -> those of them with a character in pieces: delivered
               \* with another text, or dropped
    split      \* history: reader -> the sizes at which it found half a line

tailVars == <<logs, offset, buffer, reads, queued, seen, garbled, split>>

\* size: what stat answered; file, total: what open found; data: what was read.
Idle == [at |-> "idle", size |-> 0, length |-> 0, file |-> 0, total |-> 0, data |-> <<>>]

\* What a read past the end of the file leaves in its buffer.
Hole == <<0, 0>>

TailInit ==
    /\ logs = <<0>>
    /\ offset = [r \in Readers |-> 0] /\ buffer = [r \in Readers |-> <<>>]
    /\ reads = [r \in Readers |-> [i \in 1..MaxReads |-> Idle]]
    /\ queued = [r \in Readers |-> FALSE] /\ seen = [r \in Readers |-> <<>>]
    /\ garbled = [r \in Readers |-> {}] /\ split = [r \in Readers |-> {}]

Size == logs[Len(logs)]

Write ==
    /\ Size < 2 * MaxLines
    /\ logs' = [logs EXCEPT ![Len(logs)] = @ + 1]
    /\ UNCHANGED <<offset, buffer, reads, queued, seen, garbled, split>>

\* Between two lines.
Rotate ==
    /\ Len(logs) <= MaxRotations /\ Size > 0 /\ Size % 2 = 0
    /\ logs' = Append(logs, 0)
    /\ UNCHANGED <<offset, buffer, reads, queued, seen, garbled, split>>

----------------------------------------------------------------------------
(* A read. *)

Slots == 1..MaxReads
At(r, i, step) == reads[r][i].at = step
Reading(r) == \E i \in Slots : ~At(r, i, "idle")
Put(r, i, x) == reads' = [reads EXCEPT ![r][i] = x]

\* A bug: a read does not wait for the one under way.
MayStartAlways(r) == TRUE
\* Only the watcher keeps its reads apart.
MayStart(r) == Kind[r] = "watcher" => ~Reading(r)

\* The poll, or an event of the file; the watcher notes one that comes during a
\* read.
Tick(r) ==
    /\ IF MayStart(r)
       THEN /\ \E i \in Slots :
                  /\ At(r, i, "idle") /\ \A j \in 1..(i - 1) : ~At(r, j, "idle")
                  /\ Put(r, i, [Idle EXCEPT !.at = "stat"])
            /\ queued' = [queued EXCEPT ![r] = FALSE]
       ELSE queued' = [queued EXCEPT ![r] = TRUE] /\ UNCHANGED reads
    /\ UNCHANGED <<logs, offset, buffer, seen, garbled, split>>

\* The end of a read: the watcher's loop goes round again if it was asked to.
Ends(r, i) ==
    /\ Put(r, i, IF queued[r] THEN [Idle EXCEPT !.at = "stat"] ELSE Idle)
    /\ queued' = [queued EXCEPT ![r] = FALSE]

Stat(r, i) ==
    /\ At(r, i, "stat")
    /\ Put(r, i, [Idle EXCEPT !.at = "sized", !.size = Size])
    /\ split' = [split EXCEPT ![r] = IF Size % 2 = 1 THEN @ \union {Size} ELSE @]
    /\ UNCHANGED <<logs, offset, buffer, queued, seen, garbled>>

\* A file that got shorter is read from its start.
From(r, i) == IF reads[r][i].size < offset[r] THEN 0 ELSE offset[r]

Sized(r, i) ==
    /\ At(r, i, "sized")
    /\ offset' = [offset EXCEPT ![r] = From(r, i)]
    /\ buffer' = [buffer EXCEPT ![r] = IF From(r, i) = offset[r] THEN @ ELSE <<>>]
    /\ IF reads[r][i].size = From(r, i) THEN Ends(r, i)
       ELSE /\ Put(r, i, [reads[r][i] EXCEPT !.at = "open", !.length = reads[r][i].size - From(r, i)])
            /\ UNCHANGED queued
    /\ UNCHANGED <<logs, seen, garbled, split>>

\* open; readFile of the child bus has the whole file as it is now.
Opened(r, i) ==
    /\ At(r, i, "open")
    /\ Put(r, i, [reads[r][i] EXCEPT !.at = IF Kind[r] = "child" THEN "read" ELSE "opened",
                                     !.file = Len(logs), !.total = Size])
    /\ UNCHANGED <<logs, offset, buffer, queued, seen, garbled, split>>

\* The units from the reader's offset on, as it is by now.
Units(r, f, n, length) ==
    [k \in 1..length |-> IF offset[r] + k <= n THEN <<f, offset[r] + k>> ELSE Hole]

ReadAt(r, i) ==
    LET x == reads[r][i] IN
    /\ At(r, i, "opened")
    /\ Put(r, i, [x EXCEPT !.at = "read", !.data = Units(r, x.file, logs[x.file], x.length)])
    /\ UNCHANGED <<logs, offset, buffer, queued, seen, garbled, split>>

\* open or read rejects, as where the file has just been renamed: the read is
\* over with nothing moved.  Nobody handles what readNew() rejects with, which
\* ends a process that has no handler of its own: then nothing follows.
Fails(r, i) ==
    /\ At(r, i, "open") \/ At(r, i, "opened")
    /\ Put(r, i, Idle)
    /\ UNCHANGED <<logs, offset, buffer, queued, seen, garbled, split>>

\* Where a line ends; one that parses is two halves of one line.
LineEnds(units) == {k \in DOMAIN units : units[k] # Hole /\ units[k][2] % 2 = 0}
WholeLines(units) ==
    {k \in LineEnds(units) : /\ k > 1 /\ units[k - 1] = <<units[k][1], units[k][2] - 1>>
                             /\ k - 2 \in LineEnds(units) \union {0}}

\* The elements of a set of numbers in their order.
Rank(i, S)   == Cardinality({j \in S : j <= i})
Ascending(S) == [n \in 1..Cardinality(S) |-> CHOOSE i \in S : Rank(i, S) = n]

Lines(units) ==
    LET ends == Ascending(WholeLines(units))
    IN  [n \in DOMAIN ends |-> <<units[ends[n]][1], units[ends[n]][2] \div 2>>]

\* buffer = parts.pop()
Rest(units) == SubSeq(units, Max(LineEnds(units) \union {0}) + 1, Len(units))

\* The line the first n units begin and the next read ends, if the two decodings
\* meet inside a character of it.
Pieces(units, n) ==
    {<<units[k][1], units[k][2] \div 2>> :
        k \in {j \in WholeLines(units) : j = n + 1 /\ units[j][2] \div 2 \in Wide}}

\* The read is over: the offset moves to what stat said, the lines go out.
Deliver(r, i) ==
    LET x     == reads[r][i]
        chunk == IF Kind[r] = "child"
                 THEN Units(r, x.file, x.total, IF x.total > offset[r] THEN x.total - offset[r] ELSE 0)
                 ELSE x.data
        units == buffer[r] \o chunk
    IN  /\ At(r, i, "read")
        /\ offset' = [offset EXCEPT ![r] = x.size]
        /\ buffer' = [buffer EXCEPT ![r] = Rest(units)]
        /\ seen' = [seen EXCEPT ![r] = @ \o Lines(units)]
        /\ garbled' = [garbled EXCEPT ![r] = @ \union Pieces(units, Len(buffer[r]))]
        /\ Ends(r, i)
        /\ UNCHANGED <<logs, split>>

Step(r) ==
    \E i \in Slots : Stat(r, i) \/ Sized(r, i) \/ Opened(r, i) \/ ReadAt(r, i) \/ Fails(r, i) \/ Deliver(r, i)

TailNext == Write \/ Rotate \/ \E r \in Readers : Tick(r) \/ Step(r)

TailSpec == TailInit /\ [][TailNext]_tailVars

----------------------------------------------------------------------------
(* Properties *)

\* watch.ts: as long as the log is one file, a watcher takes its lines, each of
\* them once and in their order, and one reaches its caller otherwise than it was
\* written only where a stat of that watcher found the file to end inside one of
\* its characters; later it never goes back to the old file.
TailExact ==
    \A r \in Readers :
        /\ Len(logs) = 1 =>
              /\ seen[r] = [i \in DOMAIN seen[r] |-> <<1, i>>]
              /\ \A line \in garbled[r] : line[2] \in Wide /\ 2 * line[2] - 1 \in split[r]
        /\ \A i, j \in DOMAIN seen[r] : i < j => seen[r][i][1] <= seen[r][j][1]
=============================================================================
