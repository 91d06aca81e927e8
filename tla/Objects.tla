------------------------------ MODULE Objects ------------------------------
(***************************************************************************)
(* The content-addressed objects of the store (store/objects.ts): a file   *)
(* per digest, created exclusively, written, synced, and verified after    *)
(* the write as well as when it was there before.                          *)
(***************************************************************************)
EXTENDS Integers, Sequences, FiniteSets

CONSTANT Digests

VARIABLES objs,     \* the file of a digest: "absent", "short", "cached" (all of
                    \* its bytes, which are not synced) or "whole"
          verified, \* digests this process has verified
          unsynced  \* history: digests whose file was "cached" at a power loss

objVars == <<objs, verified, unsynced>>

ObjectsInit == objs = [d \in Digests |-> "absent"] /\ verified = {} /\ unsynced = {}

SetObject(d, f) == objs' = [objs EXCEPT ![d] = f] /\ UNCHANGED <<verified, unsynced>>

\* put: the exclusive create, the bytes, and the sync of the file and of its
\* directory.  Each may fail, and put rejects.
CreateObject(d) == objs[d] = "absent" /\ SetObject(d, "short")
WriteObject(d, ok) == SetObject(d, IF ok THEN "cached" ELSE "short")
SyncObject(d, ok) == SetObject(d, IF ok THEN "whole" ELSE objs[d])

\* The file has the length and the digest, synced or not.
Intact(d) == objs[d] \in {"cached", "whole"}

\* Mutant: what was there before is taken for what was put.
VerifiesPresent(d) == objs[d] # "absent"
\* verifyFile: after the write, and when the file was there before.
Verifies(d) == Intact(d)

NoteVerified(d) == verified' = verified \union {d} /\ UNCHANGED <<objs, unsynced>>

\* get: a digest is checked once in a process.
Readable(d) == objs[d] # "absent" /\ (d \in verified \/ Intact(d))

\* What the death of the process leaves of a file, and what a power loss does.
Leaves(f, power) ==
    CASE f \in {"absent", "whole"} -> {f}
      [] f \in {"short", "cached"} /\ power -> {"absent", "short", "whole"}
      [] f = "short" /\ ~power -> {"short", "cached"}
      [] OTHER -> {f}

ObjectsLost(power) ==
    /\ objs' \in {o \in [Digests -> {"absent", "short", "cached", "whole"}] :
                      \A d \in Digests : o[d] \in Leaves(objs[d], power)}
    /\ verified' = {}
    /\ unsynced' = IF power THEN unsynced \union {d \in Digests : objs[d] = "cached"} ELSE unsynced
=============================================================================
