----------------------------- MODULE ConfigFile -----------------------------
(***************************************************************************)
(* latticeag.json and its migration from schema 1 to schema 2:             *)
(* readConfigFile of config/src/load.ts, migrateConfigFile of              *)
(* config/src/migrate-file.ts, and the command that plans, reviews and     *)
(* runs it, runMigrate of cli/src/commands/gateway/config-cmd.ts.          *)
(*                                                                         *)
(* A directory maps names to files.  Data reaches the disk with the fsync  *)
(* of the file and names with the fsync of the directory; until then a     *)
(* loss of power leaves the names of some earlier moment (directory        *)
(* operations reach the disk in their order) and may tear a file that was  *)
(* not synced.  A digest is what it is computed from.  The operator's      *)
(* editor is external: it renames a whole, synced document of schema 1     *)
(* over the file.                                                          *)
(***************************************************************************)
EXTENDS Naturals, Sequences

CONSTANTS
    Migrators,   \* invocations of config migrate
    V1Docs,      \* documents of schema 1, told apart by their bytes
    Nothing,
    MaxFiles,    \* bound on the files created
    MaxEdits,    \* bound on the operator's edits
    MaxFaults    \* bound on crashes, losses of power and failed writes

VARIABLES
    dir,        \* name -> its file, or 0
    past,       \* the directories since the last one that is on disk
    file,       \* the files, in the order of their creation
    pc, plan,   \* what each invocation does, and what it holds
    displayed,  \* the plans whose review digest has been shown
    migrated,   \* what the last invocation to succeed left, until the file is
                \* replaced again
    edits, faults

disk == <<dir, past, file>>
configVars == <<disk, pc, plan, displayed, migrated, edits, faults>>

V1(c) == [version |-> 1, doc |-> c, ids |-> Nothing]
Torn  == [version |-> 0, doc |-> Nothing, ids |-> Nothing]

\* migrateConfig: the document in schema 2, with the ids of migrationIds, which
\* are derived from a digest.
MigrateConfig(c, sha) == [version |-> 2, doc |-> c, ids |-> sha]

Live      == <<"latticeag.json">>
Output    == <<"output">>
Backup(c) == <<"bak", c>>
Temp(m)   == <<"tmp", m>>
Names     == {Live, Output} \union {Backup(c) : c \in V1Docs} \union {Temp(m) : m \in Migrators}

Data(n)   == file[dir[n]].data
Exists(n) == dir[n] # 0

\* doc, sha: what the plan read, and the digest it read after; bytes: what
\* migrateConfigFile read.
NoPlan == [doc |-> Nothing, sha |-> Nothing, output |-> FALSE, given |-> Nothing, bytes |-> Nothing]

ConfigInit ==
    /\ \E c \in V1Docs : file = <<[data |-> V1(c), synced |-> TRUE]>>
    /\ dir = [n \in Names |-> IF n = Live THEN 1 ELSE 0]
    /\ past = <<>>
    /\ pc = [m \in Migrators |-> "idle"] /\ plan = [m \in Migrators |-> NoPlan]
    /\ displayed = {} /\ migrated = Nothing
    /\ edits = 0 /\ faults = 0

\* A bug: the backup is made once the new file is in place.
AfterLate == [read |-> "temp", write |-> "rename", rename |-> "backup", fill |-> "sync"]
\* The order of the steps of migrateConfigFile.
After == [read |-> "backup", fill |-> "temp", write |-> "rename", rename |-> "sync"]

Go(m, from, to) == pc[m] = from /\ pc' = [pc EXCEPT ![m] = to]

\* What the review digest of an invocation's plan commits to.
Plan(m) ==
    [old |-> plan[m].sha, new |-> MigrateConfig(plan[m].doc, plan[m].sha), output |-> plan[m].output]

----------------------------------------------------------------------------
(* runMigrate *)

\* readConfigFile: only a whole document of schema 1 can be migrated.
ReadPlan(m) ==
    /\ pc[m] = "idle"
    /\ IF Data(Live).version = 1
       THEN /\ pc' = [pc EXCEPT ![m] = "hash"]
            /\ \E o \in BOOLEAN, g \in displayed \union {Nothing} :
                  plan' = [plan EXCEPT ![m] = [NoPlan EXCEPT !.doc = Data(Live).doc,
                                                              !.output = o, !.given = g]]
       ELSE pc' = [pc EXCEPT ![m] = "failed"] /\ UNCHANGED plan
    /\ UNCHANGED <<disk, displayed, migrated, edits, faults>>

\* The file is read again for its digest; the plan is displayed.
HashPlan(m) ==
    /\ Go(m, "hash", "review")
    /\ plan' = [plan EXCEPT ![m].sha = Data(Live)]
    /\ displayed' = displayed \union {Plan(m)'}
    /\ UNCHANGED <<disk, migrated, edits, faults>>

\* requireReviewedPlan: the digest that was given is that of this plan, or the
\* operator is asked.
Review(m) ==
    /\ pc[m] = "review"
    /\ plan[m].given \in {Nothing, Plan(m)}
    /\ pc' = [pc EXCEPT ![m] = IF plan[m].output THEN "output" ELSE "read"]
    /\ UNCHANGED <<disk, plan, displayed, migrated, edits, faults>>

\* A dry run, a digest of another plan, or an operator who says no.
EndsAtReview(m) ==
    /\ Go(m, "review", "failed")
    /\ UNCHANGED <<disk, plan, displayed, migrated, edits, faults>>

----------------------------------------------------------------------------
(* The directory. *)

\* Written and closed, not synced.
WrittenCached(c) == [data |-> c, synced |-> FALSE]
\* writeExclusive, once it has written, synced and closed.
Written(c) == [data |-> c, synced |-> TRUE]

\* open with O_EXCL.
Create(n) ==
    /\ ~Exists(n) /\ Len(file) < MaxFiles
    /\ file' = Append(file, [data |-> Torn, synced |-> FALSE])
    /\ dir' = [dir EXCEPT ![n] = Len(file) + 1]
    /\ past' = Append(past, dir)

\* --output: the plan's document in a new file, which nothing syncs.
CreateOutput(m) ==
    /\ pc[m] = "output"
    /\ IF Exists(Output) THEN pc' = [pc EXCEPT ![m] = "failed"] /\ UNCHANGED disk
       ELSE pc' = [pc EXCEPT ![m] = "print"] /\ Create(Output)
    /\ UNCHANGED <<plan, displayed, migrated, edits, faults>>

WriteOutput(m) ==
    /\ Go(m, "print", "done")
    /\ file' = [file EXCEPT ![dir[Output]] = WrittenCached(Plan(m).new)]
    /\ UNCHANGED <<dir, past, plan, displayed, migrated, edits, faults>>

----------------------------------------------------------------------------
(* migrateConfigFile *)

\* The file is read once more, and must still be of schema 1.
Read(m) ==
    /\ pc[m] = "read"
    /\ IF Data(Live).version = 1
       THEN /\ pc' = [pc EXCEPT ![m] = After.read]
            /\ plan' = [plan EXCEPT ![m].bytes = Data(Live).doc]
       ELSE pc' = [pc EXCEPT ![m] = "failed"] /\ UNCHANGED plan
    /\ UNCHANGED <<disk, displayed, migrated, edits, faults>>

\* A backup is never overwritten.
CreateBackup(m) ==
    LET bak == Backup(plan[m].bytes) IN
    /\ pc[m] = "backup"
    /\ IF Exists(bak) THEN pc' = [pc EXCEPT ![m] = "failed"] /\ UNCHANGED disk
       ELSE pc' = [pc EXCEPT ![m] = "fill"] /\ Create(bak)
    /\ UNCHANGED <<plan, displayed, migrated, edits, faults>>

FillBackup(m) ==
    /\ Go(m, "fill", After.fill)
    /\ file' = [file EXCEPT ![dir[Backup(plan[m].bytes)]] = Written(V1(plan[m].bytes))]
    /\ UNCHANGED <<dir, past, plan, displayed, migrated, edits, faults>>

CreateTemp(m) ==
    /\ Go(m, "temp", "write") /\ Create(Temp(m))
    /\ UNCHANGED <<plan, displayed, migrated, edits, faults>>

Result(m) == MigrateConfig(plan[m].bytes, plan[m].sha)

\* Written, synced, read back and validated.
WriteTemp(m) ==
    /\ Go(m, "write", After.write)
    /\ file' = [file EXCEPT ![dir[Temp(m)]] = Written(Result(m))]
    /\ UNCHANGED <<dir, past, plan, displayed, migrated, edits, faults>>

Rename(m) ==
    /\ Go(m, "rename", After.rename)
    /\ dir' = [dir EXCEPT ![Live] = dir[Temp(m)], ![Temp(m)] = 0]
    /\ past' = Append(past, dir)
    /\ migrated' = IF After.rename = "done" THEN Result(m) ELSE Nothing
    /\ UNCHANGED <<file, plan, displayed, edits, faults>>

\* fsyncDir, and the answer.
SyncDir(m) ==
    /\ Go(m, "sync", "done")
    /\ past' = <<>>
    /\ migrated' = IF Data(Live) = Result(m) THEN Result(m) ELSE migrated
    /\ UNCHANGED <<dir, file, plan, displayed, edits, faults>>

----------------------------------------------------------------------------
(* The environment. *)

Edit(c) ==
    /\ edits < MaxEdits /\ edits' = edits + 1
    /\ Len(file) < MaxFiles
    /\ file' = Append(file, [data |-> V1(c), synced |-> TRUE])
    /\ dir' = [dir EXCEPT ![Live] = Len(file) + 1]
    /\ past' = Append(past, dir)
    /\ migrated' = Nothing
    /\ UNCHANGED <<pc, plan, displayed, faults>>

Ended == {"idle", "failed", "done", "crashed"}

MigratorCrash(m) ==
    /\ faults < MaxFaults /\ faults' = faults + 1
    /\ pc[m] \notin Ended
    /\ pc' = [pc EXCEPT ![m] = "crashed"]
    /\ UNCHANGED <<disk, plan, displayed, migrated, edits>>

\* A write or a sync fails.  A backup or an output that was begun stays, a
\* temporary file is removed.
WriteFails(m) ==
    /\ faults < MaxFaults /\ faults' = faults + 1
    /\ pc[m] \in {"fill", "print", "write", "rename", "sync"}
    /\ pc' = [pc EXCEPT ![m] = "failed"]
    /\ IF Exists(Temp(m))
       THEN dir' = [dir EXCEPT ![Temp(m)] = 0] /\ past' = Append(past, dir)
       ELSE UNCHANGED <<dir, past>>
    /\ UNCHANGED <<file, plan, displayed, migrated, edits>>

PowerLoss ==
    /\ faults < MaxFaults /\ faults' = faults + 1
    /\ \E d \in {dir} \union {past[i] : i \in DOMAIN past} : dir' = d
    /\ past' = <<>>
    /\ \E lost \in SUBSET {i \in DOMAIN file : ~file[i].synced} :
          file' = [i \in DOMAIN file |->
                     [data |-> IF i \in lost THEN Torn ELSE file[i].data, synced |-> TRUE]]
    /\ pc' = [m \in Migrators |-> IF pc[m] \in Ended THEN pc[m] ELSE "crashed"]
    /\ UNCHANGED <<plan, displayed, migrated, edits>>

ConfigNext ==
    \/ \E m \in Migrators :
          \/ ReadPlan(m) \/ HashPlan(m) \/ Review(m) \/ EndsAtReview(m)
          \/ CreateOutput(m) \/ WriteOutput(m)
          \/ Read(m) \/ CreateBackup(m) \/ FillBackup(m) \/ CreateTemp(m) \/ WriteTemp(m)
          \/ Rename(m) \/ SyncDir(m)
          \/ MigratorCrash(m) \/ WriteFails(m)
    \/ \E c \in V1Docs : Edit(c)
    \/ PowerLoss

ConfigSpec == ConfigInit /\ [][ConfigNext]_configVars

----------------------------------------------------------------------------
(* Properties *)

\* migrate-file.ts, steps 4 to 6: wherever a crash, a loss of power, a second
\* migration or an edit falls, the file is a whole document, and a migrated
\* one has the exact bytes it was made from beside it.
BackupKept ==
    /\ Data(Live) # Torn
    /\ Data(Live).version = 2 =>
          LET bak == Backup(Data(Live).doc) IN Exists(bak) /\ Data(bak) = V1(Data(Live).doc)

\* migrate-file.ts, step 6: once a migration has been answered, no loss of
\* power brings the old document back.
MigrationDurable == migrated # Nothing => Data(Live) = migrated

\* Whenever a migration ends and whatever it is run beside, what it was made
\* of is kept beside what it made, and what it answered stays.  Nothing is
\* said of an edit that falls between its last read and its rename: it is
\* overwritten, and no backup has it.
MigrationSafe == BackupKept /\ MigrationDurable

\* config-cmd.ts: "the review digest covers exactly what would be written".
ReviewedIsWritten ==
    \A m \in Migrators : pc[m] = "done" => plan[m].output \/ Result(m) = Plan(m).new
=============================================================================
