---------------------------- MODULE InstanceLock ----------------------------
(***************************************************************************)
(* One daemon for a state root: gateway-daemon/src/lock.ts, and start and  *)
(* stop of gateway-daemon/src/daemon.ts around it.                         *)
(*                                                                         *)
(* Several processes start a daemon on the same state root.  daemon.lock   *)
(* is a path to an inode or to nothing; a flock is on an inode, and so is  *)
(* the record of its holder.  Where flock(1) can be run, a helper process  *)
(* takes the lock; elsewhere, and when the helper times out, the exclusive *)
(* creation of the file does, with a probe of the process its record names.*)
(*                                                                         *)
(* flock(1) is outside the repository.  It opens the file, creating it,    *)
(* locks it, and runs the helper's command in a child that has the file    *)
(* open as well: the lock is gone when that child is.  Nothing in lock.ts  *)
(* ends the child: release() signals flock(1), and a daemon that dies      *)
(* signals nobody.  A signal to the process group or the control group of  *)
(* the daemon (Ctrl-C, systemd) does: the helper is spawned into both.     *)
(***************************************************************************)
EXTENDS Integers, FiniteSets

CONSTANTS
    Procs,       \* processes that start a daemon, once each
    None,
    MaxInodes,   \* bound on the files that have been daemon.lock
    MaxCrashes,  \* bound on processes that die
    MaxTimeouts, \* bound on helpers that do not answer in time
    MaxSignals,  \* bound on signals to the group of a daemon
    Modes,       \* of "flock", "slow", "excl", see mode
    Starters,    \* bound: how many of the processes start, for each mode
    Prompt       \* the record of a lock that is held is in the file before the
                 \* two waits of a contender are over

ASSUME LockAssumption ==
    /\ MaxInodes \in Nat /\ MaxCrashes \in Nat /\ MaxTimeouts \in Nat /\ MaxSignals \in Nat
    /\ None \notin Procs

VARIABLES
    mode,       \* flockAvailable(): "excl" when flock(1) cannot be run, "slow"
                \* when its answer may take longer than the timeout
    path,       \* the inode daemon.lock names, or 0
    inodes,     \* how many there have been
    record,     \* inode -> the process its record names, or None
    flocked,    \* inode -> the process whose helper locked it, or None
    endpoints,  \* the process endpoints.json names, or None
    pc,         \* what each process does
    at,         \* the inode its helper opened
    attempt,    \* the fallback's loop counter
    told,       \* what it was told instead of the lock: an endpoint or None
    torn,       \* history: a signal took a lock somebody relied on
    crashes, timeouts, signals

files == <<path, inodes, record, flocked>>
bounds == <<crashes, timeouts, signals>>
vars == <<mode, files, endpoints, pc, at, attempt, told, torn, bounds>>

Init ==
    /\ mode \in Modes
    /\ path = 0 /\ inodes = 0
    /\ record = [i \in 1..MaxInodes |-> None] /\ flocked = [i \in 1..MaxInodes |-> None]
    /\ endpoints = None
    /\ pc = [p \in Procs |-> "off"] /\ at = [p \in Procs |-> 0]
    /\ attempt = [p \in Procs |-> 0] /\ told = [p \in Procs |-> None]
    /\ torn = FALSE /\ crashes = 0 /\ timeouts = 0 /\ signals = 0

Go(p, from, to) == pc[p] = from /\ pc' = [pc EXCEPT ![p] = to]

\* open with O_CREAT: the file there is, or a new one.
Opens == IF path # 0 THEN UNCHANGED <<path, inodes>>
         ELSE inodes < MaxInodes /\ path' = inodes + 1 /\ inodes' = inodes + 1

Start(p) ==
    /\ Cardinality({q \in Procs : pc[q] # "off"}) < Starters[mode]
    /\ Go(p, "off", IF mode = "excl" THEN "create" ELSE "touch")
    /\ UNCHANGED <<mode, files, endpoints, at, attempt, told, torn, bounds>>

----------------------------------------------------------------------------
(* tryFlock and what acquireLock does with its answer. *)

Touch(p) ==
    /\ Go(p, "touch", "open") /\ Opens
    /\ UNCHANGED <<mode, record, flocked, endpoints, at, attempt, told, torn, bounds>>

HelperOpens(p) ==
    /\ Go(p, "open", "lock") /\ Opens
    /\ at' = [at EXCEPT ![p] = path']
    /\ UNCHANGED <<mode, record, flocked, endpoints, attempt, told, torn, bounds>>

HelperLocks(p) ==
    /\ pc[p] = "lock"
    /\ IF flocked[at[p]] = None
       THEN /\ flocked' = [flocked EXCEPT ![at[p]] = p]
            /\ pc' = [pc EXCEPT ![p] = "record"]
       ELSE pc' = [pc EXCEPT ![p] = "contended"] /\ UNCHANGED flocked
    /\ UNCHANGED <<mode, path, inodes, record, endpoints, at, attempt, told, torn, bounds>>

\* The helper has not answered: flock(1) is killed, before or after it locked.
HelperTimesOut(p) ==
    /\ mode = "slow" /\ timeouts < MaxTimeouts /\ timeouts' = timeouts + 1
    /\ Go(p, "lock", "create")
    /\ \/ UNCHANGED flocked
       \/ flocked[at[p]] = None /\ flocked' = [flocked EXCEPT ![at[p]] = p]
    /\ UNCHANGED <<mode, path, inodes, record, endpoints, at, attempt, told, torn, crashes, signals>>

\* writeLockRecordInPlace opens the path, not the inode that was locked; when
\* there is none it throws, and start() with it.
WriteRecord(p) ==
    /\ pc[p] = "record"
    /\ IF path # 0
       THEN record' = [record EXCEPT ![path] = p] /\ pc' = [pc EXCEPT ![p] = "boot"]
       ELSE pc' = [pc EXCEPT ![p] = "gone"] /\ UNCHANGED record
    /\ UNCHANGED <<mode, path, inodes, flocked, endpoints, at, attempt, told, torn, bounds>>

\* endpoints.json: replaced by a rename, so a reader finds one daemon or none.
WriteEndpoints(p) == endpoints' = p
ReadEndpoints     == endpoints

\* A contender is told what endpoints.json says.
Told(p) ==
    /\ Go(p, "contended", "gone")
    /\ told' = [told EXCEPT ![p] = ReadEndpoints]
    /\ UNCHANGED <<mode, files, endpoints, at, attempt, torn, bounds>>

----------------------------------------------------------------------------
(* The portable fallback. *)

Create(p) ==
    /\ pc[p] = "create"
    /\ CASE attempt[p] = 4 -> pc' = [pc EXCEPT ![p] = "contended"] /\ UNCHANGED <<path, inodes>>
         [] attempt[p] < 4 /\ path = 0 -> pc' = [pc EXCEPT ![p] = "fill"] /\ Opens
         [] OTHER -> pc' = [pc EXCEPT ![p] = "probe"] /\ UNCHANGED <<path, inodes>>
    /\ at' = [at EXCEPT ![p] = path']
    /\ UNCHANGED <<mode, record, flocked, endpoints, attempt, told, torn, bounds>>

Fill(p) ==
    /\ Go(p, "fill", "boot")
    /\ record' = [record EXCEPT ![at[p]] = p]
    /\ UNCHANGED <<mode, path, inodes, flocked, endpoints, at, attempt, told, torn, bounds>>

Alive(p) == pc[p] \notin {"gone", "crashed"}

\* Mutant: a process that does not serve yet is taken for dead.
StaleEager(q) == ~Alive(q) \/ pc[q] = "boot"
\* bootMismatch, dead or startMismatch: provably not a live daemon.
Stale(q) == ~Alive(q)

\* Mutant: continue goes on with the same attempt.
NextAttemptSame(a) == a
\* The loop's counter.
NextAttempt(a) == a + 1

\* readLockRecord and the probe of the process: no record is waited for twice
\* and then taken for stale.
Judge(p) ==
    LET prior == IF path = 0 THEN None ELSE record[path] IN
    /\ pc[p] = "probe"
    /\ CASE prior = None /\ attempt[p] < 2 ->
              pc' = [pc EXCEPT ![p] = "create"] /\ attempt' = [attempt EXCEPT ![p] = NextAttempt(@)]
         [] prior = None /\ attempt[p] >= 2 ->
              /\ Prompt => \A q \in Procs : pc[q] \notin {"fill", "record"}
              /\ pc' = [pc EXCEPT ![p] = "discard"] /\ UNCHANGED attempt
         [] prior # None /\ Stale(prior) -> pc' = [pc EXCEPT ![p] = "discard"] /\ UNCHANGED attempt
         [] OTHER -> pc' = [pc EXCEPT ![p] = "contended"] /\ UNCHANGED attempt
    /\ UNCHANGED <<mode, files, endpoints, at, told, torn, bounds>>

\* The stale file is removed; by now the path may name another one.
Discard(p) ==
    /\ Go(p, "discard", "create")
    /\ path' = 0
    /\ attempt' = [attempt EXCEPT ![p] = NextAttempt(@)]
    /\ UNCHANGED <<mode, inodes, record, flocked, endpoints, at, told, torn, bounds>>

----------------------------------------------------------------------------
(* The daemon. *)

\* The store is open, the listeners listen: endpoints.json is written.
Publish(p) ==
    /\ Go(p, "boot", "ready")
    /\ WriteEndpoints(p)
    /\ UNCHANGED <<mode, files, at, attempt, told, torn, bounds>>

\* A step of start() throws: teardown closes the listeners, the engine and the
\* store.
BootFails(p) ==
    /\ Go(p, "boot", "closed")
    /\ UNCHANGED <<mode, files, endpoints, at, attempt, told, torn, bounds>>

\* stop(): the drain, then the same teardown.
Stop(p) ==
    /\ Go(p, "ready", "closed")
    /\ UNCHANGED <<mode, files, endpoints, at, attempt, told, torn, bounds>>

\* The rest of teardown and release(), in the code's order.
Leaves ==
    [closed |-> "unpublish", unpublish |-> "release", release |-> "unlink", unlink |-> "gone"]

Closed(p) ==
    /\ Go(p, "closed", Leaves.closed)
    /\ UNCHANGED <<mode, files, endpoints, at, attempt, told, torn, bounds>>

RemoveEndpoints(p) ==
    /\ Go(p, "unpublish", Leaves.unpublish)
    /\ endpoints' = None
    /\ UNCHANGED <<mode, files, at, attempt, told, torn, bounds>>

\* stopHelper: the signal ends flock(1), not its child.
StopHelper(p) ==
    /\ Go(p, "release", Leaves.release)
    /\ UNCHANGED <<mode, files, endpoints, at, attempt, told, torn, bounds>>

Unlink(p) ==
    /\ Go(p, "unlink", Leaves.unlink)
    /\ path' = 0
    /\ UNCHANGED <<mode, inodes, record, flocked, endpoints, at, attempt, told, torn, bounds>>

Crash(p) ==
    /\ crashes < MaxCrashes /\ crashes' = crashes + 1
    /\ pc[p] \notin {"off", "gone", "crashed"}
    /\ pc' = [pc EXCEPT ![p] = "crashed"]
    /\ UNCHANGED <<mode, files, endpoints, at, attempt, told, torn, timeouts, signals>>

\* Where the daemon has its signal handlers, or is no more.
Outlives == {"ready", "closed", "unpublish", "gone", "crashed"}

\* A daemon that goes on, with its store open or its file still to be unlinked,
\* and a contender that opened the file before it was unlinked rely on the lock.
Relied(p) ==
    \/ pc[p] \in {"ready", "closed", "unpublish"}
    \/ \E q \in Procs : pc[q] = "lock" /\ at[q] = at[p] /\ at[q] # path

\* SIGINT or SIGTERM to the group of p: flock(1) and its child end, whether p
\* still is or left them behind; lock.ts takes no notice of it once it holds the
\* lock.  p drains (Stop) where its handlers are installed and dies elsewhere.
Signal(p) ==
    /\ signals < MaxSignals /\ signals' = signals + 1
    /\ \E i \in 1..MaxInodes : flocked[i] = p
    /\ flocked' = [i \in 1..MaxInodes |-> IF flocked[i] = p THEN None ELSE flocked[i]]
    /\ torn' = (torn \/ Relied(p))
    /\ pc' = [pc EXCEPT ![p] = IF @ \in Outlives THEN @ ELSE "crashed"]
    /\ UNCHANGED <<mode, path, inodes, record, endpoints, at, attempt, told, crashes, timeouts>>

Own(p) ==
    \/ Touch(p) \/ HelperOpens(p) \/ HelperLocks(p) \/ WriteRecord(p) \/ Told(p)
    \/ Create(p) \/ Fill(p) \/ Judge(p) \/ Discard(p)
    \/ Closed(p) \/ RemoveEndpoints(p) \/ StopHelper(p) \/ Unlink(p)

Next == \E p \in Procs :
            Start(p) \/ Own(p) \/ HelperTimesOut(p) \/ Publish(p) \/ BootFails(p) \/ Stop(p)
            \/ Crash(p) \/ Signal(p)

\* A process that runs goes on; a boot ends one way or the other.
Spec ==
    /\ Init /\ [][Next]_vars
    /\ \A p \in Procs : WF_vars(Own(p)) /\ WF_vars(Publish(p) \/ BootFails(p))

----------------------------------------------------------------------------
(* Properties *)

Steps ==
    {"off", "touch", "open", "lock", "record", "contended", "create", "fill", "probe", "discard",
     "boot", "ready", "closed", "unpublish", "release", "unlink", "gone", "crashed"}

\* The type invariant of the lock's files and processes.
TypeOK ==
    /\ mode \in Modes /\ inodes \in 0..MaxInodes /\ path \in 0..inodes
    /\ record \in [1..MaxInodes -> Procs \union {None}]
    /\ flocked \in [1..MaxInodes -> Procs \union {None}]
    /\ endpoints \in Procs \union {None} /\ told \in [Procs -> Procs \union {None}]
    /\ pc \in [Procs -> Steps] /\ at \in [Procs -> 0..inodes] /\ attempt \in [Procs -> 0..4]
    /\ torn \in BOOLEAN
    /\ crashes \in 0..MaxCrashes /\ timeouts \in 0..MaxTimeouts /\ signals \in 0..MaxSignals

\* Between the lock and the end of teardown the store may be open.
Writers == {p \in Procs : pc[p] \in {"boot", "ready"}}

\* lock.ts: never a second writer, for as long as no signal has ended the helper
\* of a daemon that goes on, or of one that is gone while a contender still has
\* its unlinked file open.  Daemons that die, boots that fail, the helpers they
\* leave behind and the end of those make no second writer.
OneWriter == ~torn => \A p, q \in Writers : p = q

\* The strengthening of OneWriter where flock(1) answers: a process between its
\* lock and its unlink holds the file the path names, and an inode the path no
\* longer names is locked for as long as a contender has it open.
Holding == {"record", "boot", "ready", "closed", "unpublish", "release", "unlink"}
NoFallback == \A p \in Procs : pc[p] \notin {"create", "fill", "probe", "discard"}
Owned ==
    /\ \A i \in 1..MaxInodes : i > inodes => flocked[i] = None
    /\ \A p \in Procs : pc[p] = "lock" => at[p] \in 1..inodes
    /\ \A i \in 1..MaxInodes, p \in Procs : flocked[i] = p =>
          at[p] = i /\ pc[p] \notin {"off", "touch", "open", "lock"}
Kept ==
    ~torn =>
        /\ \A p \in Procs : pc[p] \in Holding => path # 0 /\ at[p] = path /\ flocked[path] = p
        /\ \A p \in Procs : pc[p] = "lock" /\ at[p] # path => flocked[at[p]] # None
LockInv == mode = "flock" => NoFallback /\ Owned /\ Kept

\* daemon.ts: endpoints.json names the daemon that serves for as long as it
\* does; no daemon that ends takes its successor's away.
EndpointsOurs == \A p \in Procs : pc[p] = "ready" => endpoints = p

\* Every start ends with a daemon that serves or with an answer, and a stop
\* comes to its end.
StartsSettle ==
    \A p \in Procs :
        /\ (pc[p] = "touch" \/ pc[p] = "create") ~> (pc[p] \in {"ready", "gone", "crashed"})
        /\ (pc[p] = "closed") ~> (pc[p] \in {"gone", "crashed"})
=============================================================================
