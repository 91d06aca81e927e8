----------------------------- MODULE HostProofs ------------------------------
(***************************************************************************)
(* Three machines of a host.                                               *)
(*                                                                         *)
(* The lock of a state root: where flock(1) answers there is one writer,   *)
(* for any number of processes, crashes and helpers that end with them,    *)
(* until a signal ends the helper of a daemon that goes on.  The invariant *)
(* is LockInv; it rests on what release() leaves behind: an inode that a   *)
(* contender opened before it was unlinked is still locked by the child of *)
(* the helper that locked it.                                              *)
(*                                                                         *)
(* The conversation with an adapter: what the client reports and the       *)
(* engine claims is what the adapter said, for any number of requests and  *)
(* whatever the adapter answers, when it likes.  The invariant PipeInv     *)
(* ties each counter of the gate, and each step of a stop, to answers that *)
(* were given once and for good.                                           *)
(*                                                                         *)
(* The readers of the event log: as long as the log is one file a watcher  *)
(* takes its lines, each once and in their order.  The invariant,          *)
(* TailInv, says where a read stands between its awaits: the offset and    *)
(* the half line in the buffer are those of the lines delivered, and what  *)
(* was read goes on from there.                                            *)
(***************************************************************************)
EXTENDS InstanceLock, AdapterPipe, LogTail, FiniteSetTheorems, SequenceTheorems, TLAPS

-----------------------------------------------------------------------------
(* The lock. *)

\* The machines the theorem is about: flock(1) can be run and answers in time.
FlockAnswers == Modes = {"flock"}

\* What the steps need to know of the state's types.
LockTypes ==
    /\ mode = "flock" /\ inodes \in 0..MaxInodes /\ path \in 0..inodes
    /\ flocked \in [1..MaxInodes -> Procs \union {None}]
    /\ pc \in [Procs -> Steps] /\ at \in [Procs -> 0..inodes]
    /\ inodes <= MaxInodes /\ torn \in BOOLEAN

IInv == LockTypes /\ LockInv

\* Nobody holds anything at the start.
LEMMA InitInv == ASSUME FlockAnswers PROVE Init => IInv
<1> SUFFICES ASSUME Init PROVE IInv
  OBVIOUS
<1> USE LockAssumption DEF FlockAnswers, Init
<1>4. mode = "flock" /\ inodes = 0 /\ path = 0 /\ torn = FALSE
  OBVIOUS
<1>5. flocked \in [1..MaxInodes -> Procs \union {None}]
  OBVIOUS
<1>6. pc \in [Procs -> Steps] /\ at \in [Procs -> 0..0]
  BY DEF Steps
<1>1. LockTypes
  <2>1. at \in [Procs -> 0..inodes]
    BY <1>4, <1>6
  <2>2. inodes \in 0..MaxInodes /\ path \in 0..inodes /\ inodes <= MaxInodes
    BY <1>4
  <2> QED BY ONLY <1>4, <1>5, <1>6, <2>1, <2>2, Zenon DEF LockTypes
<1>2. NoFallback /\ Kept
  BY DEF NoFallback, Kept, Holding
<1>3. Owned
  BY DEF Owned
<1> QED BY <1>1, <1>2, <1>3 DEF IInv, LockInv

\* A process that holds no lock and moves to a step without one, all files as
\* they are but for a path that names a new file.
LEMMA MovesOn ==
    ASSUME IInv, NEW p \in Procs, NEW to \in Steps,
           pc[p] \notin {"open", "lock"}, to \notin {"off", "touch", "open", "lock", "create", "fill", "probe", "discard"},
           to \in Holding => pc[p] \in Holding,
           pc' = [pc EXCEPT ![p] = to], UNCHANGED <<mode, path, inodes, flocked, at, torn>>
    PROVE  IInv'
<1> USE LockAssumption DEF IInv, LockTypes, LockInv
<1>1. LockTypes'
  OBVIOUS
<1>2. NoFallback'
  BY DEF NoFallback
<1>3. Owned'
  BY DEF Owned
<1>4. Kept'
  BY DEF Kept
<1> QED BY <1>1, <1>2, <1>3, <1>4

\* Every step keeps the invariant.
LEMMA NextInv == ASSUME FlockAnswers PROVE IInv /\ [Next]_vars => IInv'
<1> SUFFICES ASSUME IInv, [Next]_vars PROVE IInv'
  OBVIOUS
<1>m. mode = "flock" /\ NoFallback /\ Owned /\ Kept /\ LockTypes
  BY DEF IInv, LockTypes, LockInv
<1>g. SUFFICES ASSUME ~IInv' PROVE FALSE
  OBVIOUS
<1>i. LockTypes' /\ NoFallback' /\ Owned' /\ Kept' => IInv'
  BY DEF IInv, LockInv
<1>1. CASE UNCHANGED vars
  <2>0. UNCHANGED <<mode, path, inodes, flocked, pc, at, torn>>
    BY <1>1 DEF vars, files
  <2>1. LockTypes'
    BY <1>m, <2>0 DEF LockTypes
  <2>2. NoFallback' /\ Owned'
    BY <1>m, <2>0 DEF NoFallback, Owned
  <2>3. Kept'
    BY <1>m, <2>0 DEF Kept
  <2> QED BY <1>g, <1>i, <2>1, <2>2, <2>3
<1>2. ASSUME NEW p \in Procs, Start(p) PROVE FALSE
  <2>0. /\ pc[p] = "off" /\ pc' = [pc EXCEPT ![p] = "touch"]
        /\ UNCHANGED <<mode, path, inodes, flocked, at, torn>>
    BY <1>2, <1>m DEF Start, Go, files
  <2>1. LockTypes'
    BY <1>m, <2>0 DEF LockTypes, Steps
  <2>2. NoFallback' /\ Kept'
    BY <1>m, <2>0 DEF LockTypes, NoFallback, Kept, Holding
  <2>3. Owned'
    BY <1>m, <2>0 DEF LockTypes, Owned
  <2> QED BY <1>g, <1>i, <2>1, <2>2, <2>3
<1>3. ASSUME NEW p \in Procs, Touch(p) PROVE FALSE
  <2>0. /\ pc[p] = "touch" /\ pc' = [pc EXCEPT ![p] = "open"] /\ Opens
        /\ UNCHANGED <<mode, flocked, at, torn>>
    BY <1>3 DEF Touch, Go
  <2>1. LockTypes'
    BY <1>m, <2>0, LockAssumption DEF LockTypes, Steps, Opens
  <2>2. NoFallback'
    BY <1>m, <2>0 DEF LockTypes, NoFallback
  <2>3. Owned'
    BY <1>m, <2>0, LockAssumption DEF LockTypes, Owned, Opens
  <2>4. Kept'
    BY <1>m, <2>0, LockAssumption DEF LockTypes, Kept, Owned, Opens, Holding
  <2> QED BY <1>g, <1>i, <2>1, <2>2, <2>3, <2>4
<1>4. ASSUME NEW p \in Procs, HelperOpens(p) PROVE FALSE
  <2>0. /\ pc[p] = "open" /\ pc' = [pc EXCEPT ![p] = "lock"] /\ Opens
        /\ at' = [at EXCEPT ![p] = path'] /\ UNCHANGED <<mode, flocked, torn>>
    BY <1>4 DEF HelperOpens, Go
  <2>1. LockTypes'
    BY <1>m, <2>0, LockAssumption DEF LockTypes, Steps, Opens
  <2>2. NoFallback'
    BY <1>m, <2>0 DEF LockTypes, NoFallback
  <2>3. Owned'
    BY <1>m, <2>0, LockAssumption DEF LockTypes, Owned, Opens
  <2>4. Kept'
    BY <1>m, <2>0, LockAssumption DEF LockTypes, Kept, Owned, Opens, Holding
  <2> QED BY <1>g, <1>i, <2>1, <2>2, <2>3, <2>4
<1>5. ASSUME NEW p \in Procs, HelperLocks(p) PROVE FALSE
  <2>1. CASE flocked[at[p]] # None
    <3>1. pc[p] = "lock" /\ pc' = [pc EXCEPT ![p] = "contended"]
          /\ UNCHANGED <<mode, path, inodes, flocked, at, torn>>
      BY <1>5, <2>1 DEF HelperLocks
    <3>2. LockTypes'
      BY <1>m, <3>1 DEF LockTypes, Steps
    <3>3. NoFallback'
      BY <1>m, <3>1 DEF LockTypes, NoFallback
    <3>4. Owned'
      BY <1>m, <3>1 DEF LockTypes, Owned
    <3>5. Kept'
      BY <1>m, <3>1 DEF LockTypes, Kept, Holding
    <3> QED BY <1>g, <1>i, <3>2, <3>3, <3>4, <3>5
  <2>2. CASE flocked[at[p]] = None
    <3>1. pc[p] = "lock" /\ pc' = [pc EXCEPT ![p] = "record"]
          /\ flocked' = [flocked EXCEPT ![at[p]] = p]
          /\ UNCHANGED <<mode, path, inodes, at, torn>>
      BY <1>5, <2>2 DEF HelperLocks
    <3>2. at[p] \in 1..MaxInodes /\ at[p] <= inodes
      BY <1>m, <3>1, LockAssumption DEF Owned, LockTypes
    <3>3. LockTypes'
      BY <1>m, <3>1, <3>2 DEF LockTypes, Steps
    <3>4. NoFallback'
      BY <1>m, <3>1 DEF LockTypes, NoFallback
    <3>5. Owned'
      BY <1>m, <3>1, <3>2, LockAssumption DEF LockTypes, Owned
    <3>6. CASE torn
      BY <3>6, <3>3, <3>4, <3>5, <3>1, <1>g, <1>i DEF Kept
    <3>7. CASE ~torn
      <4>1. at[p] = path
        BY <1>m, <2>2, <3>1, <3>7 DEF Kept
      <4>2. \A q \in Procs : pc[q] \notin Holding
        BY <1>m, <2>2, <3>7, <4>1, LockAssumption DEF Kept
      <4>3. Kept'
        BY <1>m, <3>1, <3>2, <4>1, <4>2, LockAssumption DEF LockTypes, Kept, Holding
      <4> QED BY <4>3, <3>3, <3>4, <3>5, <1>g, <1>i
    <3> QED BY <3>6, <3>7, <1>m DEF LockTypes
  <2> QED
    BY <2>1, <2>2
<1>6. ASSUME NEW p \in Procs, HelperTimesOut(p) PROVE FALSE
  BY <1>6, <1>m DEF HelperTimesOut
<1>7. ASSUME NEW p \in Procs, WriteRecord(p) PROVE FALSE
  <2>1. pc[p] = "record" /\ UNCHANGED <<mode, path, inodes, flocked, at, torn>>
        /\ (pc' = [pc EXCEPT ![p] = "boot"] \/ pc' = [pc EXCEPT ![p] = "gone"])
    BY <1>7 DEF WriteRecord
  <2> QED BY <2>1, <1>g, MovesOn DEF Steps, Holding
<1>8. ASSUME NEW p \in Procs, Told(p) PROVE FALSE
  <2>1. pc[p] = "contended" /\ UNCHANGED <<mode, path, inodes, flocked, at, torn>>
        /\ pc' = [pc EXCEPT ![p] = "gone"]
    BY <1>8 DEF Told, Go, files
  <2> QED BY <2>1, <1>g, MovesOn DEF Steps, Holding
<1>9. ASSUME NEW p \in Procs, Create(p) \/ Fill(p) \/ Judge(p) \/ Discard(p) PROVE FALSE
  BY <1>9, <1>m DEF Create, Fill, Judge, Discard, Go, NoFallback
<1>10. ASSUME NEW p \in Procs, Publish(p) \/ BootFails(p) \/ Stop(p) PROVE FALSE
  <2>1. pc[p] \in {"boot", "ready"} /\ UNCHANGED <<mode, path, inodes, flocked, at, torn>>
        /\ (pc' = [pc EXCEPT ![p] = "ready"] \/ pc' = [pc EXCEPT ![p] = "closed"])
    BY <1>10 DEF Publish, BootFails, Stop, Go, files
  <2> QED BY <2>1, <1>g, MovesOn DEF Steps, Holding
<1>11. ASSUME NEW p \in Procs, Crash(p) PROVE FALSE
  <2>1. pc' = [pc EXCEPT ![p] = "crashed"] /\ UNCHANGED <<mode, path, inodes, flocked, at, torn>>
    BY <1>11 DEF Crash, files
  <2>2. LockTypes'
    BY <1>m, <2>1 DEF LockTypes, Steps
  <2>3. NoFallback'
    BY <1>m, <2>1 DEF LockTypes, NoFallback
  <2>4. Owned'
    BY <1>m, <2>1 DEF LockTypes, Owned
  <2>5. Kept'
    BY <1>m, <2>1 DEF LockTypes, Kept, Holding
  <2> QED BY <2>2, <2>3, <2>4, <2>5, <1>g, <1>i
<1>12. ASSUME NEW p \in Procs, Closed(p) \/ RemoveEndpoints(p) \/ StopHelper(p) PROVE FALSE
  <2>1. pc[p] \in {"closed", "unpublish", "release"} /\ UNCHANGED <<mode, path, inodes, flocked, at, torn>>
        /\ (\/ pc' = [pc EXCEPT ![p] = "unpublish"] \/ pc' = [pc EXCEPT ![p] = "release"]
            \/ pc' = [pc EXCEPT ![p] = "unlink"])
    BY <1>12 DEF Closed, RemoveEndpoints, StopHelper, Leaves, Go, files
  <2> QED BY <2>1, <1>g, MovesOn DEF Steps, Holding
<1>13. ASSUME NEW p \in Procs, Unlink(p) PROVE FALSE
  <2>1. pc[p] = "unlink" /\ pc' = [pc EXCEPT ![p] = "gone"] /\ path' = 0
        /\ UNCHANGED <<mode, inodes, flocked, at, torn>>
    BY <1>13 DEF Unlink, Leaves, Go
  <2>2. LockTypes'
    BY <1>m, <2>1 DEF LockTypes, Steps
  <2>3. NoFallback'
    BY <1>m, <2>1 DEF LockTypes, NoFallback
  <2>4. Owned'
    BY <1>m, <2>1 DEF LockTypes, Owned
  <2>5. Kept'
    BY <1>m, <2>1, LockAssumption DEF LockTypes, Kept, Holding
  <2> QED BY <2>2, <2>3, <2>4, <2>5, <1>g, <1>i
<1>14. ASSUME NEW p \in Procs, Signal(p) PROVE FALSE
  <2>1. /\ \E i \in 1..MaxInodes : flocked[i] = p
        /\ flocked' = [i \in 1..MaxInodes |-> IF flocked[i] = p THEN None ELSE flocked[i]]
        /\ torn' = (torn \/ Relied(p))
        /\ pc' = [pc EXCEPT ![p] = IF @ \in Outlives THEN @ ELSE "crashed"]
        /\ UNCHANGED <<mode, path, inodes, at>>
    BY <1>14 DEF Signal
  <2>2. LockTypes'
    BY <1>m, <2>1, LockAssumption DEF LockTypes, Steps, Outlives, Relied
  <2>3. NoFallback'
    BY <1>m, <2>1 DEF LockTypes, NoFallback, Outlives
  <2>4. Owned'
    BY <1>m, <2>1, LockAssumption DEF LockTypes, Owned, Outlives
  <2>5. CASE torn'
    BY <2>5, <2>2, <2>3, <2>4, <1>g, <1>i DEF Kept
  <2>6. CASE ~torn'
    <3>1. ~torn /\ ~Relied(p)
      BY <2>1, <2>6
    <3>2. PICK i \in 1..MaxInodes : flocked[i] = p
      BY <2>1
    <3>3. at[p] = i /\ \A j \in 1..MaxInodes : flocked[j] = p => j = i
      BY <3>2, <1>m DEF Owned
    <3>4. pc'[p] \notin Holding /\ pc'[p] # "lock"
      BY <3>1, <2>1, <1>m DEF Relied, LockTypes, Outlives, Holding
    <3>5. ASSUME NEW q \in Procs, pc'[q] \in Holding PROVE path # 0 /\ at[q] = path /\ flocked'[path] = q
      <4>1. q # p /\ pc[q] \in Holding
        BY <3>4, <3>5, <2>1, <1>m DEF LockTypes
      <4>2. path # 0 /\ at[q] = path /\ flocked[path] = q
        BY <4>1, <3>1, <1>m DEF Kept
      <4>3. path \in 1..MaxInodes
        BY <4>2, <1>m, LockAssumption DEF LockTypes
      <4> QED BY <4>1, <4>2, <4>3, <2>1
    <3>6. ASSUME NEW q \in Procs, pc'[q] = "lock", at[q] # path PROVE flocked'[at[q]] # None
      <4>1. q # p /\ pc[q] = "lock"
        BY <3>4, <3>6, <2>1, <1>m DEF LockTypes
      <4>2. flocked[at[q]] # None /\ at[q] \in 1..MaxInodes
        BY <4>1, <3>1, <3>6, <1>m, LockAssumption DEF Kept, Owned, LockTypes
      <4>3. at[q] # at[p]
        BY <4>1, <3>1, <3>6 DEF Relied
      <4>4. flocked[at[q]] # p
        BY <4>2, <4>3, <3>3
      <4> QED BY <4>2, <4>4, <2>1
    <3>7. Kept'
      BY <3>5, <3>6, <2>1 DEF Kept
    <3> QED BY <3>7, <2>2, <2>3, <2>4, <1>g, <1>i
  <2> QED BY <2>5, <2>6
<1> QED
  BY <1>1, <1>2, <1>3, <1>4, <1>5, <1>6, <1>7, <1>8, <1>9, <1>10, <1>11, <1>12, <1>13, <1>14, <1>g DEF Next, Own

\* lock.ts:25, for any number of processes that start and die, of files and of
\* signals: where flock(1) answers in time there is no second writer before a
\* signal ends the helper of a daemon that goes on, or the one that a daemon
\* left behind while a contender has the unlinked file open.
THEOREM SpecOneWriter == ASSUME FlockAnswers PROVE Spec => []OneWriter
<1>1. IInv => OneWriter
  BY DEF IInv, LockTypes, LockInv, Kept, OneWriter, Writers, Holding
<1> QED
  BY <1>1, InitInv, NextInv, PTL DEF Spec

-----------------------------------------------------------------------------
(* The conversation with an adapter: the inductive invariant. *)

Stages ==
    {"off", "describe", "configure", "start", "gate", "live", "drain", "stop",
     "FAILED", "STOPPED", "QUARANTINED", "CRASHED"}

Kinds == {"reply", "breach", "invalid"}
ReqFields == {"id", "method", "out", "val"}

Questions == [id : 1..MaxRequests, method : DOMAIN Answers]
Values ==
    {"signed", "other", "accepted", "refused", "running", "ready", "unready", "clean", "uncertain", "stopped",
     "error", "none"}
Printed == [kind : Kinds, id : Nat, val : Values]

PipeTypes ==
    /\ counter \in 0..MaxRequests /\ pending \in 0..counter
    /\ said = [i \in 1..MaxRequests |-> said[i]]
    /\ todo \in Seq(Questions) /\ lines \in Seq(Printed)
    /\ req = [c \in Callers |-> req[c]]
    /\ \A c \in Callers : req[c] = [f \in ReqFields |-> req[c][f]]
    /\ checks \in Seq(Nat) /\ successes \in Nat
    /\ stage \in Stages

\* A request is answered once: one in the stdin of the adapter has no answer
\* yet, and a reply in its stdout says what it was answered.
AnsweredOnce ==
    /\ \A i \in 1..MaxRequests : i > counter => said[i] = "nothing"
    /\ \A k \in DOMAIN todo : todo[k].id <= counter /\ said[todo[k].id] = "nothing"
    /\ \A j, k \in DOMAIN todo : todo[j].id = todo[k].id => j = k
    /\ \A k \in DOMAIN lines : lines[k].kind = "reply" =>
          lines[k].id \in 1..counter /\ lines[k].val # "nothing" /\ said[lines[k].id] = lines[k].val

\* A caller waits for the pending request, and what it got is what was said.
Heard ==
    \A c \in Callers :
        /\ req[c].out = "waiting" => req[c].id = pending /\ pending # 0
        /\ req[c].out = "ok" =>
              req[c].id \in 1..counter /\ req[c].val # "nothing" /\ said[req[c].id] = req[c].val

ReadyAt(k) == checks[k] \in 1..counter /\ said[checks[k]] = "ready"
Asked == IF Fresh("op") THEN 0 ELSE 1

\* The successes counted by the gate are its last checks.
Counted ==
    /\ stage \in {"off", "describe", "configure", "start"} => checks = <<>> /\ successes = 0
    /\ stage = "gate" =>
          /\ successes + Asked <= Len(checks)
          /\ \A k \in 1..Len(checks) : Len(checks) - Asked - successes < k /\ k <= Len(checks) - Asked => ReadyAt(k)
          /\ req["op"].out \in {"waiting", "ok"} => req["op"].id = checks[Len(checks)]
    /\ stage = "live" =>
          /\ Fresh("op") /\ Need <= Len(checks)
          /\ \A k \in 1..Len(checks) : Len(checks) - Need < k => ReadyAt(k)

\* Nobody else asks while the product is stopped.
Alone ==
    /\ probing => stage \in {"live", "CRASHED"}
    /\ stage \in {"drain", "stop"} /\ req["op"].out \in {"waiting", "ok"} => req["op"].id = counter
    /\ stage = "stop" =>
          /\ Fresh("op") => counter > 0 /\ said[counter] = "clean"
          /\ req["op"].out \in {"waiting", "ok"} => counter > 1 /\ said[counter - 1] = "clean"
    /\ stage = "STOPPED" => \E i \in 1..(counter - 1) : said[i] = "clean" /\ said[i + 1] = "stopped"

PipeInv == PipeTypes /\ AnsweredOnce /\ Heard /\ Counted /\ Alone

\* What was said stays said, and what was not asked was not.
Grows ==
    /\ counter' \in counter..MaxRequests
    /\ said' = [i \in 1..MaxRequests |-> said'[i]]
    /\ \A i \in 1..MaxRequests : said[i] # "nothing" => said'[i] = said[i]

\* A run begins with nothing said.
LEMMA PipeBegins == PipeInit => PipeInv
<1> SUFFICES ASSUME PipeInit PROVE PipeInv
  OBVIOUS
<1> USE PipeAssumption DEF PipeInit
<1>1. PipeTypes
  BY DEF PipeTypes, Stages, NoRequest, ReqFields
<1>2. AnsweredOnce
  BY DEF AnsweredOnce
<1>3. Heard
  BY DEF Heard, NoRequest, Callers
<1>4. Counted
  BY DEF Counted
<1>5. Alone
  BY DEF Alone
<1> QED BY <1>1, <1>2, <1>3, <1>4, <1>5 DEF PipeInv

\* A request is refused, or written behind those there are.
LEMMA Requests ==
    ASSUME PipeInv, NEW c \in Callers, NEW method, Request(c, method), Fresh(c), said' = said
    PROVE  /\ Grows /\ req' = [d \in Callers |-> req'[d]]
           /\ req'[c] = [f \in ReqFields |-> req'[c][f]]
           /\ \A d \in Callers : d # c => req'[d] = req[d]
           /\ \/ /\ counter' = counter /\ pending' = pending /\ todo' = todo
                 /\ req'[c].out \in {"OUTCOME_UNKNOWN", "BUSY"}
              \/ /\ counter' = counter + 1 /\ pending' = counter + 1 /\ pending = 0
                 /\ todo' = Append(todo, [id |-> counter + 1, method |-> method])
                 /\ req'[c].out = "waiting" /\ req'[c].id = counter + 1
<1> USE PipeAssumption DEF PipeInv, PipeTypes
<1>1. CASE (closed \/ exited) \/ pending # 0
  <2>1. PICK why \in {"OUTCOME_UNKNOWN", "BUSY"} :
           /\ req' = [req EXCEPT ![c] = [NoRequest EXCEPT !.method = method, !.out = why]]
           /\ UNCHANGED <<counter, pending, todo>>
    BY <1>1 DEF Request
  <2>2. req'[c] = [NoRequest EXCEPT !.method = method, !.out = why]
    BY <2>1
  <2>3. req'[c] = [f \in ReqFields |-> req'[c][f]] /\ req'[c].out = why
    BY <2>2 DEF NoRequest, ReqFields
  <2>4. req' = [d \in Callers |-> req'[d]] /\ \A d \in Callers : d # c => req'[d] = req[d]
    BY <2>1
  <2>5. Grows
    BY <2>1 DEF Grows
  <2> QED BY <2>1, <2>3, <2>4, <2>5
<1>2. CASE ~(closed \/ exited) /\ pending = 0
  <2>1. /\ counter < MaxRequests /\ counter' = counter + 1 /\ pending' = counter + 1
        /\ todo' = Append(todo, [id |-> counter + 1, method |-> method])
        /\ req' = [req EXCEPT ![c] = [id |-> counter + 1, method |-> method, out |-> "waiting", val |-> "none"]]
    BY <1>2 DEF Request
  <2>2. req'[c] = [id |-> counter + 1, method |-> method, out |-> "waiting", val |-> "none"]
    BY <2>1
  <2>3. req'[c] = [f \in ReqFields |-> req'[c][f]] /\ req'[c].out = "waiting" /\ req'[c].id = counter + 1
    BY <2>2 DEF ReqFields
  <2>4. req' = [d \in Callers |-> req'[d]] /\ \A d \in Callers : d # c => req'[d] = req[d]
    BY <2>1
  <2>5. Grows
    BY <2>1 DEF Grows
  <2> QED BY <1>2, <2>1, <2>3, <2>4, <2>5
<1> QED BY <1>1, <1>2

\* The request leaves the pipes and the callers sound.
LEMMA RequestSound ==
    ASSUME PipeInv, NEW c \in Callers, NEW method \in DOMAIN Answers, Request(c, method), Fresh(c),
           said' = said, lines' = lines
    PROVE  /\ counter' \in 0..MaxRequests /\ pending' \in 0..counter'
           /\ todo' \in Seq(Questions)
           /\ req' = [d \in Callers |-> req'[d]]
           /\ \A d \in Callers : req'[d] = [f \in ReqFields |-> req'[d][f]]
           /\ AnsweredOnce' /\ Heard'
<1> USE PipeAssumption
<1>1. /\ Grows /\ req' = [d \in Callers |-> req'[d]]
      /\ req'[c] = [f \in ReqFields |-> req'[c][f]]
      /\ \A d \in Callers : d # c => req'[d] = req[d]
      /\ \/ /\ counter' = counter /\ pending' = pending /\ todo' = todo
            /\ req'[c].out \in {"OUTCOME_UNKNOWN", "BUSY"}
         \/ /\ counter' = counter + 1 /\ pending' = counter + 1 /\ pending = 0
            /\ todo' = Append(todo, [id |-> counter + 1, method |-> method])
            /\ req'[c].out = "waiting" /\ req'[c].id = counter + 1
  BY Requests
<1>2. /\ counter \in 0..MaxRequests /\ pending \in 0..counter /\ counter' \in counter..MaxRequests
      /\ todo \in Seq(Questions)
      /\ lines \in Seq(Printed)
  BY <1>1 DEF Grows, PipeInv, PipeTypes
<1>3. counter' \in 0..MaxRequests /\ pending' \in 0..counter'
  BY <1>1, <1>2
<1>4. todo' \in Seq(Questions)
  <2>1. CASE counter' = counter + 1 /\ todo' = Append(todo, [id |-> counter + 1, method |-> method])
    <3>1. [id |-> counter + 1, method |-> method] \in Questions
      BY <1>2, <2>1 DEF Questions
    <3> QED BY <2>1, <3>1, <1>2
  <2> QED BY <1>1, <1>2, <2>1
<1>5. \A d \in Callers : req'[d] = [f \in ReqFields |-> req'[d][f]]
  BY <1>1 DEF PipeInv, PipeTypes
<1>6. AnsweredOnce'
  <2>1. CASE counter' = counter /\ todo' = todo
    BY <2>1 DEF AnsweredOnce, PipeInv
  <2>2. CASE counter' = counter + 1 /\ todo' = Append(todo, [id |-> counter + 1, method |-> method])
    <3>1. \A i \in 1..MaxRequests : i > counter' => said'[i] = "nothing"
      BY <1>2, <2>2 DEF AnsweredOnce, PipeInv
    <3>2. /\ DOMAIN todo' = DOMAIN todo \union {Len(todo) + 1} /\ Len(todo) + 1 \notin DOMAIN todo
          /\ todo'[Len(todo) + 1].id = counter + 1
          /\ \A k \in DOMAIN todo : todo'[k] = todo[k]
      BY <1>2, <2>2
    <3>3. \A k \in DOMAIN todo : todo[k].id \in 1..counter /\ said[todo[k].id] = "nothing"
      <4> TAKE k \in DOMAIN todo
      <4>1. todo[k] \in Questions
        BY <1>2
      <4>2. todo[k].id \in 1..MaxRequests
        BY <4>1 DEF Questions
      <4> QED BY <1>2, <4>2 DEF AnsweredOnce, PipeInv
    <3>4. \A k \in DOMAIN todo' : todo'[k].id <= counter' /\ said'[todo'[k].id] = "nothing"
      <4> TAKE k \in DOMAIN todo'
      <4>1. CASE k = Len(todo) + 1
        <5>1. counter + 1 \in 1..MaxRequests
          BY <1>2, <2>2
        <5> QED BY <1>2, <2>2, <3>2, <4>1, <5>1 DEF AnsweredOnce, PipeInv
      <4>2. CASE k \in DOMAIN todo
        BY <1>2, <2>2, <3>2, <3>3, <4>2
      <4> QED BY <3>2, <4>1, <4>2
    <3>5. \A j, k \in DOMAIN todo' : todo'[j].id = todo'[k].id => j = k
      BY <1>2, <3>2, <3>3 DEF AnsweredOnce, PipeInv
    <3>6. \A k \in DOMAIN lines' : lines'[k].kind = "reply" =>
              lines'[k].id \in 1..counter' /\ lines'[k].val # "nothing" /\ said'[lines'[k].id] = lines'[k].val
      BY <1>2, <2>2 DEF AnsweredOnce, PipeInv
    <3> QED BY <3>1, <3>4, <3>5, <3>6 DEF AnsweredOnce
  <2> QED BY <1>1, <2>1, <2>2
<1>7. Heard'
  <2> SUFFICES ASSUME NEW d \in Callers
               PROVE  /\ req'[d].out = "waiting" => req'[d].id = pending' /\ pending' # 0
                      /\ req'[d].out = "ok" =>
                            req'[d].id \in 1..counter' /\ req'[d].val # "nothing" /\ said'[req'[d].id] = req'[d].val
    BY DEF Heard
  <2>1. CASE d = c
    BY <1>1, <1>2, <2>1
  <2>2. CASE d # c
    <3>1. /\ req'[d] = req[d]
          /\ req[d].out = "waiting" => req[d].id = pending /\ pending # 0
          /\ req[d].out = "ok" => req[d].id \in 1..counter /\ req[d].val # "nothing" /\ said[req[d].id] = req[d].val
      BY <1>1, <2>2 DEF Heard, PipeInv
    <3> QED BY <1>1, <1>2, <3>1
  <2> QED BY <2>1, <2>2
<1> QED BY <1>1, <1>3, <1>4, <1>5, <1>6, <1>7

\* The pending request is settled, with what was said when it succeeds.
LEMMA Settles ==
    ASSUME PipeInv, NEW out \in {"ok", "error", "BODY_LIMIT", "SCHEMA_INVALID", "OUTCOME_UNKNOWN"}, NEW val,
           pending' = 0, counter' = counter, said' = said, req' = Settled(out, val),
           out = "ok" => pending \in 1..counter /\ val # "nothing" /\ said[pending] = val
    PROVE  /\ req' = [c \in Callers |-> req'[c]]
           /\ \A c \in Callers : req'[c] = [f \in ReqFields |-> req'[c][f]]
           /\ Heard'
           /\ \A c \in Callers :
                 /\ req'[c].out = "none" <=> req[c].out = "none"
                 /\ req'[c].out \in {"waiting", "ok"} =>
                       req[c].out \in {"waiting", "ok"} /\ req'[c].id = req[c].id
<1>1. req' = [c \in Callers |-> req'[c]]
      /\ \A c \in Callers : req'[c] = IF Waiting(c) THEN [req[c] EXCEPT !.out = out, !.val = val] ELSE req[c]
  BY DEF Settled
<1>2. ASSUME NEW c \in Callers
      PROVE  /\ req'[c] = [f \in ReqFields |-> req'[c][f]]
             /\ req'[c].out = "none" <=> req[c].out = "none"
             /\ req'[c].out \in {"waiting", "ok"} =>
                   req[c].out \in {"waiting", "ok"} /\ req'[c].id = req[c].id
             /\ req'[c].out # "waiting"
             /\ req'[c].out = "ok" =>
                   req'[c].id \in 1..counter /\ req'[c].val # "nothing" /\ said[req'[c].id] = req'[c].val
  <2>0. /\ req[c] = [f \in ReqFields |-> req[c][f]]
        /\ req[c].out = "waiting" => req[c].id = pending /\ pending # 0
        /\ req[c].out = "ok" => req[c].id \in 1..counter /\ req[c].val # "nothing" /\ said[req[c].id] = req[c].val
    BY DEF PipeInv, PipeTypes, Heard
  <2>1. CASE Waiting(c)
    <3>1. req'[c] = [req[c] EXCEPT !.out = out, !.val = val]
      BY <1>1, <2>1
    <3>2. /\ req'[c] = [f \in ReqFields |-> req'[c][f]]
          /\ req'[c].out = out /\ req'[c].val = val /\ req'[c].id = req[c].id
      BY <2>0, <3>1 DEF ReqFields
    <3> QED BY <2>0, <2>1, <3>2 DEF Waiting
  <2>2. CASE ~Waiting(c)
    <3>1. req'[c] = req[c]
      BY <1>1, <2>2
    <3> QED BY <2>0, <2>2, <3>1 DEF Waiting
  <2> QED BY <2>1, <2>2
<1>3. Heard'
  BY <1>2 DEF Heard
<1> QED BY <1>1, <1>2, <1>3

\* The operation's request stays where it is, or ends without an answer.
Holds ==
    /\ req'["op"].out = "none" <=> req["op"].out = "none"
    /\ req'["op"].out \in {"waiting", "ok"} =>
          req["op"].out \in {"waiting", "ok"} /\ req'["op"].id = req["op"].id

\* A step that leaves the stage, or sees the exit of a live product.
LEMMA StageHolds ==
    ASSUME PipeInv, Grows, Holds, counter' = counter, checks' = checks, successes' = successes,
           stage' = stage \/ stage' = "CRASHED", probing' => probing, probing' => stage' \in {"live", "CRASHED"}
    PROVE  Counted' /\ Alone'
<1>1. counter \in 0..MaxRequests /\ checks \in Seq(Nat)
  BY DEF PipeInv, PipeTypes
<1>2. \A k \in 1..Len(checks) : ReadyAt(k) => ReadyAt(k)'
  BY <1>1, PipeAssumption DEF ReadyAt, Grows
<1>3. Fresh("op")' <=> Fresh("op")
  BY DEF Holds, Fresh
<1>4. CASE stage' = "CRASHED"
  BY <1>4 DEF Counted, Alone
<1>5. CASE stage' = stage
  <2>1. Counted'
    BY <1>1, <1>2, <1>3, <1>5 DEF Counted, PipeInv, Asked, Holds
  <2>2. Alone'
    <3>1. \A i \in 1..counter : said[i] # "nothing" => said'[i] = said[i]
      BY <1>1, PipeAssumption DEF Grows
    <3>2. stage = "STOPPED" => \E i \in 1..(counter - 1) : said'[i] = "clean" /\ said'[i + 1] = "stopped"
      <4> SUFFICES ASSUME stage = "STOPPED"
                   PROVE  \E i \in 1..(counter - 1) : said'[i] = "clean" /\ said'[i + 1] = "stopped"
        OBVIOUS
      <4>1. PICK i \in 1..(counter - 1) : said[i] = "clean" /\ said[i + 1] = "stopped"
        BY DEF Alone, PipeInv
      <4>2. i \in 1..counter /\ i + 1 \in 1..counter
        BY <1>1
      <4>3. said'[i] = said[i] /\ said'[i + 1] = said[i + 1]
        BY <3>1, <4>1, <4>2
      <4> QED BY <4>1, <4>3
    <3>3. stage = "stop" => /\ Fresh("op")' => counter > 0 /\ said'[counter] = "clean"
                            /\ req'["op"].out \in {"waiting", "ok"} => counter > 1 /\ said'[counter - 1] = "clean"
      BY <1>1, <1>3, <3>1, PipeAssumption DEF Alone, PipeInv, Holds
    <3> QED BY <1>5, <3>2, <3>3 DEF Alone, PipeInv, Holds
  <2> QED BY <2>1, <2>2
<1> QED BY <1>4, <1>5

\* A caller has taken what it was answered.
LEMMA Takes ==
    ASSUME PipeInv, NEW c \in Callers, Taken(c), UNCHANGED <<counter, pending, said>>
    PROVE  /\ req' = [d \in Callers |-> req'[d]]
           /\ \A d \in Callers : req'[d] = [f \in ReqFields |-> req'[d][f]]
           /\ Heard' /\ Fresh(c)'
           /\ \A d \in Callers : d # c => req'[d] = req[d]
<1>1. /\ req' = [d \in Callers |-> req'[d]] /\ req'[c] = NoRequest
      /\ \A d \in Callers : d # c => req'[d] = req[d]
  BY DEF Taken, PipeInv, PipeTypes
<1>2. req'[c] = [f \in ReqFields |-> req'[c][f]] /\ req'[c].out = "none"
  BY <1>1 DEF NoRequest, ReqFields
<1>3. \A d \in Callers : req'[d] = [f \in ReqFields |-> req'[d][f]]
  BY <1>1, <1>2 DEF PipeInv, PipeTypes
<1>4. Heard'
  BY <1>1, <1>2 DEF Heard, PipeInv
<1> QED BY <1>1, <1>2, <1>3, <1>4 DEF Fresh

\* Nothing but the engine's own state moves.
LEMMA SameGrows ==
    ASSUME PipeInv, UNCHANGED <<counter, said>>
    PROVE  Grows /\ \A k : checks' = checks => ReadyAt(k)' = ReadyAt(k)
BY DEF Grows, PipeInv, PipeTypes, ReadyAt

-----------------------------------------------------------------------------
(* The client's steps. *)

\* spawnClient makes the child and its client.
LEMMA SpawnKeeps == ASSUME PipeInv, Spawn PROVE PipeInv'
<1>1. PipeTypes' /\ AnsweredOnce' /\ Heard'
  BY DEF Spawn, client, PipeInv, PipeTypes, AnsweredOnce, Heard, Stages
<1>2. Counted' /\ Alone'
  BY DEF Spawn, client, PipeInv, Counted, Alone
<1> QED BY <1>1, <1>2 DEF PipeInv

\* The timer of a request.
LEMMA TimesOutKeeps == ASSUME PipeInv, TimesOut PROVE PipeInv'
<1>1. /\ UNCHANGED <<process, counter, engine>> /\ pending' = 0
      /\ req' = Settled("OUTCOME_UNKNOWN", "none")
  BY DEF TimesOut
<1>2. UNCHANGED <<said, todo, lines, counter, checks, successes, stage, probing>>
  BY <1>1 DEF process, engine
<1>3. /\ req' = [c \in Callers |-> req'[c]]
      /\ \A c \in Callers : req'[c] = [f \in ReqFields |-> req'[c][f]]
      /\ Heard' /\ Holds
  BY <1>1, <1>2, Settles DEF Holds, Callers
<1>4. PipeTypes'
  BY <1>1, <1>2, <1>3 DEF PipeInv, PipeTypes
<1>5. AnsweredOnce'
  BY <1>2 DEF PipeInv, AnsweredOnce
<1>6. Counted' /\ Alone'
  BY <1>2, <1>3, SameGrows, StageHolds DEF PipeInv, Alone
<1> QED BY <1>3, <1>4, <1>5, <1>6 DEF PipeInv

\* handleExit and onChildExit.
LEMMA SeesExitKeeps == ASSUME PipeInv, SeesExit PROVE PipeInv'
<1>1. /\ UNCHANGED <<process, counter, checks, successes, probing>> /\ pending' = 0
      /\ req' = Settled("OUTCOME_UNKNOWN", "none")
      /\ stage' = IF stage = "live" THEN "CRASHED" ELSE stage
  BY DEF SeesExit
<1>2. UNCHANGED <<said, todo, lines>>
  BY <1>1 DEF process
<1>3. /\ req' = [c \in Callers |-> req'[c]]
      /\ \A c \in Callers : req'[c] = [f \in ReqFields |-> req'[c][f]]
      /\ Heard' /\ Holds
  BY <1>1, <1>2, Settles DEF Holds, Callers
<1>4. PipeTypes'
  BY <1>1, <1>2, <1>3 DEF PipeInv, PipeTypes, Stages
<1>5. AnsweredOnce'
  BY <1>1, <1>2 DEF PipeInv, AnsweredOnce
<1>6. probing' => stage' \in {"live", "CRASHED"}
  BY <1>1 DEF PipeInv, Alone
<1>7. Counted' /\ Alone'
  BY <1>1, <1>2, <1>3, <1>6, SameGrows, StageHolds
<1> QED BY <1>3, <1>4, <1>5, <1>7 DEF PipeInv

\* A reply that succeeds is the one to the pending request.
LEMMA FeedKeeps == ASSUME PipeInv, Feed PROVE PipeInv'
<1> DEFINE l == Head(lines)
<1>1. /\ lines # <<>> /\ lines' = Tail(lines)
      /\ UNCHANGED <<alive, todo, said, bad, counter, exited, engine>>
  BY DEF Feed
<1>2. UNCHANGED <<said, todo, counter, checks, successes, stage, probing>>
  BY <1>1 DEF engine
<1>3. /\ lines' \in Seq(Printed) /\ DOMAIN lines' = 1..(Len(lines) - 1) /\ Len(lines) \in Nat
      /\ \A k \in DOMAIN lines' : k + 1 \in DOMAIN lines /\ lines'[k] = lines[k + 1]
      /\ 1 \in DOMAIN lines /\ l = lines[1]
  BY <1>1 DEF PipeInv, PipeTypes
<1>4. AnsweredOnce'
  <2>1. \A k \in DOMAIN lines' : lines'[k].kind = "reply" =>
            lines'[k].id \in 1..counter /\ lines'[k].val # "nothing" /\ said[lines'[k].id] = lines'[k].val
    BY <1>3 DEF PipeInv, AnsweredOnce
  <2> QED BY <1>2, <2>1 DEF PipeInv, AnsweredOnce
<1>5. l.kind = "reply" => l.id \in 1..counter /\ l.val # "nothing" /\ said[l.id] = l.val
  BY <1>3 DEF PipeInv, AnsweredOnce
<1>6. \/ pending' = pending /\ req' = req
      \/ pending' = 0 /\ req' = Settled("BODY_LIMIT", "none")
      \/ pending' = 0 /\ l.kind = "reply" /\ l.id = pending /\ req' = Settled("ok", l.val)
      \/ pending' = 0 /\ req' = Settled("error", "none")
      \/ pending' = 0 /\ req' = Settled("SCHEMA_INVALID", "none")
  BY DEF Feed, BreachSettles, IsReplyTo
<1>7. /\ req' = [c \in Callers |-> req'[c]]
      /\ \A c \in Callers : req'[c] = [f \in ReqFields |-> req'[c][f]]
      /\ Heard' /\ Holds /\ pending' \in 0..counter
  <2>1. CASE pending' = pending /\ req' = req
    BY <1>2, <2>1 DEF Holds, PipeInv, PipeTypes, Heard
  <2>2. CASE pending' = 0 /\ req' = Settled("BODY_LIMIT", "none")
    BY <1>2, <2>2, Settles DEF Holds, Callers, PipeInv, PipeTypes
  <2>3. CASE pending' = 0 /\ l.kind = "reply" /\ l.id = pending /\ req' = Settled("ok", l.val)
    <3> HIDE DEF l
    <3> QED BY <1>2, <1>5, <2>3, Settles DEF Holds, Callers, PipeInv, PipeTypes
  <2>4. CASE pending' = 0 /\ req' = Settled("error", "none")
    BY <1>2, <2>4, Settles DEF Holds, Callers, PipeInv, PipeTypes
  <2>5. CASE pending' = 0 /\ req' = Settled("SCHEMA_INVALID", "none")
    BY <1>2, <2>5, Settles DEF Holds, Callers, PipeInv, PipeTypes
  <2> QED BY <1>6, <2>1, <2>2, <2>3, <2>4, <2>5
<1>8. PipeTypes'
  BY <1>2, <1>3, <1>7 DEF PipeInv, PipeTypes
<1>9. Counted' /\ Alone'
  BY <1>2, <1>7, SameGrows, StageHolds DEF PipeInv, Alone
<1> QED BY <1>4, <1>7, <1>8, <1>9 DEF PipeInv

-----------------------------------------------------------------------------
(* The engine's steps. *)

\* A request of the handshake, or of the stop: nobody else asks in between.
LEMMA AskKeeps ==
    ASSUME PipeInv, NEW method \in {"describe", "configure", "start", "drain", "stop"}, Ask(method)
    PROVE  PipeInv'
<1>1. /\ stage = method /\ Fresh("op") /\ Request("op", method) /\ UNCHANGED <<lines, said, engine>>
      /\ method \in DOMAIN Answers /\ "op" \in Callers
  BY DEF Ask, Answers, Callers
<1>2. UNCHANGED <<said, lines, checks, successes, stage, probing>>
  BY <1>1 DEF engine
<1>3. /\ Grows
      /\ \/ /\ counter' = counter /\ req'["op"].out \in {"OUTCOME_UNKNOWN", "BUSY"}
         \/ /\ counter' = counter + 1 /\ req'["op"].out = "waiting" /\ req'["op"].id = counter + 1
  BY <1>1, <1>2, Requests
<1>4. PipeTypes' /\ AnsweredOnce' /\ Heard'
  <2>1. /\ counter' \in 0..MaxRequests /\ pending' \in 0..counter' /\ todo' \in Seq(Questions)
        /\ req' = [d \in Callers |-> req'[d]]
        /\ \A d \in Callers : req'[d] = [f \in ReqFields |-> req'[d][f]]
        /\ AnsweredOnce' /\ Heard'
    BY <1>1, <1>2, RequestSound
  <2> QED BY <1>2, <1>3, <2>1 DEF PipeTypes, PipeInv, Grows
<1>5. Counted'
  BY <1>1, <1>2 DEF Counted, PipeInv
<1>6. Alone'
  <2>1. counter \in 0..MaxRequests
    BY DEF PipeInv, PipeTypes
  <2>2. stage = "stop" => counter > 0 /\ said[counter] = "clean"
    BY <1>1 DEF Alone, PipeInv
  <2> QED BY <1>1, <1>2, <1>3, <2>1, <2>2 DEF Alone, PipeInv, Fresh
<1> QED BY <1>4, <1>5, <1>6 DEF PipeInv

\* A check of the gate is the last of its checks.
LEMMA CheckKeeps == ASSUME PipeInv, Check PROVE PipeInv'
<1>1. /\ stage = "gate" /\ Fresh("op") /\ Request("op", "health") /\ checks' = Append(checks, counter')
      /\ UNCHANGED <<lines, said, stage, successes, probing>>
      /\ "health" \in DOMAIN Answers /\ "op" \in Callers
  BY DEF Check, Answers, Callers
<1>2. /\ Grows
      /\ \/ /\ counter' = counter /\ req'["op"].out \in {"OUTCOME_UNKNOWN", "BUSY"}
         \/ /\ counter' = counter + 1 /\ req'["op"].out = "waiting" /\ req'["op"].id = counter + 1
  BY <1>1, Requests
<1>3. /\ counter' \in 0..MaxRequests /\ pending' \in 0..counter' /\ todo' \in Seq(Questions)
      /\ req' = [d \in Callers |-> req'[d]]
      /\ \A d \in Callers : req'[d] = [f \in ReqFields |-> req'[d][f]]
      /\ AnsweredOnce' /\ Heard'
  BY <1>1, RequestSound
<1>4. PipeTypes'
  BY <1>1, <1>2, <1>3, PipeAssumption DEF PipeTypes, PipeInv, Grows
<1>5. /\ counter \in 0..MaxRequests /\ checks \in Seq(Nat) /\ Len(checks) \in Nat /\ successes \in Nat
      /\ Len(checks') = Len(checks) + 1 /\ checks'[Len(checks) + 1] = counter'
      /\ \A k \in 1..Len(checks) : checks'[k] = checks[k]
  BY <1>1, <1>3, PipeAssumption DEF PipeInv, PipeTypes
<1>6. \A k \in 1..Len(checks) : ReadyAt(k) => ReadyAt(k)'
  BY <1>2, <1>5, PipeAssumption DEF ReadyAt, Grows
<1>7. Counted'
  <2>1. Asked = 0 /\ Asked' = 1 /\ successes <= Len(checks)
    BY <1>1, <1>2, <1>5 DEF Asked, Fresh, Counted, PipeInv
  <2>2. \A k \in 1..Len(checks) : Len(checks) - successes < k => ReadyAt(k)
    BY <1>1, <1>5, <2>1 DEF Counted, PipeInv
  <2>3. \A k \in 1..(Len(checks) + 1) :
            Len(checks) + 1 - 1 - successes < k /\ k <= Len(checks) + 1 - 1 => ReadyAt(k)'
    BY <1>5, <1>6, <2>2
  <2> QED BY <1>1, <1>2, <1>5, <2>1, <2>3 DEF Counted
<1>8. Alone'
  BY <1>1 DEF Alone, PipeInv
<1> QED BY <1>3, <1>4, <1>7, <1>8 DEF PipeInv

\* An answer of the handshake.
LEMMA HandshakeKeeps == ASSUME PipeInv, Handshake PROVE PipeInv'
<1>1. /\ stage \in {"describe", "configure", "start"}
      /\ stage' \in {"configure", "start", "gate", "FAILED"} /\ Taken("op") /\ "op" \in Callers
      /\ UNCHANGED <<process, counter, pending, successes, probing, checks>>
  BY DEF Handshake, Callers
<1>2. UNCHANGED <<todo, lines, said>>
  BY <1>1 DEF process
<1>3. /\ req' = [d \in Callers |-> req'[d]]
      /\ \A d \in Callers : req'[d] = [f \in ReqFields |-> req'[d][f]]
      /\ Heard' /\ Fresh("op")'
  BY <1>1, <1>2, Takes
<1>4. PipeTypes' /\ AnsweredOnce'
  BY <1>1, <1>2, <1>3 DEF PipeInv, PipeTypes, AnsweredOnce, Stages
<1>5. Counted'
  BY <1>1, <1>3 DEF PipeInv, Counted, Asked, Fresh
<1>6. Alone'
  BY <1>1 DEF PipeInv, Alone
<1> QED BY <1>3, <1>4, <1>5, <1>6 DEF PipeInv

\* awaitReadiness: a success counts the check it belongs to.
LEMMA GateKeeps == ASSUME PipeInv, Gate PROVE PipeInv'
<1>1. /\ stage = "gate" /\ req["op"].out \notin {"none", "waiting"} /\ Taken("op") /\ "op" \in Callers
      /\ UNCHANGED <<process, client, checks>>
      /\ \/ /\ Got("op", "ready") /\ successes' = successes + 1
            /\ \/ successes + 1 >= Need /\ stage' = "live"
               \/ stage' = stage /\ probing' = probing
         \/ successes' = 0 /\ stage' \in {"gate", "drain"} /\ probing' = probing
  BY DEF Gate, AfterFailure, Callers
<1>2. UNCHANGED <<todo, lines, said, counter, pending>>
  BY <1>1 DEF process, client
<1>3. /\ req' = [d \in Callers |-> req'[d]]
      /\ \A d \in Callers : req'[d] = [f \in ReqFields |-> req'[d][f]]
      /\ Heard' /\ Fresh("op")'
  BY <1>1, <1>2, Takes
<1>4. PipeTypes' /\ AnsweredOnce'
  BY <1>1, <1>2, <1>3 DEF PipeInv, PipeTypes, AnsweredOnce, Stages
<1>5. /\ Len(checks) \in Nat /\ successes \in Nat /\ Need \in Nat /\ counter \in Nat
      /\ Asked = 1 /\ Asked' = 0 /\ successes + 1 <= Len(checks)
      /\ \A k \in 1..Len(checks) : Len(checks) - 1 - successes < k /\ k <= Len(checks) - 1 => ReadyAt(k)
      /\ req["op"].out = "ok" => req["op"].id = checks[Len(checks)]
  BY <1>1, <1>3, PipeAssumption DEF PipeInv, PipeTypes, Counted, Asked, Fresh
<1>6. Got("op", "ready") => ReadyAt(Len(checks))
  BY <1>1, <1>5 DEF PipeInv, Heard, Got, ReadyAt
<1>7. \A k \in 1..Len(checks) : ReadyAt(k) => ReadyAt(k)'
  BY <1>1, <1>2 DEF ReadyAt
<1>8. Counted'
  <2>1. CASE Got("op", "ready") /\ successes' = successes + 1
    <3>1. \A k \in 1..Len(checks) : Len(checks) - (successes + 1) < k => ReadyAt(k)'
      BY <1>5, <1>6, <1>7, <2>1
    <3> QED BY <1>1, <1>3, <1>5, <2>1, <3>1 DEF Counted, Fresh
  <2>2. CASE successes' = 0 /\ stage' \in {"gate", "drain"}
    BY <1>1, <1>3, <1>5, <2>2 DEF Counted, Fresh
  <2> QED BY <1>1, <2>1, <2>2
<1>9. Alone'
  BY <1>1, <1>3 DEF PipeInv, Alone, Fresh
<1> QED BY <1>3, <1>4, <1>8, <1>9 DEF PipeInv

\* A stop begins.
LEMMA StageMoves == ASSUME PipeInv, GateTimesOut \/ StopBegins PROVE PipeInv'
<1>1. /\ stage \in {"gate", "live"} /\ Fresh("op") /\ stage' = "drain" /\ ~probing'
      /\ UNCHANGED <<process, client, req, successes, checks>>
  BY DEF GateTimesOut, StopBegins, PipeInv, Counted, Alone
<1>2. UNCHANGED <<todo, lines, said, counter, pending>>
  BY <1>1 DEF process, client
<1>3. PipeTypes' /\ AnsweredOnce' /\ Heard'
  BY <1>1, <1>2 DEF PipeInv, PipeTypes, AnsweredOnce, Heard, Stages
<1>4. Counted' /\ Alone'
  BY <1>1 DEF Counted, Alone, Fresh
<1> QED BY <1>3, <1>4 DEF PipeInv

\* A live probe.
LEMMA ProbeKeeps == ASSUME PipeInv, Probe PROVE PipeInv'
<1>1. /\ probing /\ Fresh("probe") /\ Request("probe", "health") /\ UNCHANGED <<lines, said, engine>>
      /\ "health" \in DOMAIN Answers /\ "probe" \in Callers /\ "op" \in Callers /\ "op" # "probe"
  BY DEF Probe, Answers, Callers
<1>2. UNCHANGED <<said, lines, checks, successes, stage, probing>>
  BY <1>1 DEF engine
<1>3. Grows /\ \A d \in Callers : d # "probe" => req'[d] = req[d]
  BY <1>1, <1>2, Requests
<1>4. PipeTypes' /\ AnsweredOnce' /\ Heard'
  <2>1. /\ counter' \in 0..MaxRequests /\ pending' \in 0..counter' /\ todo' \in Seq(Questions)
        /\ req' = [d \in Callers |-> req'[d]]
        /\ \A d \in Callers : req'[d] = [f \in ReqFields |-> req'[d][f]]
        /\ AnsweredOnce' /\ Heard'
    BY <1>1, <1>2, RequestSound
  <2> QED BY <1>2, <1>3, <2>1 DEF PipeTypes, PipeInv, Grows
<1>5. stage \in {"live", "CRASHED"} /\ req'["op"] = req["op"]
  BY <1>1, <1>3 DEF Alone, PipeInv
<1>6. counter \in 0..MaxRequests /\ \A k \in 1..Len(checks) : ReadyAt(k) => ReadyAt(k)'
  BY <1>2, <1>3, PipeAssumption DEF ReadyAt, Grows, PipeInv, PipeTypes
<1>7. Counted' /\ Alone'
  BY <1>2, <1>5, <1>6 DEF Counted, Alone, PipeInv, Fresh
<1> QED BY <1>4, <1>7 DEF PipeInv

\* The answer of a live probe.
LEMMA ProbedKeeps == ASSUME PipeInv, Probed PROVE PipeInv'
<1>1. /\ Taken("probe") /\ "probe" \in Callers /\ "op" \in Callers /\ "op" # "probe"
      /\ probing' => probing
      /\ UNCHANGED <<process, client, stage, successes, checks>>
  BY DEF Probed, Callers
<1>2. UNCHANGED <<todo, lines, said, counter, pending>>
  BY <1>1 DEF process, client
<1>3. /\ req' = [d \in Callers |-> req'[d]]
      /\ \A d \in Callers : req'[d] = [f \in ReqFields |-> req'[d][f]]
      /\ Heard' /\ \A d \in Callers : d # "probe" => req'[d] = req[d]
  BY <1>1, <1>2, Takes
<1>4. PipeTypes' /\ AnsweredOnce'
  BY <1>1, <1>2, <1>3 DEF PipeInv, PipeTypes, AnsweredOnce
<1>5. Holds /\ Grows
  BY <1>1, <1>2, <1>3, SameGrows DEF Holds
<1>6. Counted' /\ Alone'
  BY <1>1, <1>2, <1>5, StageHolds DEF PipeInv, Alone
<1> QED BY <1>3, <1>4, <1>6 DEF PipeInv

\* stopChild: the drain and the stop were asked one after the other.
LEMMA StopChildKeeps == ASSUME PipeInv, StopChild PROVE PipeInv'
<1>1. /\ stage \in {"drain", "stop"} /\ Taken("op") /\ "op" \in Callers
      /\ UNCHANGED <<process, counter, pending, successes, probing, checks>>
      /\ \/ stage = "drain" /\ Got("op", "clean") /\ stage' = "stop"
         \/ stage = "stop" /\ Got("op", "stopped") /\ stage' = "STOPPED"
         \/ stage' = "QUARANTINED"
  BY DEF StopChild, DrainOk, Callers
<1>2. UNCHANGED <<todo, lines, said>>
  BY <1>1 DEF process
<1>3. /\ req' = [d \in Callers |-> req'[d]]
      /\ \A d \in Callers : req'[d] = [f \in ReqFields |-> req'[d][f]]
      /\ Heard' /\ Fresh("op")'
  BY <1>1, <1>2, Takes
<1>4. PipeTypes' /\ AnsweredOnce'
  BY <1>1, <1>2, <1>3 DEF PipeInv, PipeTypes, AnsweredOnce, Stages
<1>5. Counted'
  BY <1>1 DEF Counted
<1>6. Alone'
  <2>1. counter \in Nat /\ ~probing
    BY <1>1 DEF PipeInv, PipeTypes, Alone
  <2>2. req["op"].out = "ok" => /\ req["op"].id = counter /\ counter > 0 /\ said[counter] = req["op"].val
                                /\ stage = "stop" => counter > 1 /\ said[counter - 1] = "clean"
    BY <1>1, <2>1 DEF PipeInv, Alone, Heard
  <2>3. CASE stage = "drain" /\ Got("op", "clean") /\ stage' = "stop"
    BY <1>1, <1>2, <1>3, <2>1, <2>2, <2>3 DEF Alone, Got, Fresh
  <2>4. CASE stage = "stop" /\ Got("op", "stopped") /\ stage' = "STOPPED"
    <3>1. counter - 1 \in 1..(counter - 1) /\ said[counter - 1] = "clean" /\ said[(counter - 1) + 1] = "stopped"
      BY <2>1, <2>2, <2>4 DEF Got
    <3> QED BY <1>1, <1>2, <2>1, <2>4, <3>1 DEF Alone
  <2>5. CASE stage' = "QUARANTINED"
    BY <1>1, <2>1, <2>5 DEF Alone
  <2> QED BY <1>1, <2>3, <2>4, <2>5
<1> QED BY <1>3, <1>4, <1>5, <1>6 DEF PipeInv

-----------------------------------------------------------------------------
(* The adapter's steps. *)

\* The adapter answers the oldest question, once.
LEMMA AnswerKeeps == ASSUME PipeInv, Answer PROVE PipeInv'
<1> DEFINE q == Head(todo)
<1>1. /\ todo # <<>> /\ todo' = Tail(todo) /\ UNCHANGED <<client, req, engine>>
  BY DEF Answer
<1>2. UNCHANGED <<counter, pending, checks, successes, stage, probing>>
  BY <1>1 DEF client, engine
<1>3. /\ todo' \in Seq(Questions) /\ DOMAIN todo' = 1..(Len(todo) - 1) /\ Len(todo) \in Nat
      /\ \A k \in DOMAIN todo' : k + 1 \in DOMAIN todo /\ todo'[k] = todo[k + 1]
      /\ 1 \in DOMAIN todo /\ q = todo[1] /\ q \in Questions
  BY <1>1 DEF PipeInv, PipeTypes
<1>4. q.id \in 1..MaxRequests /\ q.method \in DOMAIN Answers
  BY <1>3 DEF Questions
<1>5. PICK val \in Answers[q.method] \union {"error"} :
          /\ lines' = Append(lines, [kind |-> "reply", id |-> q.id, val |-> val])
          /\ said' = [said EXCEPT ![q.id] = val]
  BY DEF Answer
<1>6. val # "nothing" /\ val \in Values
  <2>1. q.method \in {"describe", "configure", "start", "health", "drain", "stop"}
    BY <1>4 DEF Answers
  <2> QED BY <1>5, <2>1 DEF Answers, Values
<1> HIDE DEF q
<1>7. /\ counter \in 0..MaxRequests /\ said[q.id] = "nothing" /\ q.id <= counter
      /\ said' = [i \in 1..MaxRequests |-> said'[i]] /\ said'[q.id] = val
      /\ \A i \in 1..MaxRequests : i # q.id => said'[i] = said[i]
  BY <1>3, <1>4, <1>5 DEF PipeInv, PipeTypes, AnsweredOnce
<1>8. Grows
  BY <1>2, <1>7, PipeAssumption DEF Grows
<1>9. /\ lines' \in Seq(Printed) /\ Len(lines) \in Nat /\ DOMAIN lines' = 1..(Len(lines) + 1)
      /\ lines'[Len(lines) + 1] = [kind |-> "reply", id |-> q.id, val |-> val]
      /\ \A k \in DOMAIN lines : lines'[k] = lines[k]
      /\ DOMAIN lines = 1..Len(lines)
  <2>1. [kind |-> "reply", id |-> q.id, val |-> val] \in Printed
    BY <1>4, <1>6, PipeAssumption DEF Printed, Kinds
  <2> QED BY <1>5, <2>1 DEF PipeInv, PipeTypes
<1>10. AnsweredOnce'
  <2>1. \A i \in 1..MaxRequests : i > counter => said'[i] = "nothing"
    BY <1>4, <1>7, PipeAssumption DEF PipeInv, AnsweredOnce
  <2>2. \A k \in DOMAIN todo' : todo'[k].id # q.id /\ todo'[k].id \in 1..MaxRequests
    <3> TAKE k \in DOMAIN todo'
    <3>1. k + 1 \in DOMAIN todo /\ k + 1 # 1 /\ todo'[k] = todo[k + 1] /\ todo'[k] \in Questions
      BY <1>3
    <3>2. todo'[k].id \in 1..MaxRequests
      BY <3>1 DEF Questions
    <3> QED BY <1>3, <3>1, <3>2 DEF PipeInv, AnsweredOnce
  <2>3. \A k \in DOMAIN todo' : todo'[k].id <= counter /\ said'[todo'[k].id] = "nothing"
    BY <1>3, <1>7, <2>2 DEF PipeInv, AnsweredOnce
  <2>4. \A j, k \in DOMAIN todo' : todo'[j].id = todo'[k].id => j = k
    BY <1>3 DEF PipeInv, AnsweredOnce
  <2>5. \A k \in DOMAIN lines' : lines'[k].kind = "reply" =>
            lines'[k].id \in 1..counter /\ lines'[k].val # "nothing" /\ said'[lines'[k].id] = lines'[k].val
    <3> TAKE k \in DOMAIN lines'
    <3>1. CASE k \in DOMAIN lines
      BY <1>7, <1>9, <3>1, PipeAssumption DEF PipeInv, AnsweredOnce
    <3>2. CASE k = Len(lines) + 1
      BY <1>4, <1>6, <1>7, <1>9, <3>2, PipeAssumption
    <3> QED BY <1>9, <3>1, <3>2
  <2> QED BY <1>2, <2>1, <2>3, <2>4, <2>5 DEF AnsweredOnce
<1>11. Heard'
  BY <1>1, <1>2, <1>7, PipeAssumption DEF PipeInv, Heard
<1>12. PipeTypes'
  BY <1>1, <1>2, <1>3, <1>7, <1>9 DEF PipeInv, PipeTypes
<1>13. Counted' /\ Alone'
  BY <1>1, <1>2, <1>8, StageHolds DEF PipeInv, Alone, Holds
<1> QED BY <1>10, <1>11, <1>12, <1>13 DEF PipeInv

\* A line that is no reply, and an exit.
LEMMA AdapterKeeps == ASSUME PipeInv, BadLine \/ Exits PROVE PipeInv'
<1>1. UNCHANGED <<todo, said, client, req, engine>>
  BY DEF BadLine, Exits
<1>2. UNCHANGED <<counter, pending, checks, successes, stage, probing>>
  BY <1>1 DEF client, engine
<1>3. /\ lines' \in Seq(Printed)
      /\ \A k \in DOMAIN lines' : (k \in DOMAIN lines /\ lines'[k] = lines[k]) \/ lines'[k].kind # "reply"
  <2>1. CASE BadLine
    <3>1. PICK kind \in {"breach", "invalid"} : lines' = Append(lines, [kind |-> kind, id |-> 0, val |-> "none"])
      BY <2>1 DEF BadLine
    <3>2. [kind |-> kind, id |-> 0, val |-> "none"] \in Printed /\ lines \in Seq(Printed)
      BY <3>1 DEF Printed, Kinds, Values, PipeInv, PipeTypes
    <3> QED BY <3>1, <3>2
  <2>2. CASE Exits
    BY <2>2 DEF Exits, PipeInv, PipeTypes
  <2> QED BY <2>1, <2>2
<1>4. AnsweredOnce'
  BY <1>1, <1>2, <1>3 DEF PipeInv, AnsweredOnce
<1>5. PipeTypes' /\ Heard'
  BY <1>1, <1>2, <1>3 DEF PipeInv, PipeTypes, Heard
<1>6. Counted' /\ Alone'
  BY <1>1, <1>2, SameGrows, StageHolds DEF PipeInv, Alone, Holds
<1> QED BY <1>4, <1>5, <1>6 DEF PipeInv

-----------------------------------------------------------------------------
(* The run of an adapter. *)

\* Every step keeps the invariant.
LEMMA PipeSteps == PipeInv /\ [PipeNext]_pipeVars => PipeInv'
<1> SUFFICES ASSUME PipeInv, [PipeNext]_pipeVars PROVE PipeInv'
  OBVIOUS
<1>1. CASE UNCHANGED pipeVars
  BY <1>1 DEF pipeVars, process, client, engine, PipeInv, PipeTypes, AnsweredOnce, Heard, Counted, Alone,
              ReadyAt, Asked, Fresh
<1>2. CASE PipeOwn
  BY <1>2, AskKeeps, CheckKeeps, HandshakeKeeps, GateKeeps, ProbedKeeps, StopChildKeeps DEF PipeOwn
<1> QED
  BY <1>1, <1>2, SpawnKeeps, FeedKeeps, TimesOutKeeps, SeesExitKeeps, StageMoves, ProbeKeeps, AnswerKeeps,
     AdapterKeeps DEF PipeNext

\* What the invariant says of the claims.
LEMMA PipeClaims == PipeInv => ClaimsAreSaid /\ AnswerMine
<1> SUFFICES ASSUME PipeInv PROVE ClaimsAreSaid /\ AnswerMine
  OBVIOUS
<1>1. AnswerMine
  BY DEF PipeInv, Heard, AnswerMine
<1>2. ASSUME stage = "live"
      PROVE  /\ Len(checks) >= Need
             /\ \A i \in 0..(Need - 1) : checks[Len(checks) - i] > 0 /\ said[checks[Len(checks) - i]] = "ready"
  <2>1. Len(checks) \in Nat /\ Need \in Nat /\ counter \in Nat
    BY PipeAssumption DEF PipeInv, PipeTypes
  <2>2. Need <= Len(checks) /\ \A k \in 1..Len(checks) : Len(checks) - Need < k => ReadyAt(k)
    BY <1>2 DEF PipeInv, Counted
  <2>3. \A i \in 0..(Need - 1) : Len(checks) - i \in 1..Len(checks) /\ Len(checks) - Need < Len(checks) - i
    BY <2>1, <2>2
  <2> QED BY <2>1, <2>2, <2>3 DEF ReadyAt
<1>3. ClaimsAreSaid
  BY <1>2 DEF PipeInv, Alone, ClaimsAreSaid
<1> QED BY <1>1, <1>3

\* adapter-client.ts and engine.ts, whatever the adapter answers, late or not
\* at all, and whenever it exits: nothing is claimed that it did not say.
THEOREM ClaimsWhatWasSaid == PipeSpec => []ClaimsAreSaid
<1> QED BY PipeBegins, PipeSteps, PipeClaims, PTL DEF PipeSpec

\* adapter-client.ts: the late reply to a request that timed out is never
\* taken for the answer to the next one.
THEOREM AnswersAreMine == PipeSpec => []AnswerMine
<1> QED BY PipeBegins, PipeSteps, PipeClaims, PTL DEF PipeSpec

-----------------------------------------------------------------------------
(* The readers of the event log. *)

\* The readers are those of createJsonlWatcher.
Watchers == \A r \in Readers : Kind[r] = "watcher"

HalfLine == Nat \X Nat
TailRead == [at : {"idle", "stat", "sized", "open", "opened", "read"}, size : Nat, length : Nat,
             file : Nat, total : Nat, data : Seq(HalfLine)]

TailTyped ==
    /\ logs \in Seq(Nat) /\ logs # <<>>
    /\ offset \in [Readers -> Nat] /\ buffer \in [Readers -> Seq(HalfLine)]
    /\ reads \in [Readers -> [Slots -> TailRead]]
    /\ queued \in [Readers -> BOOLEAN] /\ seen \in [Readers -> Seq(HalfLine)]

\* A watcher has one read at a time.
OneRead == \A r \in Readers, i, j \in Slots : ~At(r, i, "idle") /\ ~At(r, j, "idle") => i = j

\* Lines of the files up to f, file by file.
Upto(s, f) ==
    /\ \A k \in DOMAIN s : s[k][1] <= f
    /\ \A i, j \in DOMAIN s : i < j => s[i][1] <= s[j][1]

\* The first lines of the first file, and its halves of lines from b on.
FirstLines(n) == [k \in 1..n |-> <<1, k>>]
UnitsFrom(b, m) == [k \in 1..m |-> <<1, b + k>>]

\* A watcher goes from file to file.  In the first it has delivered the lines
\* that end before its offset, and its buffer has the half that follows.
Stood(o, b, s) ==
    /\ LineEnds(b) = {} /\ Upto(s, Len(logs))
    /\ Len(logs) = 1 => /\ o <= logs[1] /\ s = FirstLines(o \div 2)
                        /\ b = UnitsFrom(2 * (o \div 2), o % 2)

\* What a read under way has read, and is to read.
ReadStood(x, o, s) ==
    /\ x.at \in {"opened", "read"} => x.file \in 1..Len(logs) /\ Upto(s, x.file)
    /\ x.at = "read" => \A k \in DOMAIN x.data : x.data[k] = Hole \/ x.data[k][1] = x.file
    /\ Len(logs) = 1 =>
          /\ x.at \in {"sized", "open", "opened", "read"} => o <= x.size /\ x.size <= logs[1]
          /\ x.at \in {"open", "opened", "read"} => x.size = o + x.length
          /\ x.at = "read" => x.data = UnitsFrom(o, x.length)

TailInv ==
    /\ TailTyped /\ OneRead
    /\ \A r \in Readers : /\ Stood(offset[r], buffer[r], seen[r])
                          /\ \A i \in Slots : ReadStood(reads[r][i], offset[r], seen[r])

-----------------------------------------------------------------------------
(* The event log: enumerations. *)

\* Smaller elements have smaller ranks.
LEMMA Ranks ==
    ASSUME NEW S \in SUBSET Nat, IsFiniteSet(S)
    PROVE  /\ \A i \in S : Rank(i, S) \in 1..Cardinality(S)
           /\ \A i, j \in S : i <= j => Rank(i, S) <= Rank(j, S)
           /\ \A i, j \in S : Rank(i, S) = Rank(j, S) => i = j
<1> DEFINE Below(i) == {j \in S : j <= i}
<1>1. \A i : Below(i) \in SUBSET S /\ IsFiniteSet(Below(i)) /\ Cardinality(Below(i)) \in Nat
             /\ Cardinality(Below(i)) <= Cardinality(S)
  BY FS_Subset, FS_CardinalityType
<1>2. \A i, j \in S : i <= j => Below(i) \in SUBSET Below(j)
  <2> SUFFICES ASSUME NEW i \in S, NEW j \in S, i <= j, NEW k \in S, k <= i PROVE k <= j
    OBVIOUS
  <2> QED OBVIOUS
<1>3. \A i, j \in S : i <= j => Cardinality(Below(i)) <= Cardinality(Below(j))
  BY <1>1, <1>2, FS_Subset
<1>4. \A i \in S : Cardinality(Below(i)) # 0
  <2> TAKE i \in S
  <2>1. i \in Below(i)
    OBVIOUS
  <2> QED BY <1>1, <2>1, FS_EmptySet
<1>5. \A i, j \in S : i <= j /\ Cardinality(Below(i)) = Cardinality(Below(j)) => i = j
  <2> SUFFICES ASSUME NEW i \in S, NEW j \in S, i <= j, Cardinality(Below(i)) = Cardinality(Below(j))
               PROVE  i = j
    OBVIOUS
  <2>1. Below(j) = Below(i)
    BY <1>1, <1>2, FS_Subset
  <2>2. j \in Below(j)
    OBVIOUS
  <2> QED BY <2>1, <2>2
<1>6. \A i : Rank(i, S) = Cardinality(Below(i))
  BY DEF Rank
<1>7. Cardinality(S) \in Nat
  BY FS_CardinalityType
<1> HIDE DEF Below
<1>8. \A i \in S : Rank(i, S) \in 1..Cardinality(S)
  BY <1>1, <1>4, <1>6, <1>7
<1>9. \A i, j \in S : Rank(i, S) = Rank(j, S) => i = j
  <2> SUFFICES ASSUME NEW i \in S, NEW j \in S, Rank(i, S) = Rank(j, S) PROVE i = j
    OBVIOUS
  <2>1. i <= j \/ j <= i
    OBVIOUS
  <2> QED BY <1>5, <1>6, <2>1
<1> QED BY <1>3, <1>6, <1>8, <1>9

\* Every rank is taken.
LEMMA RanksOnto ==
    ASSUME NEW S \in SUBSET Nat, IsFiniteSet(S)
    PROVE  \A n \in 1..Cardinality(S) : \E i \in S : Rank(i, S) = n
<1> DEFINE n == Cardinality(S)
           f == [i \in S |-> Rank(i, S)]
<1>1. n \in Nat /\ IsFiniteSet(1..n) /\ Cardinality(1..n) = n
  BY FS_CardinalityType, FS_Interval
<1>2. f \in Injection(S, 1..n)
  BY Ranks DEF Injection, IsInjective
<1>3. f \in Surjection(S, 1..n)
  BY <1>1, <1>2, FS_Injection
<1> QED BY <1>3 DEF Surjection

\* The set in ascending order.
LEMMA AscendingIs ==
    ASSUME NEW S \in SUBSET Nat, IsFiniteSet(S)
    PROVE  /\ Cardinality(S) \in Nat /\ DOMAIN Ascending(S) = 1..Cardinality(S)
           /\ \A n \in 1..Cardinality(S) : Ascending(S)[n] \in S /\ Rank(Ascending(S)[n], S) = n
<1>1. Cardinality(S) \in Nat
  BY FS_CardinalityType
<1>2. DOMAIN Ascending(S) = 1..Cardinality(S)
  BY DEF Ascending
<1>3. ASSUME NEW n \in 1..Cardinality(S) PROVE Ascending(S)[n] \in S /\ Rank(Ascending(S)[n], S) = n
  <2>1. Ascending(S)[n] = CHOOSE i \in S : Rank(i, S) = n
    BY DEF Ascending
  <2>2. \E i \in S : Rank(i, S) = n
    BY RanksOnto
  <2> QED BY <2>1, <2>2
<1> QED BY <1>1, <1>2, <1>3

\* A set of numbers that is not empty has a largest one.
LEMMA LargestIs ==
    ASSUME NEW S \in SUBSET Nat, IsFiniteSet(S), S # {}
    PROVE  Max(S) \in S /\ \A j \in S : j <= Max(S)
<1> DEFINE n == Cardinality(S)
<1>1. n \in Nat /\ n # 0
  BY FS_CardinalityType, FS_EmptySet
<1>2. PICK i \in S : Rank(i, S) = n
  <2>1. n \in 1..n
    BY <1>1
  <2> QED BY <2>1, RanksOnto
<1>3. {j \in S : j <= i} = S
  <2>1. {j \in S : j <= i} \in SUBSET S
    OBVIOUS
  <2>2. Cardinality({j \in S : j <= i}) = Cardinality(S)
    BY <1>2 DEF Rank
  <2> QED BY <2>1, <2>2, FS_Subset
<1>4. i \in S /\ \A j \in S : i >= j
  <2> SUFFICES ASSUME NEW j \in S PROVE i >= j
    OBVIOUS
  <2>1. j <= i
    BY <1>3
  <2> QED BY <2>1
<1>5. Max(S) = CHOOSE x \in S : \A y \in S : x >= y
  BY DEF Max
<1>6. Max(S) \in S /\ \A j \in S : Max(S) >= j
  BY <1>4, <1>5
<1> QED
  <2> SUFFICES ASSUME NEW j \in S PROVE j <= Max(S)
    BY <1>6
  <2> QED BY <1>6

-----------------------------------------------------------------------------
(* The event log: the lines in what was read. *)

\* The ends of lines in what was read are finitely many places of it.
LEMMA EndsAre ==
    ASSUME NEW u \in Seq(HalfLine)
    PROVE  /\ LineEnds(u) \in SUBSET (1..Len(u)) /\ WholeLines(u) \in SUBSET LineEnds(u)
           /\ LineEnds(u) \in SUBSET Nat /\ IsFiniteSet(LineEnds(u))
           /\ WholeLines(u) \in SUBSET Nat /\ IsFiniteSet(WholeLines(u))
<1>1. LineEnds(u) \in SUBSET (1..Len(u)) /\ WholeLines(u) \in SUBSET LineEnds(u)
  BY DEF LineEnds, WholeLines
<1>2. Len(u) \in Nat /\ IsFiniteSet(1..Len(u)) /\ 1..Len(u) \in SUBSET Nat
  <2>1. PICK n \in Nat : Len(u) = n
    OBVIOUS
  <2>2. IsFiniteSet(1..n)
    BY <2>1, FS_Interval
  <2> QED BY <2>1, <2>2
<1>3. IsFiniteSet(LineEnds(u))
  BY <1>1, <1>2, FS_Subset
<1> QED BY <1>1, <1>2, <1>3, FS_Subset

\* No line ends in what is left over.
LEMMA RestIs ==
    ASSUME NEW u \in Seq(HalfLine)
    PROVE  Rest(u) \in Seq(HalfLine) /\ LineEnds(Rest(u)) = {}
<1> DEFINE S == LineEnds(u) \union {0}
<1>1. S \in SUBSET Nat /\ S \in SUBSET (0..Len(u)) /\ IsFiniteSet(S) /\ S # {}
  <2>1. IsFiniteSet(S)
    BY EndsAre, FS_AddElement
  <2>2. S \in SUBSET Nat /\ S \in SUBSET (0..Len(u))
    BY EndsAre
  <2> QED BY <2>1, <2>2
<1> HIDE DEF S
<1>2. PICK m \in Nat : Max(S) = m /\ m \in S /\ (\A j \in S : j <= m) /\ m <= Len(u)
  <2>1. Max(S) \in S /\ \A j \in S : j <= Max(S)
    BY <1>1, LargestIs
  <2>2. Max(S) \in Nat /\ Max(S) <= Len(u)
    <3>1. Max(S) \in 0..Len(u)
      BY <1>1, <2>1, Zenon
    <3>2. \A x, y : x \in 0..y => x \in Nat /\ x <= y
      OBVIOUS
    <3> QED BY <3>1, <3>2, Zenon
  <2> QED BY <2>1, <2>2, Zenon
<1>3. PICK n \in Nat : Len(u) = n /\ m <= n
  BY <1>2
<1>4. Rest(u) = SubSeq(u, m + 1, n)
  BY <1>2, <1>3 DEF Rest, S
<1>5. Rest(u) \in Seq(HalfLine) /\ DOMAIN Rest(u) = 1..(n - m) /\ \A k \in 1..(n - m) : Rest(u)[k] = u[m + k]
  BY <1>2, <1>3, <1>4
<1>6. ASSUME NEW k \in LineEnds(Rest(u)) PROVE FALSE
  <2>1. k \in 1..(n - m) /\ u[m + k] # Hole /\ u[m + k][2] % 2 = 0
    BY <1>5, <1>6 DEF LineEnds
  <2>2. m + k \in DOMAIN u
    BY <1>2, <1>3, <2>1
  <2>3. m + k \in S
    BY <2>1, <2>2 DEF LineEnds, S
  <2> QED BY <1>2, <2>1, <2>3
<1> QED BY <1>5, <1>6

\* The lines delivered are the good ones, each with the file of its end.
LEMMA LinesAre ==
    ASSUME NEW u \in Seq(HalfLine)
    PROVE  /\ Lines(u) \in Seq(HalfLine)
           /\ \A n \in DOMAIN Lines(u) : \E k \in WholeLines(u) : Lines(u)[n][1] = u[k][1]
<1> DEFINE G == WholeLines(u)
           q == Ascending(G)
<1>1. PICK n \in Nat : Cardinality(G) = n /\ DOMAIN q = 1..n /\ \A k \in 1..n : q[k] \in G
  BY EndsAre, AscendingIs
<1>2. \A k \in G : u[k] \in HalfLine
  BY EndsAre
<1>3. Lines(u) = [k \in 1..n |-> <<u[q[k]][1], u[q[k]][2] \div 2>>]
  BY <1>1 DEF Lines
<1> HIDE DEF G, q
<1>4. ASSUME NEW k \in 1..n
      PROVE  <<u[q[k]][1], u[q[k]][2] \div 2>> \in HalfLine
  <2>1. u[q[k]] \in HalfLine
    BY <1>1, <1>2
  <2>2. \A h \in Nat : h \div 2 \in Nat
    OBVIOUS
  <2> QED BY <2>1, <2>2 DEF HalfLine
<1>5. DOMAIN Lines(u) = 1..n /\ \A k \in 1..n : Lines(u)[k] \in HalfLine /\ Lines(u)[k][1] = u[q[k]][1]
  BY <1>3, <1>4
<1>6. Lines(u) \in Seq(HalfLine)
  BY <1>3, <1>4
<1> QED BY <1>1, <1>5, <1>6 DEF G

\* What a read delivers is of the file it read, if no line ended before.
LEMMA LinesForward ==
    ASSUME NEW b \in Seq(HalfLine), NEW d \in Seq(HalfLine), LineEnds(b) = {}, NEW f,
           \A k \in DOMAIN d : d[k] = Hole \/ d[k][1] = f
    PROVE  \A n \in DOMAIN Lines(b \o d) : Lines(b \o d)[n][1] = f
<1> DEFINE u == b \o d
<1>1. u \in Seq(HalfLine)
  OBVIOUS
<1>2. ASSUME NEW k \in LineEnds(u) PROVE u[k][1] = f
  <2>1. k \in 1..Len(u) /\ u[k] # Hole /\ u[k][2] % 2 = 0
    BY <1>2 DEF LineEnds
  <2>2. Len(u) = Len(b) + Len(d) /\ Len(b) \in Nat /\ Len(d) \in Nat
    OBVIOUS
  <2>3. CASE k <= Len(b)
    <3>1. k \in DOMAIN b /\ u[k] = b[k]
      BY <2>1, <2>2, <2>3
    <3>2. k \in LineEnds(b)
      BY <2>1, <3>1 DEF LineEnds
    <3> QED BY <3>2
  <2>4. CASE k > Len(b)
    <3>1. k - Len(b) \in DOMAIN d /\ u[k] = d[k - Len(b)]
      BY <2>1, <2>2, <2>4
    <3> QED BY <2>1, <3>1
  <2> QED BY <2>1, <2>2, <2>3, <2>4
<1> HIDE DEF u
<1>3. \A n \in DOMAIN Lines(u) : \E k \in WholeLines(u) : Lines(u)[n][1] = u[k][1]
  BY <1>1, LinesAre
<1>4. WholeLines(u) \in SUBSET LineEnds(u)
  BY <1>1, EndsAre
<1>5. \A n \in DOMAIN Lines(u) : Lines(u)[n][1] = f
  BY <1>2, <1>3, <1>4
<1> QED BY <1>5 DEF u

-----------------------------------------------------------------------------
(* The event log: the first file. *)

\* Halves of numbers.
LEMMA TailHalves ==
    /\ \A n \in Nat : n \div 2 \in Nat /\ n % 2 \in {0, 1} /\ n = 2 * (n \div 2) + (n % 2)
    /\ \A c, n \in Nat : (2 * c + n) \div 2 = c + (n \div 2) /\ (2 * c + n) % 2 = n % 2
  OBVIOUS

Twos(n) == {2 * j : j \in 1..n}

\* The first n even numbers.
LEMMA TwosCount ==
    ASSUME NEW n \in Nat PROVE IsFiniteSet(Twos(n)) /\ Cardinality(Twos(n)) = n
<1> DEFINE f == [j \in 1..n |-> 2 * j]
<1>1. f \in Bijection(1..n, Twos(n))
  <2>1. f \in [1..n -> Twos(n)]
    BY DEF Twos
  <2>2. f \in Injection(1..n, Twos(n))
    BY <2>1 DEF Injection, IsInjective
  <2>3. f \in Surjection(1..n, Twos(n))
    BY <2>1 DEF Surjection, Twos
  <2> QED BY <2>2, <2>3 DEF Bijection
<1>2. IsFiniteSet(1..n) /\ Cardinality(1..n) = n
  BY FS_Interval
<1> QED BY <1>1, <1>2, FS_Bijection DEF ExistsBijection

\* In ascending order 2 * n is the n-th of them.
LEMMA TwosAscend ==
    ASSUME NEW h \in Nat
    PROVE  Ascending(Twos(h)) = [n \in 1..h |-> 2 * n]
<1> DEFINE S == Twos(h)
<1>1. S \in SUBSET Nat /\ IsFiniteSet(S) /\ Cardinality(S) = h
  BY TwosCount DEF Twos
<1>2. ASSUME NEW n \in 1..h PROVE 2 * n \in S /\ Rank(2 * n, S) = n
  <2>1. {j \in S : j <= 2 * n} = Twos(n)
    <3>1. ASSUME NEW j \in 1..h, 2 * j <= 2 * n PROVE j \in 1..n
      BY <3>1
    <3>2. ASSUME NEW j \in 1..n PROVE j \in 1..h /\ 2 * j <= 2 * n
      OBVIOUS
    <3> QED BY <3>1, <3>2 DEF Twos
  <2>2. n \in Nat
    OBVIOUS
  <2> QED BY <2>1, <2>2, TwosCount DEF Rank, Twos
<1> HIDE DEF S
<1>3. Ascending(S) = [n \in 1..h |-> CHOOSE i \in S : Rank(i, S) = n]
  BY <1>1 DEF Ascending
<1>4. ASSUME NEW n \in 1..h PROVE (CHOOSE i \in S : Rank(i, S) = n) = 2 * n
  <2>1. (CHOOSE i \in S : Rank(i, S) = n) \in S /\ Rank((CHOOSE i \in S : Rank(i, S) = n), S) = n
    BY <1>2
  <2> QED BY <1>1, <1>2, <2>1, Ranks
<1>5. Ascending(S) = [n \in 1..h |-> 2 * n]
  BY <1>3, <1>4
<1> QED BY <1>5 DEF S

\* A stretch of the first file is a sequence of halves of lines.
LEMMA UnitsAre ==
    ASSUME NEW b \in Nat, NEW m \in Nat
    PROVE  /\ UnitsFrom(b, m) \in Seq(HalfLine) /\ Len(UnitsFrom(b, m)) = m /\ DOMAIN UnitsFrom(b, m) = 1..m
           /\ \A k \in 1..m : UnitsFrom(b, m)[k] = <<1, b + k>>
<1>1. \A k \in 1..m : <<1, b + k>> \in HalfLine
  BY DEF HalfLine
<1> QED BY <1>1 DEF UnitsFrom

\* In the first file, from the start of a line on, every second half ends a line.
LEMMA FirstEnds ==
    ASSUME NEW c \in Nat, NEW m \in Nat
    PROVE  LineEnds(UnitsFrom(2 * c, m)) = Twos(m \div 2) /\ WholeLines(UnitsFrom(2 * c, m)) = Twos(m \div 2)
<1> DEFINE u == UnitsFrom(2 * c, m)
<1>1. PICK h \in Nat : m \div 2 = h /\ (m = 2 * h \/ m = 2 * h + 1)
  BY TailHalves
<1>2. DOMAIN u = 1..m /\ \A k \in 1..m : u[k] = <<1, 2 * c + k>>
  <2>1. 2 * c \in Nat
    OBVIOUS
  <2> QED BY <2>1, UnitsAre, Zenon
<1> HIDE DEF u
<1>3. ASSUME NEW k \in 1..m PROVE u[k] # Hole /\ u[k][1] = 1 /\ u[k][2] = 2 * c + k /\ (u[k][2] % 2 = k % 2)
  <2>1. (2 * c + k) % 2 = k % 2
    BY TailHalves
  <2>2. u[k] = <<1, 2 * c + k>>
    BY <1>2
  <2>3. u[k] # Hole
    BY <2>2 DEF Hole
  <2> QED BY <2>1, <2>2, <2>3
<1>4. ASSUME NEW k \in Nat PROVE k \in Twos(h) <=> k \in 1..m /\ k % 2 = 0
  <2>1. ASSUME NEW j \in 1..h PROVE 2 * j \in 1..m /\ (2 * j) % 2 = 0
    BY <1>1
  <2>2. ASSUME k \in 1..m, k % 2 = 0 PROVE \E j \in 1..h : k = 2 * j
    <3>1. PICK j \in Nat : k = 2 * j
      BY <2>2, TailHalves
    <3> QED BY <1>1, <2>2, <3>1
  <2> QED BY <2>1, <2>2 DEF Twos
<1>5. LineEnds(u) = Twos(h)
  <2>1. LineEnds(u) = {k \in 1..m : k % 2 = 0}
    BY <1>2, <1>3 DEF LineEnds
  <2>2. Twos(h) \in SUBSET Nat
    BY DEF Twos
  <2> QED BY <1>4, <2>1, <2>2
<1>6. ASSUME NEW j \in 1..h
      PROVE  2 * j > 1 /\ u[2 * j - 1] = <<u[2 * j][1], u[2 * j][2] - 1>> /\ 2 * j - 2 \in Twos(h) \union {0}
  <2>1. 2 * j \in 1..m /\ 2 * j - 1 \in 1..m
    BY <1>1
  <2>2. u[2 * j - 1] = <<1, 2 * c + (2 * j - 1)>>
    BY <1>2, <2>1
  <2>3. u[2 * j][1] = 1 /\ u[2 * j][2] = 2 * c + 2 * j
    BY <1>3, <2>1
  <2>4. 2 * c + (2 * j - 1) = (2 * c + 2 * j) - 1
    OBVIOUS
  <2>5. 2 * j - 2 \in Twos(h) \union {0}
    <3>1. CASE j = 1
      BY <3>1
    <3>2. CASE j # 1
      <4>1. j - 1 \in 1..h /\ 2 * j - 2 = 2 * (j - 1)
        BY <3>2
      <4> QED BY <4>1 DEF Twos
    <3> QED BY <3>1, <3>2
  <2>6. u[2 * j - 1] = <<u[2 * j][1], u[2 * j][2] - 1>>
    BY <2>2, <2>3, <2>4, Zenon
  <2>7. 2 * j > 1
    OBVIOUS
  <2> QED BY <2>5, <2>6, <2>7
<1>7. WholeLines(u) = Twos(h)
  <2>1. WholeLines(u) \in SUBSET Twos(h)
    BY <1>5 DEF WholeLines
  <2>2. ASSUME NEW j \in 1..h PROVE 2 * j \in WholeLines(u)
    <3>1. 2 * j \in LineEnds(u)
      BY <1>5 DEF Twos
    <3> QED BY <1>5, <1>6, <3>1 DEF WholeLines
  <2>3. \A k \in Twos(h) : k \in WholeLines(u)
    BY <2>2 DEF Twos
  <2> QED BY <2>1, <2>3
<1> QED BY <1>1, <1>5, <1>7 DEF u

\* The last n elements of a sequence.
LEMMA LastUnits ==
    ASSUME NEW S, NEW s \in Seq(S), NEW a \in Nat, NEW n \in Nat, Len(s) = a + n
    PROVE  /\ SubSeq(s, a + 1, a + n) \in Seq(S) /\ DOMAIN SubSeq(s, a + 1, a + n) = 1..n
           /\ \A k \in 1..n : SubSeq(s, a + 1, a + n)[k] = s[a + k]
<1>1. a + 1 \in Int /\ a + n \in Int /\ \A i \in (a + 1)..(a + n) : s[i] \in S
  OBVIOUS
<1>2. PICK b \in Int, e \in Int : b = a + 1 /\ e = a + n
  BY <1>1
<1>3. PICK t : t = SubSeq(s, b, e)
  OBVIOUS
<1>4. \A i \in b..e : s[i] \in S
  BY <1>1, <1>2, Zenon
<1>5. /\ SubSeq(s, b, e) \in Seq(S) /\ Len(SubSeq(s, b, e)) = IF b <= e THEN e - b + 1 ELSE 0
      /\ \A i \in 1..(e - b + 1) : SubSeq(s, b, e)[i] = s[b + i - 1]
  BY <1>4, SubSeqProperties
<1>6. /\ t \in Seq(S) /\ Len(t) = IF b <= e THEN e - b + 1 ELSE 0
      /\ \A i \in 1..(e - b + 1) : t[i] = s[b + i - 1]
  BY <1>3, <1>5, Zenon
<1>7. e - b + 1 = n /\ Len(t) = n
  BY <1>2, <1>6
<1>8. DOMAIN t = 1..n
  BY <1>6, <1>7
<1>9. ASSUME NEW k \in 1..n PROVE t[k] = s[a + k]
  <2>1. b + k - 1 = a + k
    BY <1>2
  <2>2. t[k] = s[b + k - 1]
    BY <1>6, <1>7, Zenon
  <2> QED BY <2>1, <2>2, Zenon
<1> QED BY <1>2, <1>3, <1>6, <1>8, <1>9, Zenon

\* The lines that end in the halves from 2 * c on, and what is left over.
LEMMA FirstParse ==
    ASSUME NEW c \in Nat, NEW m \in Nat
    PROVE  /\ Lines(UnitsFrom(2 * c, m)) = [n \in 1..(m \div 2) |-> <<1, c + n>>]
           /\ Rest(UnitsFrom(2 * c, m)) = UnitsFrom(2 * (c + (m \div 2)), m % 2)
<1> DEFINE u == UnitsFrom(2 * c, m)
<1>1. PICK h \in Nat, o \in Nat : m \div 2 = h /\ m % 2 = o /\ m = 2 * h + o
  BY TailHalves
<1>2. u \in Seq(HalfLine) /\ Len(u) = m /\ DOMAIN u = 1..m /\ \A k \in 1..m : u[k] = <<1, 2 * c + k>>
  <2>1. 2 * c \in Nat
    OBVIOUS
  <2> QED BY <2>1, UnitsAre, Zenon
<1>3. LineEnds(u) = Twos(h) /\ WholeLines(u) = Twos(h)
  BY <1>1, FirstEnds
<1> HIDE DEF u
<1>4. Ascending(WholeLines(u)) = [n \in 1..h |-> 2 * n]
  BY <1>3, TwosAscend
<1>5. ASSUME NEW n \in 1..h PROVE <<u[2 * n][1], u[2 * n][2] \div 2>> = <<1, c + n>>
  <2>1. 2 * n \in 1..m /\ 2 * n \in Nat
    BY <1>1
  <2>2. u[2 * n] = <<1, 2 * c + 2 * n>>
    BY <1>2, <2>1
  <2>3. (2 * c + 2 * n) \div 2 = c + n
    OBVIOUS
  <2> QED BY <2>2, <2>3
<1>6. Lines(u) = [n \in 1..h |-> <<1, c + n>>]
  <2>1. Lines(u) = [n \in 1..h |-> <<u[2 * n][1], u[2 * n][2] \div 2>>]
    BY <1>4 DEF Lines
  <2> QED BY <1>5, <2>1
<1>7. Max(LineEnds(u) \union {0}) = 2 * h
  <2> DEFINE S == Twos(h) \union {0}
  <2>1. S \in SUBSET Nat /\ IsFiniteSet(S) /\ S # {}
    <3>1. IsFiniteSet(S)
      BY TwosCount, FS_AddElement
    <3> QED BY <3>1 DEF Twos
  <2>2. 2 * h \in S
    BY DEF Twos
  <2>3. \A j \in S : j <= 2 * h
    BY DEF Twos
  <2> HIDE DEF S
  <2>4. Max(S) \in S /\ \A j \in S : j <= Max(S)
    BY <2>1, LargestIs
  <2>5. Max(S) = 2 * h
    <3>1. Max(S) \in Nat /\ Max(S) <= 2 * h /\ 2 * h <= Max(S)
      BY <2>1, <2>2, <2>3, <2>4
    <3> QED BY <3>1
  <2> QED BY <1>3, <2>5 DEF S
<1>8. Rest(u) = SubSeq(u, 2 * h + 1, m)
  BY <1>2, <1>7 DEF Rest
<1>9. ASSUME NEW k \in 1..o PROVE u[2 * h + k] = <<1, 2 * (c + h) + k>>
  <2>1. 2 * h + k \in 1..m
    BY <1>1
  <2>2. 2 * c + (2 * h + k) = 2 * (c + h) + k
    OBVIOUS
  <2> QED BY <1>2, <2>1, <2>2
<1>10. SubSeq(u, 2 * h + 1, m) = [k \in 1..o |-> u[2 * h + k]]
  <2>1. SubSeq(u, 2 * h + 1, m) \in Seq(HalfLine) /\ DOMAIN SubSeq(u, 2 * h + 1, m) = 1..o
        /\ \A k \in 1..o : SubSeq(u, 2 * h + 1, m)[k] = u[2 * h + k]
    <3>1. PICK a \in Nat : 2 * h = a /\ m = a + o
      BY <1>1
    <3>2. u \in Seq(HalfLine) /\ Len(u) = a + o
      BY <1>2, <3>1, Zenon
    <3>3. /\ SubSeq(u, a + 1, a + o) \in Seq(HalfLine) /\ DOMAIN SubSeq(u, a + 1, a + o) = 1..o
          /\ \A k \in 1..o : SubSeq(u, a + 1, a + o)[k] = u[a + k]
      BY <3>2, LastUnits
    <3> QED BY <3>1, <3>3, Zenon
  <2> QED BY <2>1
<1>11. Rest(u) = UnitsFrom(2 * (c + h), o)
  BY <1>8, <1>9, <1>10 DEF UnitsFrom
<1> QED BY <1>1, <1>6, <1>11 DEF u

\* Two stretches of the file that follow each other, the first of whole lines.
LEMMA UnitsJoin ==
    ASSUME NEW b \in Nat, NEW m \in Nat, NEW n \in Nat
    PROVE  UnitsFrom(b, m) \o UnitsFrom(b + m, n) = UnitsFrom(b, m + n)
<1> DEFINE u == UnitsFrom(b, m)
           v == UnitsFrom(b + m, n)
           w == UnitsFrom(b, m + n)
<1>1. u \in Seq(HalfLine) /\ Len(u) = m /\ \A k \in 1..m : u[k] = <<1, b + k>>
  BY UnitsAre
<1>2. v \in Seq(HalfLine) /\ Len(v) = n /\ \A k \in 1..n : v[k] = <<1, (b + m) + k>>
  <2>1. b + m \in Nat
    OBVIOUS
  <2> QED BY <2>1, UnitsAre, Zenon
<1>3. w \in Seq(HalfLine) /\ Len(w) = m + n /\ \A k \in 1..(m + n) : w[k] = <<1, b + k>>
  <2>1. m + n \in Nat
    OBVIOUS
  <2> QED BY <2>1, UnitsAre, Zenon
<1> HIDE DEF u, v, w
<1>4. u \o v \in Seq(HalfLine) /\ Len(u \o v) = m + n
  BY <1>1, <1>2
<1>5. ASSUME NEW k \in 1..(m + n) PROVE (u \o v)[k] = w[k]
  <2>1. CASE k <= m
    <3>1. k \in 1..m /\ (u \o v)[k] = u[k]
      BY <1>1, <1>2, <2>1
    <3> QED BY <1>1, <1>3, <3>1, Zenon
  <2>2. CASE k > m
    <3>1. k - m \in 1..n /\ (u \o v)[k] = v[k - m] /\ (b + m) + (k - m) = b + k
      BY <1>1, <1>2, <2>2
    <3>2. v[k - m] = <<1, b + k>>
      BY <1>2, <3>1
    <3> QED BY <1>3, <3>1, <3>2, Zenon
  <2>3. k <= m \/ k > m
    OBVIOUS
  <2> QED BY <2>1, <2>2, <2>3, Zenon
<1>6. u \o v = w
  <2>1. PICK uv, l : uv = u \o v /\ l = m + n
    OBVIOUS
  <2>2. /\ uv \in Seq(HalfLine) /\ Len(uv) = l /\ w \in Seq(HalfLine) /\ Len(w) = l
        /\ \A k \in 1..l : uv[k] = w[k]
    BY <1>3, <1>4, <1>5, <2>1, Zenon
  <2>3. uv = w
    BY <2>2
  <2> QED BY <2>1, <2>3, Zenon
<1> QED BY <1>6 DEF u, v, w

\* The lines delivered, and the ones that follow them.
LEMMA LinesJoin ==
    ASSUME NEW c \in Nat, NEW h \in Nat
    PROVE  /\ FirstLines(c) \in Seq(HalfLine)
           /\ FirstLines(c) \o [n \in 1..h |-> <<1, c + n>>] = FirstLines(c + h)
<1>1. FirstLines(c) = UnitsFrom(0, c) /\ FirstLines(c + h) = UnitsFrom(0, c + h)
  <2>1. ASSUME NEW n \in Nat PROVE FirstLines(n) = UnitsFrom(0, n)
    <3>1. \A k \in 1..n : <<1, k>> = <<1, 0 + k>>
      OBVIOUS
    <3> QED BY <3>1 DEF FirstLines, UnitsFrom
  <2>2. c + h \in Nat
    OBVIOUS
  <2> QED BY <2>1, <2>2
<1>2. [n \in 1..h |-> <<1, c + n>>] = UnitsFrom(0 + c, h)
  <2>1. 0 + c = c
    OBVIOUS
  <2> QED BY <2>1 DEF UnitsFrom
<1>3. UnitsFrom(0, c) \o UnitsFrom(0 + c, h) = UnitsFrom(0, c + h)
  <2>1. 0 \in Nat
    OBVIOUS
  <2> QED BY <2>1, UnitsJoin, Zenon
<1>4. UnitsFrom(0, c) \in Seq(HalfLine)
  BY UnitsAre
<1> QED BY <1>1, <1>2, <1>3, <1>4, Zenon

\* A read goes on from the half line that is left of the one before.
LEMMA ReadOn ==
    ASSUME NEW o \in Nat, NEW m \in Nat
    PROVE  LET u == UnitsFrom(2 * (o \div 2), o % 2) \o UnitsFrom(o, m)
           IN  /\ FirstLines(o \div 2) \o Lines(u) = FirstLines((o + m) \div 2)
               /\ Rest(u) = UnitsFrom(2 * ((o + m) \div 2), (o + m) % 2)
<1>1. PICK c \in Nat, a \in Nat : o \div 2 = c /\ o % 2 = a /\ o = 2 * c + a
  BY TailHalves
<1>2. PICK h \in Nat, e \in Nat : (a + m) \div 2 = h /\ (a + m) % 2 = e /\ (o + m) \div 2 = c + h /\ (o + m) % 2 = e
  <2>1. a + m \in Nat /\ o + m = 2 * c + (a + m)
    BY <1>1
  <2>2. (2 * c + (a + m)) \div 2 = c + ((a + m) \div 2) /\ (2 * c + (a + m)) % 2 = (a + m) % 2
    BY <2>1, TailHalves, Zenon
  <2>3. (a + m) \div 2 \in Nat /\ (a + m) % 2 \in Nat
    BY <2>1, TailHalves
  <2> QED BY <2>1, <2>2, <2>3, Zenon
<1>3. 2 * c \in Nat /\ a + m \in Nat /\ 2 * c + a = o
  BY <1>1
<1> DEFINE u == UnitsFrom(2 * c, a) \o UnitsFrom(o, m)
<1>4. u = UnitsFrom(2 * c, a + m)
  <2>1. UnitsFrom(2 * c, a) \o UnitsFrom(2 * c + a, m) = UnitsFrom(2 * c, a + m)
    <3>1. PICK d \in Nat : d = 2 * c
      BY <1>3
    <3>2. UnitsFrom(d, a) \o UnitsFrom(d + a, m) = UnitsFrom(d, a + m)
      BY UnitsJoin
    <3> QED BY <3>1, <3>2, Zenon
  <2> QED BY <1>3, <2>1, Zenon
<1> HIDE DEF u
<1>5. Lines(u) = [n \in 1..h |-> <<1, c + n>>] /\ Rest(u) = UnitsFrom(2 * (c + h), e)
  <2>1. Lines(UnitsFrom(2 * c, a + m)) = [n \in 1..((a + m) \div 2) |-> <<1, c + n>>]
    BY <1>3, FirstParse, Zenon
  <2>2. Rest(UnitsFrom(2 * c, a + m)) = UnitsFrom(2 * (c + ((a + m) \div 2)), (a + m) % 2)
    BY <1>3, FirstParse, Zenon
  <2> QED BY <1>2, <1>4, <2>1, <2>2, Zenon
<1>6. FirstLines(c) \o Lines(u) = FirstLines(c + h)
  BY <1>5, LinesJoin, Zenon
<1> QED BY <1>1, <1>2, <1>5, <1>6, Zenon DEF u

-----------------------------------------------------------------------------
(* The event log: the lines delivered, file by file. *)

\* Lines of the files up to f are lines of the files up to a later one.
LEMMA UptoMore ==
    ASSUME NEW s \in Seq(HalfLine), NEW f \in Nat, NEW g \in Nat, f <= g, Upto(s, f)
    PROVE  Upto(s, g)
<1>1. \A k \in DOMAIN s : s[k] \in HalfLine
  OBVIOUS
<1>2. \A k \in DOMAIN s : s[k][1] \in Nat
  BY <1>1 DEF HalfLine
<1>3. \A k \in DOMAIN s : s[k][1] <= g
  BY <1>2 DEF Upto
<1> QED BY <1>3 DEF Upto

\* Lines of the file f come after lines of the files up to it.
LEMMA UptoJoin ==
    ASSUME NEW s \in Seq(HalfLine), NEW l \in Seq(HalfLine), NEW f \in Nat, Upto(s, f),
           \A n \in DOMAIN l : l[n][1] = f
    PROVE  s \o l \in Seq(HalfLine) /\ Upto(s \o l, f)
<1>1. PICK m \in Nat, n \in Nat : Len(s) = m /\ Len(l) = n
  OBVIOUS
<1>2. s \o l \in Seq(HalfLine) /\ DOMAIN (s \o l) = 1..(m + n)
      /\ \A k \in 1..(m + n) : (s \o l)[k] = IF k <= m THEN s[k] ELSE l[k - m]
  BY <1>1
<1>3. \A k \in 1..m : s[k][1] <= f
  BY <1>1 DEF Upto
<1>4. \A j, k \in 1..m : j < k => s[j][1] <= s[k][1]
  BY <1>1 DEF Upto
<1>5. ASSUME NEW k \in 1..(m + n), k > m PROVE (s \o l)[k][1] = f
  <2>1. k - m \in DOMAIN l /\ ~(k <= m)
    BY <1>1, <1>5
  <2> QED BY <1>2, <2>1, Zenon
<1>6. \A k \in 1..(m + n) : k <= m => k \in 1..m /\ (s \o l)[k][1] = s[k][1]
  BY <1>2
<1> DEFINE t == s \o l
<1> HIDE DEF t
<1>7. \A k \in 1..(m + n) : t[k][1] <= f
  <2> TAKE k \in 1..(m + n)
  <2>1. CASE k <= m
    BY <1>3, <1>6, <2>1 DEF t
  <2>2. CASE k > m
    <3>1. t[k][1] = f
      BY <1>5, <2>2 DEF t
    <3> QED BY <3>1
  <2>3. k <= m \/ k > m
    OBVIOUS
  <2> QED BY <2>1, <2>2, <2>3, Zenon
<1>8. \A j, k \in 1..(m + n) : j < k => t[j][1] <= t[k][1]
  <2> SUFFICES ASSUME NEW j \in 1..(m + n), NEW k \in 1..(m + n), j < k PROVE t[j][1] <= t[k][1]
    OBVIOUS
  <2>1. CASE k > m
    <3>1. t[k][1] = f
      BY <1>5, <2>1 DEF t
    <3> QED BY <1>7, <3>1
  <2>2. CASE k <= m
    <3>1. j \in 1..m /\ k \in 1..m
      BY <2>2
    <3>2. t[j][1] = s[j][1] /\ t[k][1] = s[k][1]
      <4>1. j <= m
        BY <2>2
      <4> QED BY <1>6, <2>2, <4>1, Zenon DEF t
    <3> QED BY <1>4, <3>1, <3>2
  <2>3. k <= m \/ k > m
    OBVIOUS
  <2> QED BY <2>1, <2>2, <2>3, Zenon
<1> QED BY <1>2, <1>7, <1>8 DEF t, Upto

-----------------------------------------------------------------------------
(* The event log: the steps of a read. *)

\* What a step of reader r in its slot i leaves.
Turned(r, i, x, o, b, s) ==
    /\ x \in TailRead /\ o \in Nat /\ b \in Seq(HalfLine) /\ s \in Seq(HalfLine)
    /\ offset' = [offset EXCEPT ![r] = o] /\ buffer' = [buffer EXCEPT ![r] = b]
    /\ seen' = [seen EXCEPT ![r] = s]
    /\ queued' \in [Readers -> BOOLEAN] /\ Put(r, i, x) /\ logs' = logs

\* The one read of a watcher moves on, the others stay where they were.
LEMMA ReadMoves ==
    ASSUME TailInv, NEW r \in Readers, NEW i \in Slots, \A j \in Slots : j # i => At(r, j, "idle"),
           NEW x, NEW o, NEW b, NEW s, Turned(r, i, x, o, b, s), Stood(o, b, s), ReadStood(x, o, s)
    PROVE  TailInv'
<1>1. reads \in [Readers -> [Slots -> TailRead]] /\ offset \in [Readers -> Nat]
      /\ buffer \in [Readers -> Seq(HalfLine)] /\ seen \in [Readers -> Seq(HalfLine)]
  BY DEF TailInv, TailTyped
<1>2. /\ reads' = [reads EXCEPT ![r][i] = x] /\ reads' \in [Readers -> [Slots -> TailRead]] /\ reads'[r][i] = x
      /\ \A j \in Slots : j # i => reads'[r][j] = reads[r][j]
      /\ \A q \in Readers : q # r => reads'[q] = reads[q]
  BY <1>1 DEF Turned, Put
<1>3. /\ offset' \in [Readers -> Nat] /\ buffer' \in [Readers -> Seq(HalfLine)] /\ seen' \in [Readers -> Seq(HalfLine)]
      /\ offset'[r] = o /\ buffer'[r] = b /\ seen'[r] = s
      /\ \A q \in Readers : q # r => offset'[q] = offset[q] /\ buffer'[q] = buffer[q] /\ seen'[q] = seen[q]
  BY <1>1 DEF Turned
<1>4. TailTyped'
  BY <1>2, <1>3 DEF TailInv, TailTyped, Turned
<1>5. OneRead'
  <2> SUFFICES ASSUME NEW q \in Readers, NEW j \in Slots, NEW k \in Slots, ~At(q, j, "idle")', ~At(q, k, "idle")'
               PROVE  j = k
    BY DEF OneRead
  <2>1. CASE q = r
    BY <1>2, <2>1, Zenon DEF At
  <2>2. CASE q # r
    <3>1. ~At(q, j, "idle") /\ ~At(q, k, "idle")
      BY <1>2, <2>2 DEF At
    <3> QED BY <3>1 DEF TailInv, OneRead
  <2> QED BY <2>1, <2>2
<1>6. ASSUME NEW q \in Readers
      PROVE  Stood(offset[q], buffer[q], seen[q])' /\ \A j \in Slots : ReadStood(reads[q][j], offset[q], seen[q])'
  <2>1. logs' = logs
    BY DEF Turned
  <2>2. CASE q = r
    <3>1. Stood(offset[q], buffer[q], seen[q])'
      BY <1>3, <2>1, <2>2 DEF Stood
    <3>2. ASSUME NEW j \in Slots PROVE ReadStood(reads[q][j], offset[q], seen[q])'
      <4>1. CASE j = i
        BY <1>2, <1>3, <2>1, <2>2, <4>1 DEF ReadStood
      <4>2. CASE j # i
        <5>1. reads'[q][j].at = "idle"
          BY <1>2, <2>2, <4>2 DEF At
        <5> QED BY <5>1 DEF ReadStood
      <4> QED BY <4>1, <4>2
    <3> QED BY <3>1, <3>2
  <2>3. CASE q # r
    <3>1. Stood(offset[q], buffer[q], seen[q]) /\ \A j \in Slots : ReadStood(reads[q][j], offset[q], seen[q])
      BY DEF TailInv
    <3>2. offset'[q] = offset[q] /\ buffer'[q] = buffer[q] /\ seen'[q] = seen[q] /\ reads'[q] = reads[q]
      BY <1>2, <1>3, <2>3
    <3>3. Stood(offset[q], buffer[q], seen[q])'
      BY <2>1, <3>1, <3>2 DEF Stood
    <3>4. \A j \in Slots : ReadStood(reads[q][j], offset[q], seen[q])'
      BY <2>1, <3>1, <3>2 DEF ReadStood
    <3> QED BY <3>3, <3>4
  <2> QED BY <2>2, <2>3
<1> QED BY <1>4, <1>5, <1>6 DEF TailInv

\* Nothing is read at the start.
LEMMA TailStarts == TailInit => TailInv
<1> SUFFICES ASSUME TailInit PROVE TailInv
  OBVIOUS
<1>1. Idle \in TailRead /\ Idle.at = "idle"
  <2>1. <<>> \in Seq(HalfLine)
    OBVIOUS
  <2> QED BY <2>1 DEF Idle, TailRead
<1>2. logs = <<0>> /\ Len(logs) = 1 /\ logs \in Seq(Nat) /\ logs # <<>> /\ logs[1] = 0
  BY DEF TailInit
<1>3. \A r \in Readers : offset[r] = 0 /\ buffer[r] = <<>> /\ seen[r] = <<>> /\ \A i \in Slots : reads[r][i] = Idle
  BY DEF TailInit, Slots
<1>4. TailTyped
  BY <1>1, <1>2 DEF TailInit, TailTyped, Slots
<1>5. OneRead
  BY <1>1, <1>3 DEF OneRead, At
<1>6. Stood(0, <<>>, <<>>)
  <2>1. LineEnds(<<>>) = {} /\ Upto(<<>>, Len(logs))
    BY DEF LineEnds, Upto
  <2>2. 0 \div 2 = 0 /\ 0 % 2 = 0
    OBVIOUS
  <2>3. FirstLines(0) = <<>> /\ UnitsFrom(2 * 0, 0) = <<>>
    BY DEF FirstLines, UnitsFrom
  <2> QED BY <1>2, <2>1, <2>2, <2>3 DEF Stood
<1>7. ReadStood(Idle, 0, <<>>)
  BY <1>1 DEF ReadStood
<1> QED BY <1>3, <1>4, <1>5, <1>6, <1>7 DEF TailInv

\* A file of the log that grows: what stat has said of it stays below its size.
LEMMA WriteKeeps == ASSUME TailInv, Write PROVE TailInv'
<1>1. PICK n \in Nat : Len(logs) = n /\ n >= 1
  BY DEF TailInv, TailTyped
<1>2. /\ logs' \in Seq(Nat) /\ logs' # <<>> /\ Len(logs') = n /\ (n = 1 => logs[1] \in Nat /\ logs'[1] = logs[1] + 1)
  BY <1>1 DEF TailInv, TailTyped, Write, Size
<1>3. offset' = offset /\ buffer' = buffer /\ reads' = reads /\ queued' = queued /\ seen' = seen
  BY DEF Write
<1>4. TailTyped'
  BY <1>2, <1>3 DEF TailInv, TailTyped
<1>5. OneRead'
  BY <1>3 DEF TailInv, OneRead, At
<1>6. ASSUME NEW r \in Readers
      PROVE  Stood(offset[r], buffer[r], seen[r])' /\ \A i \in Slots : ReadStood(reads[r][i], offset[r], seen[r])'
  <2>1. Stood(offset[r], buffer[r], seen[r]) /\ \A i \in Slots : ReadStood(reads[r][i], offset[r], seen[r])
    BY DEF TailInv
  <2>2. offset[r] \in Nat
    BY DEF TailInv, TailTyped
  <2>3. Stood(offset[r], buffer[r], seen[r])'
    BY <1>1, <1>2, <1>3, <2>1, <2>2 DEF Stood
  <2>4. ASSUME NEW i \in Slots PROVE ReadStood(reads[r][i], offset[r], seen[r])'
    <3>1. ReadStood(reads[r][i], offset[r], seen[r]) /\ reads[r][i].size \in Nat
      BY <2>1 DEF TailInv, TailTyped, TailRead
    <3> QED BY <1>1, <1>2, <1>3, <3>1 DEF ReadStood
  <2> QED BY <2>3, <2>4
<1> QED BY <1>4, <1>5, <1>6 DEF TailInv

\* After a rotation nothing is said of the first file any more.
LEMMA RotateKeeps == ASSUME TailInv, Rotate PROVE TailInv'
<1>1. PICK n \in Nat : Len(logs) = n /\ n >= 1
  BY DEF TailInv, TailTyped
<1>2. logs' \in Seq(Nat) /\ logs' # <<>> /\ Len(logs') = n + 1
  <2>1. logs' = Append(logs, 0) /\ logs \in Seq(Nat)
    BY DEF TailInv, TailTyped, Rotate
  <2> QED BY <1>1, <2>1
<1>3. offset' = offset /\ buffer' = buffer /\ reads' = reads /\ queued' = queued /\ seen' = seen
  BY DEF Rotate
<1>4. TailTyped'
  BY <1>2, <1>3 DEF TailInv, TailTyped
<1>5. OneRead'
  BY <1>3 DEF TailInv, OneRead, At
<1>6. ASSUME NEW r \in Readers
      PROVE  Stood(offset[r], buffer[r], seen[r])' /\ \A i \in Slots : ReadStood(reads[r][i], offset[r], seen[r])'
  <2>1. Stood(offset[r], buffer[r], seen[r]) /\ \A i \in Slots : ReadStood(reads[r][i], offset[r], seen[r])
    BY DEF TailInv
  <2>2. seen[r] \in Seq(HalfLine)
    BY DEF TailInv, TailTyped
  <2>3. Upto(seen[r], n + 1)
    <3>1. Upto(seen[r], n) /\ n + 1 \in Nat /\ n <= n + 1
      BY <1>1, <2>1 DEF Stood
    <3> QED BY <2>2, <3>1, UptoMore
  <2>4. Stood(offset[r], buffer[r], seen[r])'
    BY <1>1, <1>2, <1>3, <2>1, <2>3 DEF Stood
  <2>5. ASSUME NEW i \in Slots PROVE ReadStood(reads[r][i], offset[r], seen[r])'
    <3>1. ReadStood(reads[r][i], offset[r], seen[r])
      BY <2>1
    <3> QED BY <1>1, <1>2, <1>3, <3>1 DEF ReadStood
  <2> QED BY <2>4, <2>5
<1> QED BY <1>4, <1>5, <1>6 DEF TailInv

\* What the invariant says of reader r and its read in slot i.
LEMMA ReadIs ==
    ASSUME TailInv, NEW r \in Readers, NEW i \in Slots
    PROVE  /\ logs \in Seq(Nat) /\ Len(logs) \in Nat /\ Len(logs) >= 1 /\ Size \in Nat
           /\ offset[r] \in Nat /\ buffer[r] \in Seq(HalfLine) /\ seen[r] \in Seq(HalfLine)
           /\ reads[r][i] \in TailRead /\ queued \in [Readers -> BOOLEAN]
           /\ Stood(offset[r], buffer[r], seen[r]) /\ ReadStood(reads[r][i], offset[r], seen[r])
           /\ ~At(r, i, "idle") => \A j \in Slots : j # i => At(r, j, "idle")
<1>1. logs \in Seq(Nat) /\ Len(logs) \in Nat /\ Len(logs) >= 1 /\ Size \in Nat
  <2>1. PICK n \in Nat : Len(logs) = n /\ n >= 1 /\ logs \in Seq(Nat)
    BY DEF TailInv, TailTyped
  <2>2. Size \in Nat
    BY <2>1 DEF Size
  <2> QED BY <2>1, <2>2
<1>2. ~At(r, i, "idle") => \A j \in Slots : j # i => At(r, j, "idle")
  BY DEF TailInv, OneRead
<1> QED BY <1>1, <1>2 DEF TailInv, TailTyped

\* A read is over, or about to look again: it has read nothing.
LEMMA ReadsAnew ==
    ASSUME NEW x \in {Idle, [Idle EXCEPT !.at = "stat"]}, NEW o, NEW s
    PROVE  x \in TailRead /\ ReadStood(x, o, s)
<1>1. <<>> \in Seq(HalfLine)
  OBVIOUS
<1>2. x \in TailRead /\ x.at \in {"idle", "stat"}
  <2>1. CASE x = Idle
    BY <1>1, <2>1 DEF Idle, TailRead
  <2>2. CASE x = [Idle EXCEPT !.at = "stat"]
    BY <1>1, <2>2 DEF Idle, TailRead
  <2> QED BY <2>1, <2>2
<1> QED BY <1>2 DEF ReadStood

\* A step that leaves what the reader has got.
LEMMA StaysAt ==
    ASSUME TailInv, NEW r \in Readers, NEW i \in Slots, NEW x \in TailRead, Put(r, i, x),
           queued' \in [Readers -> BOOLEAN],
           logs' = logs, offset' = offset, buffer' = buffer, seen' = seen
    PROVE  Turned(r, i, x, offset[r], buffer[r], seen[r])
<1>1. offset \in [Readers -> Nat] /\ buffer \in [Readers -> Seq(HalfLine)] /\ seen \in [Readers -> Seq(HalfLine)]
  BY DEF TailInv, TailTyped
<1>2. offset' = [offset EXCEPT ![r] = offset[r]]
  BY <1>1
<1>3. buffer' = [buffer EXCEPT ![r] = buffer[r]]
  BY <1>1
<1>4. seen' = [seen EXCEPT ![r] = seen[r]]
  BY <1>1
<1>5. offset[r] \in Nat /\ buffer[r] \in Seq(HalfLine) /\ seen[r] \in Seq(HalfLine)
  BY <1>1
<1> QED BY <1>2, <1>3, <1>4, <1>5, Zenon DEF Turned

\* A poll, or an event of the file: it begins a read only if there is none.
LEMMA TickKeeps == ASSUME TailInv, Watchers, NEW r \in Readers, Tick(r) PROVE TailInv'
<1>1. CASE MayStart(r)
  <2> DEFINE x == [Idle EXCEPT !.at = "stat"]
  <2>1. PICK i \in Slots : At(r, i, "idle") /\ Put(r, i, x)
    BY <1>1 DEF Tick
  <2>2. \A j \in Slots : j # i => At(r, j, "idle")
    BY <1>1 DEF MayStart, Reading, Watchers
  <2>3. queued' \in [Readers -> BOOLEAN] /\ logs' = logs /\ offset' = offset /\ buffer' = buffer /\ seen' = seen
    <3>1. queued' = [queued EXCEPT ![r] = FALSE] /\ logs' = logs /\ offset' = offset /\ buffer' = buffer /\ seen' = seen
      BY <1>1 DEF Tick
    <3> QED BY <3>1 DEF TailInv, TailTyped
  <2>4. x \in TailRead /\ ReadStood(x, offset[r], seen[r])
    <3>1. x \in {Idle, [Idle EXCEPT !.at = "stat"]}
      OBVIOUS
    <3> QED BY <3>1, ReadsAnew, Zenon
  <2> HIDE DEF x
  <2>5. Turned(r, i, x, offset[r], buffer[r], seen[r])
    BY <2>1, <2>3, <2>4, StaysAt, Zenon
  <2>6. Stood(offset[r], buffer[r], seen[r])
    BY DEF TailInv
  <2> QED BY <2>2, <2>4, <2>5, <2>6, ReadMoves, Zenon
<1>2. CASE ~MayStart(r)
  <2>1. queued' = [queued EXCEPT ![r] = TRUE] /\ reads' = reads
        /\ logs' = logs /\ offset' = offset /\ buffer' = buffer /\ seen' = seen
    BY <1>2 DEF Tick
  <2>2. TailTyped'
    BY <2>1 DEF TailInv, TailTyped
  <2>3. OneRead'
    BY <2>1 DEF TailInv, OneRead, At
  <2>4. ASSUME NEW q \in Readers
        PROVE  Stood(offset[q], buffer[q], seen[q])' /\ \A j \in Slots : ReadStood(reads[q][j], offset[q], seen[q])'
    <3>1. Stood(offset[q], buffer[q], seen[q])'
      BY <2>1 DEF TailInv, Stood
    <3>2. \A j \in Slots : ReadStood(reads[q][j], offset[q], seen[q])'
      BY <2>1 DEF TailInv, ReadStood
    <3> QED BY <3>1, <3>2
  <2> QED BY <2>2, <2>3, <2>4 DEF TailInv
<1> QED BY <1>1, <1>2

\* stat answers: the file is at least as long as what was read of it.
LEMMA StatKeeps == ASSUME TailInv, NEW r \in Readers, NEW i \in Slots, Stat(r, i) PROVE TailInv'
<1> DEFINE x == [Idle EXCEPT !.at = "sized", !.size = Size]
<1>1. Put(r, i, x) /\ logs' = logs /\ offset' = offset /\ buffer' = buffer /\ queued' = queued /\ seen' = seen
  BY DEF Stat
<1>2. Size \in Nat /\ queued' \in [Readers -> BOOLEAN] /\ Stood(offset[r], buffer[r], seen[r])
  BY <1>1, ReadIs
<1>3. x \in TailRead /\ x.at = "sized" /\ x.size = Size
  <2>1. <<>> \in Seq(HalfLine)
    OBVIOUS
  <2> QED BY <1>2, <2>1 DEF Idle, TailRead
<1>4. ReadStood(x, offset[r], seen[r])
  <2>1. offset[r] \in Nat /\ (Len(logs) = 1 => offset[r] <= logs[1] /\ Size = logs[1])
    BY <1>2, ReadIs DEF Stood, Size
  <2> QED BY <1>2, <1>3, <2>1 DEF ReadStood
<1>5. \A j \in Slots : j # i => At(r, j, "idle")
  <2>1. ~At(r, i, "idle")
    BY DEF Stat, At
  <2> QED BY <2>1, ReadIs
<1> HIDE DEF x
<1>6. Turned(r, i, x, offset[r], buffer[r], seen[r])
  BY <1>1, <1>2, <1>3, StaysAt, Zenon
<1> QED BY <1>2, <1>4, <1>5, <1>6, ReadMoves, Zenon

\* open: the file is the newest, and what was delivered is of no later one.
LEMMA OpenedKeeps == ASSUME TailInv, Watchers, NEW r \in Readers, NEW i \in Slots, Opened(r, i) PROVE TailInv'
<1> DEFINE old == reads[r][i]
           x == [old EXCEPT !.at = "opened", !.file = Len(logs), !.total = Size]
<1>1. Put(r, i, x) /\ logs' = logs /\ offset' = offset /\ buffer' = buffer /\ queued' = queued /\ seen' = seen
  <2>1. Kind[r] # "child"
    BY DEF Watchers
  <2> QED BY <2>1 DEF Opened
<1>2. /\ Size \in Nat /\ Len(logs) \in Nat /\ Len(logs) >= 1 /\ queued' \in [Readers -> BOOLEAN]
      /\ Stood(offset[r], buffer[r], seen[r]) /\ old \in TailRead /\ ReadStood(old, offset[r], seen[r])
  BY <1>1, ReadIs
<1>3. old.at = "open"
  BY DEF Opened, At
<1> HIDE DEF old
<1>4. x \in TailRead /\ x.at = "opened" /\ x.size = old.size /\ x.length = old.length /\ x.file = Len(logs)
  BY <1>2 DEF TailRead
<1>5. ReadStood(x, offset[r], seen[r])
  <2>1. Upto(seen[r], Len(logs)) /\ x.file \in 1..Len(logs)
    BY <1>2, <1>4 DEF Stood
  <2> QED BY <1>2, <1>3, <1>4, <2>1 DEF ReadStood
<1>6. \A j \in Slots : j # i => At(r, j, "idle")
  <2>1. ~At(r, i, "idle")
    BY <1>3 DEF old, At
  <2> QED BY <2>1, ReadIs
<1> HIDE DEF x
<1>7. Turned(r, i, x, offset[r], buffer[r], seen[r])
  BY <1>1, <1>2, <1>4, StaysAt, Zenon
<1> QED BY <1>2, <1>5, <1>6, <1>7, ReadMoves, Zenon

\* The read: in the first file all that stat has counted is there.
LEMMA ReadAtKeeps == ASSUME TailInv, NEW r \in Readers, NEW i \in Slots, ReadAt(r, i) PROVE TailInv'
<1> DEFINE old == reads[r][i]
           d == Units(r, old.file, logs[old.file], old.length)
           x == [old EXCEPT !.at = "read", !.data = d]
<1>1. Put(r, i, x) /\ logs' = logs /\ offset' = offset /\ buffer' = buffer /\ queued' = queued /\ seen' = seen
  BY DEF ReadAt
<1>2. /\ logs \in Seq(Nat) /\ Len(logs) \in Nat /\ queued' \in [Readers -> BOOLEAN] /\ offset[r] \in Nat
      /\ Stood(offset[r], buffer[r], seen[r]) /\ old \in TailRead /\ ReadStood(old, offset[r], seen[r])
  BY <1>1, ReadIs
<1>3. old.at = "opened"
  BY DEF ReadAt, At
<1> HIDE DEF old
<1>4. old.file \in 1..Len(logs) /\ old.file \in Nat /\ old.length \in Nat /\ Upto(seen[r], old.file)
  BY <1>2, <1>3 DEF ReadStood, TailRead
<1>5. /\ d \in Seq(HalfLine) /\ DOMAIN d = 1..old.length
      /\ \A k \in DOMAIN d : d[k] = Hole \/ d[k][1] = old.file
  <2>1. ASSUME NEW k \in 1..old.length
        PROVE  d[k] \in HalfLine /\ (d[k] = Hole \/ d[k][1] = old.file)
    <3>1. d[k] = <<old.file, offset[r] + k>> \/ d[k] = Hole
      BY DEF Units
    <3>2. offset[r] + k \in Nat
      BY <1>2
    <3> HIDE DEF d
    <3>3. CASE d[k] = <<old.file, offset[r] + k>>
      <4>1. <<old.file, offset[r] + k>> \in HalfLine /\ <<old.file, offset[r] + k>>[1] = old.file
        BY <1>4, <3>2 DEF HalfLine
      <4> QED BY <3>3, <4>1, Zenon
    <3>4. CASE d[k] = Hole
      BY <3>4 DEF HalfLine, Hole
    <3> QED BY <3>1, <3>3, <3>4 DEF d
  <2>2. d = [k \in 1..old.length |-> d[k]]
    BY DEF Units
  <2> HIDE DEF d
  <2>3. d \in [1..old.length -> HalfLine]
    BY <2>1, <2>2, Zenon
  <2>4. \A n \in Nat : \A q \in [1..n -> HalfLine] : q \in Seq(HalfLine)
    OBVIOUS
  <2> QED BY <1>4, <2>1, <2>2, <2>3, <2>4, Zenon
<1>6. Len(logs) = 1 => d = UnitsFrom(offset[r], old.length)
  <2> SUFFICES ASSUME Len(logs) = 1 PROVE d = UnitsFrom(offset[r], old.length)
    OBVIOUS
  <2>1. old.file = 1 /\ offset[r] + old.length <= logs[1] /\ logs[1] \in Nat
    <3>1. old.size = offset[r] + old.length /\ old.size <= logs[1]
      BY <1>2, <1>3 DEF ReadStood
    <3>2. old.file = 1
      BY <1>4
    <3>3. logs[1] \in Nat
      <4>1. \A q \in Seq(Nat) : \A k \in 1..Len(q) : q[k] \in Nat
        OBVIOUS
      <4>2. 1 \in 1..Len(logs)
        OBVIOUS
      <4> QED BY <1>2, <4>1, <4>2, Zenon
    <3> QED BY <3>1, <3>2, <3>3
  <2>2. \A k \in 1..old.length : offset[r] + k <= logs[1]
    BY <1>2, <1>4, <2>1
  <2> QED BY <2>1, <2>2 DEF Units, UnitsFrom
<1> HIDE DEF d
<1>7. x \in TailRead /\ x.at = "read" /\ x.size = old.size /\ x.length = old.length /\ x.file = old.file /\ x.data = d
  BY <1>2, <1>5 DEF TailRead
<1>8. ReadStood(x, offset[r], seen[r])
  BY <1>2, <1>3, <1>4, <1>5, <1>6, <1>7 DEF ReadStood
<1>9. \A j \in Slots : j # i => At(r, j, "idle")
  <2>1. ~At(r, i, "idle")
    BY <1>3 DEF old, At
  <2> QED BY <2>1, ReadIs
<1> HIDE DEF x
<1>10. Turned(r, i, x, offset[r], buffer[r], seen[r])
  BY <1>1, <1>2, <1>7, StaysAt, Zenon
<1> QED BY <1>2, <1>8, <1>9, <1>10, ReadMoves, Zenon

\* A read that fails leaves an idle slot, and all it has got.
LEMMA FailsKeeps == ASSUME TailInv, NEW r \in Readers, NEW i \in Slots, Fails(r, i) PROVE TailInv'
<1>1. Put(r, i, Idle) /\ logs' = logs /\ offset' = offset /\ buffer' = buffer /\ queued' = queued /\ seen' = seen
  BY DEF Fails
<1>2. queued' \in [Readers -> BOOLEAN] /\ Stood(offset[r], buffer[r], seen[r])
  BY <1>1, ReadIs
<1>3. Idle \in TailRead /\ ReadStood(Idle, offset[r], seen[r])
  BY ReadsAnew
<1>4. \A j \in Slots : j # i => At(r, j, "idle")
  <2>1. ~At(r, i, "idle")
    BY DEF Fails, At
  <2> QED BY <2>1, ReadIs
<1>5. Turned(r, i, Idle, offset[r], buffer[r], seen[r])
  BY <1>1, <1>2, <1>3, StaysAt, Zenon
<1> QED BY <1>2, <1>3, <1>4, <1>5, ReadMoves, Zenon

\* A read that ends leaves an idle slot, or one that is to look again.
LEMMA EndsIs ==
    ASSUME TailInv, NEW r \in Readers, NEW i \in Slots, Ends(r, i)
    PROVE  /\ queued' \in [Readers -> BOOLEAN]
           /\ \E x \in {Idle, [Idle EXCEPT !.at = "stat"]} : Put(r, i, x)
<1>1. queued \in [Readers -> BOOLEAN]
  BY DEF TailInv, TailTyped
<1>2. queued' \in [Readers -> BOOLEAN]
  BY <1>1 DEF Ends
<1>3. \E x \in {Idle, [Idle EXCEPT !.at = "stat"]} : Put(r, i, x)
  <2>1. CASE queued[r]
    BY <2>1, Zenon DEF Ends
  <2>2. CASE ~queued[r]
    BY <2>2, Zenon DEF Ends
  <2> QED BY <2>1, <2>2
<1> QED BY <1>2, <1>3

\* The size is looked at: in the first file the offset stays.
LEMMA SizedKeeps == ASSUME TailInv, NEW r \in Readers, NEW i \in Slots, Sized(r, i) PROVE TailInv'
<1> DEFINE old == reads[r][i]
           o == From(r, i)
           b == IF From(r, i) = offset[r] THEN buffer[r] ELSE <<>>
<1>1. /\ queued \in [Readers -> BOOLEAN] /\ offset[r] \in Nat /\ buffer[r] \in Seq(HalfLine) /\ seen[r] \in Seq(HalfLine)
      /\ Stood(offset[r], buffer[r], seen[r]) /\ old \in TailRead /\ ReadStood(old, offset[r], seen[r])
  BY ReadIs
<1>2. old.at = "sized" /\ logs' = logs
  BY DEF Sized, At
<1>3. /\ offset' = [offset EXCEPT ![r] = o] /\ buffer' = [buffer EXCEPT ![r] = b]
      /\ seen' = [seen EXCEPT ![r] = seen[r]]
  <2>1. seen' = seen /\ seen \in [Readers -> Seq(HalfLine)]
    BY DEF Sized, TailInv, TailTyped
  <2>2. seen' = [seen EXCEPT ![r] = seen[r]]
    BY <2>1
  <2> QED BY <2>2 DEF Sized
<1>4. old.size \in Nat /\ o \in Nat /\ o <= old.size /\ (Len(logs) = 1 => o = offset[r])
  <2>1. old.size \in Nat
    BY <1>1 DEF TailRead
  <2>2. o = IF old.size < offset[r] THEN 0 ELSE offset[r]
    BY DEF From
  <2>3. Len(logs) = 1 => offset[r] <= old.size
    BY <1>1, <1>2 DEF ReadStood
  <2> HIDE DEF old, o
  <2> QED BY <1>1, <2>1, <2>2, <2>3
<1>5. b \in Seq(HalfLine) /\ Stood(o, b, seen[r])
  <2>1. CASE o = offset[r]
    BY <1>1, <2>1
  <2>2. CASE o # offset[r]
    <3>1. b = <<>> /\ LineEnds(<<>>) = {}
      BY <2>2 DEF LineEnds
    <3>2. <<>> \in Seq(HalfLine)
      OBVIOUS
    <3> HIDE DEF b, o
    <3> QED BY <1>1, <1>4, <2>2, <3>1, <3>2 DEF Stood
  <2> QED BY <2>1, <2>2
<1>6. \A j \in Slots : j # i => At(r, j, "idle")
  <2>1. ~At(r, i, "idle")
    BY <1>2 DEF At
  <2> QED BY <2>1, ReadIs
<1>7. \E x \in TailRead : ReadStood(x, o, seen[r]) /\ Put(r, i, x) /\ queued' \in [Readers -> BOOLEAN]
  <2>1. CASE old.size = o
    <3>1. Ends(r, i)
      BY <2>1 DEF Sized
    <3>2. PICK x \in {Idle, [Idle EXCEPT !.at = "stat"]} : Put(r, i, x)
      BY <3>1, EndsIs
    <3>3. x \in TailRead /\ ReadStood(x, o, seen[r]) /\ queued' \in [Readers -> BOOLEAN]
      <4> HIDE DEF o
      <4> QED BY <3>1, EndsIs, ReadsAnew
    <3> QED BY <3>2, <3>3
  <2>2. CASE old.size # o
    <3> DEFINE x == [old EXCEPT !.at = "open", !.length = old.size - o]
    <3>1. Put(r, i, x) /\ queued' = queued
      BY <2>2 DEF Sized
    <3> HIDE DEF old, o
    <3>2. PICK n \in Nat : old.size = o + n /\ n = old.size - o
      BY <1>4
    <3>3. x \in TailRead /\ x.at = "open" /\ x.size = old.size /\ x.length = n
      BY <1>1, <3>2 DEF TailRead
    <3>4. ReadStood(x, o, seen[r])
      <4>1. Len(logs) = 1 => old.size <= logs[1] /\ o <= old.size
        BY <1>1, <1>2, <1>4 DEF ReadStood
      <4> QED BY <3>2, <3>3, <4>1 DEF ReadStood
    <3> HIDE DEF x
    <3> QED BY <1>1, <3>1, <3>3, <3>4
  <2> QED BY <2>1, <2>2
<1> HIDE DEF o, b, old
<1>8. PICK x \in TailRead : ReadStood(x, o, seen[r]) /\ Put(r, i, x) /\ queued' \in [Readers -> BOOLEAN]
  BY <1>7
<1>9. Turned(r, i, x, o, b, seen[r])
  BY <1>1, <1>2, <1>3, <1>4, <1>5, <1>8, Zenon DEF Turned
<1> QED BY <1>5, <1>6, <1>8, <1>9, ReadMoves, Zenon

\* The lines go out: those that end in the buffer and what was read after it.
LEMMA DeliverKeeps == ASSUME TailInv, Watchers, NEW r \in Readers, NEW i \in Slots, Deliver(r, i) PROVE TailInv'
<1> DEFINE old == reads[r][i]
           u == buffer[r] \o old.data
           s == seen[r] \o Lines(u)
<1>1. /\ Len(logs) \in Nat /\ Len(logs) >= 1
      /\ offset[r] \in Nat /\ buffer[r] \in Seq(HalfLine) /\ seen[r] \in Seq(HalfLine)
      /\ Stood(offset[r], buffer[r], seen[r]) /\ old \in TailRead /\ ReadStood(old, offset[r], seen[r])
  BY ReadIs
<1>2. old.at = "read" /\ logs' = logs /\ Ends(r, i)
  BY DEF Deliver, At
<1>3. /\ offset' = [offset EXCEPT ![r] = old.size] /\ buffer' = [buffer EXCEPT ![r] = Rest(u)]
      /\ seen' = [seen EXCEPT ![r] = s]
  <2>1. Kind[r] # "child"
    BY DEF Watchers
  <2> QED BY <2>1 DEF Deliver
<1>4. \A j \in Slots : j # i => At(r, j, "idle")
  <2>1. ~At(r, i, "idle")
    BY <1>2 DEF At
  <2> QED BY <2>1, ReadIs
<1> HIDE DEF old
<1>5. old.data \in Seq(HalfLine) /\ old.size \in Nat /\ old.length \in Nat /\ old.file \in Nat /\ old.file <= Len(logs)
      /\ Upto(seen[r], old.file) /\ \A k \in DOMAIN old.data : old.data[k] = Hole \/ old.data[k][1] = old.file
  BY <1>1, <1>2 DEF TailRead, ReadStood
<1>6. u \in Seq(HalfLine)
  BY <1>1, <1>5
<1>7. s \in Seq(HalfLine) /\ Upto(s, Len(logs))
  <2>1. LineEnds(buffer[r]) = {}
    BY <1>1 DEF Stood
  <2>2. \A n \in DOMAIN Lines(u) : Lines(u)[n][1] = old.file
    BY <1>1, <1>5, <2>1, LinesForward
  <2> HIDE DEF u
  <2>3. Lines(u) \in Seq(HalfLine)
    BY <1>6, LinesAre
  <2>4. s \in Seq(HalfLine) /\ Upto(s, old.file)
    BY <1>1, <1>5, <2>2, <2>3, UptoJoin
  <2> HIDE DEF s
  <2> QED BY <1>1, <1>5, <2>4, UptoMore
<1>8. Rest(u) \in Seq(HalfLine) /\ LineEnds(Rest(u)) = {}
  <2> HIDE DEF u
  <2> QED BY <1>6, RestIs
<1>9. Len(logs) = 1 => /\ old.size <= logs[1] /\ s = FirstLines(old.size \div 2)
                       /\ Rest(u) = UnitsFrom(2 * (old.size \div 2), old.size % 2)
  <2> SUFFICES ASSUME Len(logs) = 1
               PROVE  /\ old.size <= logs[1] /\ s = FirstLines(old.size \div 2)
                      /\ Rest(u) = UnitsFrom(2 * (old.size \div 2), old.size % 2)
    OBVIOUS
  <2>1. seen[r] = FirstLines(offset[r] \div 2) /\ buffer[r] = UnitsFrom(2 * (offset[r] \div 2), offset[r] % 2)
    BY <1>1 DEF Stood
  <2>2. old.size <= logs[1] /\ old.size = offset[r] + old.length /\ old.data = UnitsFrom(offset[r], old.length)
    BY <1>1, <1>2 DEF ReadStood
  <2>3. u = UnitsFrom(2 * (offset[r] \div 2), offset[r] % 2) \o UnitsFrom(offset[r], old.length)
    BY <2>1, <2>2, Zenon
  <2> HIDE DEF u
  <2>4. /\ FirstLines(offset[r] \div 2) \o Lines(u) = FirstLines((offset[r] + old.length) \div 2)
        /\ Rest(u) = UnitsFrom(2 * ((offset[r] + old.length) \div 2), (offset[r] + old.length) % 2)
    BY <1>1, <1>5, <2>3, ReadOn, Zenon
  <2> QED BY <2>1, <2>2, <2>4, Zenon
<1>10. PICK x \in {Idle, [Idle EXCEPT !.at = "stat"]} : Put(r, i, x)
  BY <1>2, EndsIs
<1> DEFINE b == Rest(u)
           o == old.size
<1>11. Stood(o, b, s)
  <2> HIDE DEF u, s
  <2> QED BY <1>7, <1>8, <1>9 DEF Stood
<1> HIDE DEF s, u, b, o
<1>12. x \in TailRead /\ ReadStood(x, o, s) /\ queued' \in [Readers -> BOOLEAN]
  BY <1>2, EndsIs, ReadsAnew
<1>13. Turned(r, i, x, o, b, s)
  BY <1>2, <1>3, <1>5, <1>7, <1>8, <1>10, <1>12, Zenon DEF Turned, o, b
<1> QED BY <1>4, <1>11, <1>12, <1>13, ReadMoves, Zenon

-----------------------------------------------------------------------------
(* The event log: the lines with a character in pieces. *)

Under == {"sized", "open", "opened", "read"}

\* A place inside a line where a read may end is one that stat has found.
Found(n, h) == n % 2 = 1 => n \in h
Broken(g, h) == \A line \in g : line[2] \in Wide /\ 2 * line[2] - 1 \in h

Places(r, o, g, h) ==
    /\ Found(o, h) /\ Broken(g, h)
    /\ \A i \in Slots : reads[r][i].at \in Under => Found(reads[r][i].size, h)

PieceInv ==
    /\ split \in [Readers -> SUBSET Nat] /\ garbled \in [Readers -> SUBSET HalfLine]
    /\ Len(logs) = 1 => \A r \in Readers : Places(r, offset[r], garbled[r], split[r])

\* What a step of reader r in its slot i leaves of it.
Parted(r, i, x, o, g, h) ==
    /\ Put(r, i, x) /\ logs' = logs /\ offset' = [offset EXCEPT ![r] = o]
    /\ garbled' = [garbled EXCEPT ![r] = g] /\ split' = [split EXCEPT ![r] = h]
    /\ g \in SUBSET HalfLine /\ h \in SUBSET Nat /\ split[r] \in SUBSET h

\* A read moves on, the others stay where they were.
LEMMA PieceMoves ==
    ASSUME TailInv, PieceInv, NEW r \in Readers, NEW i \in Slots, NEW x, NEW o, NEW g, NEW h,
           Parted(r, i, x, o, g, h),
           Len(logs) = 1 => Found(o, h) /\ Broken(g, h) /\ (x.at \in Under => Found(x.size, h))
    PROVE  PieceInv'
<1>1. reads \in [Readers -> [Slots -> TailRead]] /\ offset \in [Readers -> Nat]
  BY DEF TailInv, TailTyped
<1>2. /\ reads'[r][i] = x /\ \A j \in Slots : j # i => reads'[r][j] = reads[r][j]
      /\ \A q \in Readers : q # r => reads'[q] = reads[q]
  BY <1>1 DEF Parted, Put
<1>3. /\ offset'[r] = o /\ garbled'[r] = g /\ split'[r] = h
      /\ \A q \in Readers : q # r => offset'[q] = offset[q] /\ garbled'[q] = garbled[q] /\ split'[q] = split[q]
  BY <1>1 DEF Parted, PieceInv
<1>4. split' \in [Readers -> SUBSET Nat] /\ garbled' \in [Readers -> SUBSET HalfLine]
  BY DEF Parted, PieceInv
<1>5. ASSUME Len(logs) = 1, NEW q \in Readers PROVE Places(q, offset[q], garbled[q], split[q])'
  <2>1. Places(q, offset[q], garbled[q], split[q])
    BY <1>5 DEF PieceInv
  <2>2. CASE q # r
    BY <1>2, <1>3, <2>1, <2>2 DEF Places
  <2>3. CASE q = r
    <3>1. Found(offset[q], split[q])' /\ Broken(garbled[q], split[q])'
      BY <1>3, <1>5, <2>3 DEF Found, Broken
    <3>2. ASSUME NEW j \in Slots, reads'[q][j].at \in Under PROVE Found(reads[q][j].size, split[q])'
      <4>1. CASE j = i
        BY <1>2, <1>3, <1>5, <2>3, <3>2, <4>1 DEF Found
      <4>2. CASE j # i
        <5>1. reads'[q][j] = reads[q][j]
          BY <1>2, <2>3, <4>2
        <5>2. Found(reads[q][j].size, split[q])
          BY <2>1, <3>2, <5>1 DEF Places
        <5> QED BY <1>3, <2>3, <5>1, <5>2 DEF Found, Parted
      <4> QED BY <4>1, <4>2
    <3> QED BY <3>1, <3>2 DEF Places
  <2> QED BY <2>2, <2>3
<1>6. logs' = logs
  BY DEF Parted
<1> QED BY <1>4, <1>5, <1>6 DEF PieceInv

\* A step that leaves what the reader has got, and all that stat has found.
LEMMA PieceStays ==
    ASSUME TailInv, PieceInv, NEW r \in Readers, NEW i \in Slots, NEW x,
           Put(r, i, x), logs' = logs, offset' = offset, garbled' = garbled, split' = split,
           x.at \in Under => reads[r][i].at \in Under /\ x.size = reads[r][i].size
    PROVE  PieceInv'
<1>1. Parted(r, i, x, offset[r], garbled[r], split[r])
  <2>1. offset \in [Readers -> Nat]
    BY DEF TailInv, TailTyped
  <2>2. offset' = [offset EXCEPT ![r] = offset[r]]
    BY <2>1
  <2>3. garbled' = [garbled EXCEPT ![r] = garbled[r]] /\ garbled[r] \in SUBSET HalfLine
    BY DEF PieceInv
  <2>4. split' = [split EXCEPT ![r] = split[r]] /\ split[r] \in SUBSET Nat
    BY DEF PieceInv
  <2> QED BY <2>2, <2>3, <2>4 DEF Parted
<1>2. Len(logs) = 1 => /\ Found(offset[r], split[r]) /\ Broken(garbled[r], split[r])
                       /\ x.at \in Under => Found(x.size, split[r])
  BY DEF PieceInv, Places
<1> QED BY <1>1, <1>2, PieceMoves

\* In the first file the line in pieces is the one the offset stands in.
LEMMA PiecesAre ==
    ASSUME NEW o \in Nat, NEW m \in Nat
    PROVE  LET u == UnitsFrom(2 * (o \div 2), o % 2) \o UnitsFrom(o, m)
           IN  \A line \in Pieces(u, o % 2) : line[2] \in Wide /\ 2 * line[2] - 1 = o /\ o % 2 = 1
<1>1. PICK c \in Nat, a \in Nat : o \div 2 = c /\ o % 2 = a /\ o = 2 * c + a /\ a \in {0, 1}
  BY TailHalves
<1>2. PICK d \in Nat : d = 2 * c
  OBVIOUS
<1>3. UnitsFrom(d, a) \o UnitsFrom(o, m) = UnitsFrom(d, a + m)
  <2>1. UnitsFrom(d, a) \o UnitsFrom(d + a, m) = UnitsFrom(d, a + m)
    BY UnitsJoin
  <2>2. d + a = o
    BY <1>1, <1>2
  <2> QED BY <2>1, <2>2, Zenon
<1>4. PICK n \in Nat : n = a + m
  OBVIOUS
<1> DEFINE u == UnitsFrom(2 * c, n)
<1>5. WholeLines(u) = Twos(n \div 2)
  BY FirstEnds
<1>6. DOMAIN u = 1..n /\ \A k \in 1..n : u[k] = <<1, 2 * c + k>>
  <2>1. UnitsFrom(d, n) = [k \in 1..n |-> <<1, d + k>>]
    BY DEF UnitsFrom
  <2> QED BY <1>2, <2>1
<1>7. WholeLines(u) \in SUBSET (1..n)
  <2>1. WholeLines(u) \in SUBSET DOMAIN u
    BY DEF WholeLines, LineEnds
  <2> QED BY <1>6, <2>1, Zenon
<1> HIDE DEF u
<1>8. ASSUME NEW j \in WholeLines(u), j = a + 1, u[j][2] \div 2 \in Wide
      PROVE  LET line == <<u[j][1], u[j][2] \div 2>> IN line[2] \in Wide /\ 2 * line[2] - 1 = o /\ a = 1
  <2>1. PICK e \in 1..(n \div 2) : j = 2 * e
    BY <1>5, <1>8 DEF Twos
  <2>2. a = 1 /\ j = 2
    BY <1>1, <1>8, <2>1
  <2>3. u[j] = <<1, 2 * c + 2>>
    BY <1>6, <1>7, <2>2
  <2>4. u[j][2] \div 2 = c + 1
    BY <2>3
  <2> QED BY <1>1, <1>8, <2>2, <2>4
<1>9. \A line \in Pieces(u, a) : line[2] \in Wide /\ 2 * line[2] - 1 = o /\ a = 1
  BY <1>8 DEF Pieces
<1>10. UnitsFrom(2 * (o \div 2), o % 2) \o UnitsFrom(o, m) = u
  BY <1>1, <1>2, <1>3, <1>4, Zenon DEF u
<1> QED BY <1>1, <1>9, <1>10, Zenon

\* A line in pieces is a line.
LEMMA PiecesTyped ==
    ASSUME NEW u \in Seq(HalfLine), NEW n PROVE Pieces(u, n) \in SUBSET HalfLine
<1>1. ASSUME NEW k \in WholeLines(u) PROVE <<u[k][1], u[k][2] \div 2>> \in HalfLine
  <2>1. u[k] \in HalfLine
    BY EndsAre
  <2>2. \A h \in Nat : h \div 2 \in Nat
    OBVIOUS
  <2> QED BY <2>1, <2>2 DEF HalfLine
<1> QED BY <1>1 DEF Pieces

\* stat answers.
LEMMA StatPieces ==
    ASSUME TailInv, PieceInv, NEW r \in Readers, NEW i \in Slots, Stat(r, i) PROVE PieceInv'
<1> DEFINE x == [Idle EXCEPT !.at = "sized", !.size = Size]
           h == IF Size % 2 = 1 THEN split[r] \union {Size} ELSE split[r]
<1>1. Put(r, i, x) /\ logs' = logs /\ offset' = offset /\ garbled' = garbled /\ split' = [split EXCEPT ![r] = h]
  BY DEF Stat
<1>2. x.size = Size /\ Size \in Nat
  BY ReadIs DEF Idle
<1>3. split[r] \in SUBSET Nat /\ garbled[r] \in SUBSET HalfLine
  BY DEF PieceInv
<1>4. offset' = [offset EXCEPT ![r] = offset[r]] /\ garbled' = [garbled EXCEPT ![r] = garbled[r]]
  BY <1>1 DEF PieceInv, TailInv, TailTyped
<1>5. h \in SUBSET Nat /\ split[r] \in SUBSET h /\ Found(Size, h)
  BY <1>2, <1>3 DEF Found
<1> HIDE DEF x, h
<1>6. Parted(r, i, x, offset[r], garbled[r], h)
  BY <1>1, <1>3, <1>4, <1>5 DEF Parted
<1>7. Len(logs) = 1 => Found(offset[r], h) /\ Broken(garbled[r], h)
  BY <1>5 DEF PieceInv, Places, Found, Broken
<1> QED BY <1>2, <1>5, <1>6, <1>7, PieceMoves

\* The size is looked at, and the offset stays where it is in the first file.
LEMMA SizedPieces ==
    ASSUME TailInv, PieceInv, NEW r \in Readers, NEW i \in Slots, Sized(r, i) PROVE PieceInv'
<1> DEFINE old == reads[r][i]
           o == From(r, i)
<1>1. logs' = logs /\ garbled' = garbled /\ split' = split /\ offset' = [offset EXCEPT ![r] = o] /\ old.at = "sized"
  BY DEF Sized, At
<1>2. old \in TailRead /\ ReadStood(old, offset[r], seen[r]) /\ offset[r] \in Nat
  BY ReadIs
<1>3. Len(logs) = 1 => o = offset[r]
  <2>1. Len(logs) = 1 => offset[r] <= old.size /\ old.size \in Nat
    BY <1>1, <1>2 DEF ReadStood, TailRead
  <2> QED BY <1>2, <2>1 DEF From
<1>4. \E x : Put(r, i, x) /\ (x.at \in Under => x.size = old.size)
  <2>1. CASE old.size = o
    <3>1. Ends(r, i)
      BY <2>1 DEF Sized
    <3>2. PICK x \in {Idle, [Idle EXCEPT !.at = "stat"]} : Put(r, i, x)
      BY <3>1, EndsIs
    <3>3. x.at \notin Under
      BY DEF Idle, Under
    <3> QED BY <3>2, <3>3
  <2>2. CASE old.size # o
    <3> DEFINE x == [old EXCEPT !.at = "open", !.length = old.size - o]
    <3>1. Put(r, i, x)
      BY <2>2 DEF Sized
    <3>2. x.size = old.size
      BY <1>2 DEF TailRead
    <3> HIDE DEF x
    <3> QED BY <3>1, <3>2
  <2> QED BY <2>1, <2>2
<1>5. PICK x : Put(r, i, x) /\ (x.at \in Under => x.size = old.size)
  BY <1>4
<1>6. garbled' = [garbled EXCEPT ![r] = garbled[r]] /\ garbled[r] \in SUBSET HalfLine
      /\ split' = [split EXCEPT ![r] = split[r]] /\ split[r] \in SUBSET Nat
  BY <1>1 DEF PieceInv
<1>7. Len(logs) = 1 => Found(offset[r], split[r]) /\ Broken(garbled[r], split[r]) /\ Found(old.size, split[r])
  <2>1. old.at \in Under
    BY <1>1 DEF Under
  <2> QED BY <2>1 DEF PieceInv, Places
<1> HIDE DEF o, old
<1>8. Parted(r, i, x, o, garbled[r], split[r])
  BY <1>1, <1>5, <1>6 DEF Parted
<1>9. Len(logs) = 1 => /\ Found(o, split[r]) /\ Broken(garbled[r], split[r])
                       /\ x.at \in Under => Found(x.size, split[r])
  BY <1>3, <1>5, <1>7
<1> QED BY <1>8, <1>9, PieceMoves

\* The lines go out.
LEMMA DeliverPieces ==
    ASSUME TailInv, PieceInv, Watchers, NEW r \in Readers, NEW i \in Slots, Deliver(r, i) PROVE PieceInv'
<1> DEFINE old == reads[r][i]
           u == buffer[r] \o old.data
           p == Pieces(u, Len(buffer[r]))
           g == garbled[r] \union p
<1>1. /\ offset[r] \in Nat /\ buffer[r] \in Seq(HalfLine) /\ old \in TailRead
      /\ Stood(offset[r], buffer[r], seen[r]) /\ ReadStood(old, offset[r], seen[r])
  BY ReadIs
<1>2. old.at = "read" /\ logs' = logs /\ split' = split /\ Ends(r, i)
  BY DEF Deliver, At
<1>3. offset' = [offset EXCEPT ![r] = old.size] /\ garbled' = [garbled EXCEPT ![r] = g]
  <2>1. Kind[r] # "child"
    BY DEF Watchers
  <2> QED BY <2>1 DEF Deliver
<1>4. PICK x \in {Idle, [Idle EXCEPT !.at = "stat"]} : Put(r, i, x)
  BY <1>2, EndsIs
<1>5. x.at \notin Under
  BY DEF Idle, Under
<1>6. Len(logs) = 1 => Found(offset[r], split[r]) /\ Broken(garbled[r], split[r]) /\ Found(old.size, split[r])
  <2>1. old.at \in Under
    BY <1>2 DEF Under
  <2> QED BY <2>1 DEF PieceInv, Places
<1>7. split[r] \in SUBSET Nat /\ garbled[r] \in SUBSET HalfLine /\ split' = [split EXCEPT ![r] = split[r]]
  BY <1>2 DEF PieceInv
<1> HIDE DEF old
<1>8. u \in Seq(HalfLine)
  BY <1>1 DEF TailRead
<1>9. p \in SUBSET HalfLine
  <2> HIDE DEF u
  <2> QED BY <1>8, PiecesTyped
<1>10. Len(logs) = 1 => Broken(p, split[r])
  <2> SUFFICES ASSUME Len(logs) = 1 PROVE Broken(p, split[r])
    OBVIOUS
  <2>1. /\ buffer[r] = UnitsFrom(2 * (offset[r] \div 2), offset[r] % 2)
        /\ old.data = UnitsFrom(offset[r], old.length) /\ old.length \in Nat
    BY <1>1, <1>2 DEF Stood, ReadStood, TailRead
  <2>2. Len(buffer[r]) = offset[r] % 2
    <3>1. PICK d \in Nat, a \in Nat : d = 2 * (offset[r] \div 2) /\ a = offset[r] % 2
      <4>1. \A n \in Nat : 2 * (n \div 2) \in Nat /\ n % 2 \in Nat
        OBVIOUS
      <4> QED BY <1>1, <4>1, Zenon
    <3>2. Len(UnitsFrom(d, a)) = a
      BY UnitsAre
    <3> QED BY <2>1, <3>1, <3>2, Zenon
  <2>3. u = UnitsFrom(2 * (offset[r] \div 2), offset[r] % 2) \o UnitsFrom(offset[r], old.length)
    BY <2>1, Zenon
  <2> HIDE DEF u
  <2>4. \A line \in Pieces(u, offset[r] % 2) :
           line[2] \in Wide /\ 2 * line[2] - 1 = offset[r] /\ offset[r] % 2 = 1
    BY <1>1, <2>1, <2>3, PiecesAre, Zenon
  <2>5. Pieces(u, offset[r] % 2) = p
    BY <2>2, Zenon
  <2> HIDE DEF p
  <2> QED BY <1>6, <2>4, <2>5 DEF Broken, Found
<1> HIDE DEF u, p
<1>11. g \in SUBSET HalfLine /\ (Len(logs) = 1 => Broken(g, split[r]))
  BY <1>6, <1>7, <1>9, <1>10 DEF Broken
<1> HIDE DEF g
<1>12. Parted(r, i, x, old.size, g, split[r])
  BY <1>2, <1>3, <1>4, <1>7, <1>11 DEF Parted
<1> QED BY <1>5, <1>6, <1>11, <1>12, PieceMoves

\* Every step.
LEMMA PieceSteps == ASSUME Watchers, TailInv, PieceInv, [TailNext]_tailVars PROVE PieceInv'
<1>1. ASSUME logs' = logs \/ logs' = Append(logs, 0) \/ Len(logs') = Len(logs),
             UNCHANGED <<offset, reads, garbled, split>>
      PROVE  PieceInv'
  <2>1. PICK n \in Nat : Len(logs) = n /\ n >= 1 /\ logs \in Seq(Nat)
    BY DEF TailInv, TailTyped
  <2>2. Len(Append(logs, 0)) = n + 1
    BY <2>1
  <2>3. Len(logs') = 1 => Len(logs) = 1
    <3>1. CASE logs' = logs \/ Len(logs') = Len(logs)
      BY <3>1
    <3>2. CASE logs' = Append(logs, 0)
      <4>1. Len(logs') = n + 1
        BY <2>2, <3>2, Zenon
      <4>2. n + 1 # 1
        BY <2>1
      <4> QED BY <4>1, <4>2, Zenon
    <3> QED BY <1>1, <3>1, <3>2
  <2> QED BY <1>1, <2>3 DEF PieceInv, Places, Found, Broken
<1>2. CASE Write
  <2>1. Len(logs') = Len(logs)
    BY <1>2 DEF Write, TailInv, TailTyped
  <2> QED BY <1>1, <1>2, <2>1 DEF Write
<1>3. CASE Rotate
  BY <1>1, <1>3 DEF Rotate
<1>4. ASSUME NEW r \in Readers, Tick(r) PROVE PieceInv'
  <2>1. CASE MayStart(r)
    <3> DEFINE x == [Idle EXCEPT !.at = "stat"]
    <3>1. PICK i \in Slots : Put(r, i, x)
      BY <1>4, <2>1 DEF Tick
    <3>2. logs' = logs /\ offset' = offset /\ garbled' = garbled /\ split' = split /\ x.at \notin Under
      BY <1>4 DEF Tick, Idle, Under
    <3> HIDE DEF x
    <3> QED BY <3>1, <3>2, PieceStays
  <2>2. CASE ~MayStart(r)
    BY <1>1, <1>4, <2>2 DEF Tick
  <2> QED BY <2>1, <2>2
<1>5. ASSUME NEW r \in Readers, NEW i \in Slots, Opened(r, i) PROVE PieceInv'
  <2> DEFINE old == reads[r][i]
             x == [old EXCEPT !.at = "opened", !.file = Len(logs), !.total = Size]
  <2>1. Put(r, i, x) /\ logs' = logs /\ offset' = offset /\ garbled' = garbled /\ split' = split
    <3>1. Kind[r] # "child"
      BY DEF Watchers
    <3> QED BY <1>5, <3>1 DEF Opened
  <2>2. old \in TailRead /\ old.at \in Under
    BY <1>5, ReadIs DEF Opened, At, Under
  <2>3. x.size = old.size
    <3> HIDE DEF old
    <3> QED BY <2>2 DEF TailRead
  <2> HIDE DEF x
  <2> QED BY <2>1, <2>2, <2>3, PieceStays
<1>6. ASSUME NEW r \in Readers, NEW i \in Slots, ReadAt(r, i) PROVE PieceInv'
  <2> DEFINE old == reads[r][i]
             d == Units(r, old.file, logs[old.file], old.length)
             x == [old EXCEPT !.at = "read", !.data = d]
  <2>1. Put(r, i, x) /\ logs' = logs /\ offset' = offset /\ garbled' = garbled /\ split' = split
    BY <1>6 DEF ReadAt
  <2>2. old \in TailRead /\ old.at \in Under
    BY <1>6, ReadIs DEF ReadAt, At, Under
  <2>3. x.size = old.size
    <3> HIDE DEF old, d
    <3> QED BY <2>2 DEF TailRead
  <2> HIDE DEF x
  <2> QED BY <2>1, <2>2, <2>3, PieceStays
<1>7. ASSUME NEW r \in Readers, NEW i \in Slots, Fails(r, i) PROVE PieceInv'
  <2>1. Put(r, i, Idle) /\ logs' = logs /\ offset' = offset /\ garbled' = garbled /\ split' = split
    BY <1>7 DEF Fails
  <2>2. Idle.at \notin Under
    BY DEF Idle, Under
  <2> QED BY <2>1, <2>2, PieceStays
<1>8. CASE UNCHANGED tailVars
  BY <1>1, <1>8 DEF tailVars
<1> QED BY <1>2, <1>3, <1>4, <1>5, <1>6, <1>7, <1>8, StatPieces, SizedPieces, DeliverPieces DEF TailNext, Step

\* watch.ts, for the readers of createJsonlWatcher: as long as the log is one
\* file they take its lines, each of them once and in their order, whatever
\* halves of lines the writer lets them see, and a line is garbled only where
\* a stat found the file to end inside one of its characters; later they never
\* go back to an older file.
THEOREM TailsExactly == ASSUME Watchers PROVE TailSpec => []TailExact
<1>1. TailInit => TailInv
  BY TailStarts
<1>2. TailInv /\ [TailNext]_tailVars => TailInv'
  <2> SUFFICES ASSUME TailInv, [TailNext]_tailVars PROVE TailInv'
    OBVIOUS
  <2>1. CASE Write
    BY <2>1, WriteKeeps
  <2>2. CASE Rotate
    BY <2>2, RotateKeeps
  <2>3. ASSUME NEW r \in Readers, Tick(r) PROVE TailInv'
    BY <2>3, TickKeeps
  <2>4. ASSUME NEW r \in Readers, NEW i \in Slots, Stat(r, i) PROVE TailInv'
    BY <2>4, StatKeeps
  <2>5. ASSUME NEW r \in Readers, NEW i \in Slots, Sized(r, i) PROVE TailInv'
    BY <2>5, SizedKeeps
  <2>6. ASSUME NEW r \in Readers, NEW i \in Slots, Opened(r, i) PROVE TailInv'
    BY <2>6, OpenedKeeps
  <2>7. ASSUME NEW r \in Readers, NEW i \in Slots, ReadAt(r, i) PROVE TailInv'
    BY <2>7, ReadAtKeeps
  <2>8. ASSUME NEW r \in Readers, NEW i \in Slots, Deliver(r, i) PROVE TailInv'
    BY <2>8, DeliverKeeps
  <2>10. ASSUME NEW r \in Readers, NEW i \in Slots, Fails(r, i) PROVE TailInv'
    BY <2>10, FailsKeeps
  <2>9. CASE UNCHANGED tailVars
    <3>1. logs' = logs /\ offset' = offset /\ buffer' = buffer /\ reads' = reads /\ queued' = queued /\ seen' = seen
      BY <2>9 DEF tailVars
    <3>2. TailTyped' /\ OneRead'
      BY <3>1 DEF TailInv, TailTyped, OneRead, At
    <3>3. ASSUME NEW r \in Readers
          PROVE  Stood(offset[r], buffer[r], seen[r])' /\ \A i \in Slots : ReadStood(reads[r][i], offset[r], seen[r])'
      BY <3>1 DEF TailInv, Stood, ReadStood
    <3> QED BY <3>2, <3>3 DEF TailInv
  <2> QED BY <2>1, <2>2, <2>3, <2>4, <2>5, <2>6, <2>7, <2>8, <2>9, <2>10 DEF TailNext, Step
<1>4. TailInit => PieceInv
  <2> SUFFICES ASSUME TailInit PROVE PieceInv
    OBVIOUS
  <2>1. split = [r \in Readers |-> {}] /\ garbled = [r \in Readers |-> {}]
    BY DEF TailInit
  <2>2. \A r \in Readers : offset[r] = 0 /\ \A i \in Slots : reads[r][i].at = "idle"
    BY DEF TailInit, Slots, Idle
  <2> QED BY <2>1, <2>2 DEF PieceInv, Places, Found, Broken, Under
<1>3. TailInv /\ PieceInv => TailExact
  <2> SUFFICES ASSUME TailInv, PieceInv, NEW r \in Readers
               PROVE  /\ Len(logs) = 1 =>
                            /\ seen[r] = [i \in DOMAIN seen[r] |-> <<1, i>>]
                            /\ \A line \in garbled[r] : line[2] \in Wide /\ 2 * line[2] - 1 \in split[r]
                      /\ \A i, j \in DOMAIN seen[r] : i < j => seen[r][i][1] <= seen[r][j][1]
    BY DEF TailExact
  <2>1. Stood(offset[r], buffer[r], seen[r])
    BY DEF TailInv
  <2>2. Len(logs) = 1 => seen[r] = [i \in DOMAIN seen[r] |-> <<1, i>>]
    BY <2>1 DEF Stood, FirstLines
  <2>3. Len(logs) = 1 => Broken(garbled[r], split[r])
    BY DEF PieceInv, Places
  <2> QED BY <2>1, <2>2, <2>3 DEF Stood, Upto, Broken
<1>5. TailInv /\ PieceInv /\ [TailNext]_tailVars => PieceInv'
  BY PieceSteps
<1> QED BY <1>1, <1>2, <1>3, <1>4, <1>5, PTL DEF TailSpec
=============================================================================
