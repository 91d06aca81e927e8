------------------------------- MODULE MCHost -------------------------------
(* The processes and files one host keeps around the daemon, each machine in *)
(* its small instance: the daemons that start on one state root              *)
(* (InstanceLock), an adapter and the client that talks to it (AdapterPipe), *)
(* and a reader that follows the event log (LogTail).  They share no state,  *)
(* so a behaviour runs one of them, chosen at its start; the others stay as  *)
(* they began.                                                               *)
EXTENDS InstanceLock, AdapterPipe, LogTail

CONSTANT Machines

VARIABLE machine

hostVars == <<machine, vars, pipeVars, tailVars>>

MCStarters == [flock |-> 3, slow |-> 1, excl |-> 2]
MCKind == [r \in Readers |-> "watcher"]

HostInit ==
    /\ machine \in Machines
    /\ Init /\ (machine # "lock" => mode = CHOOSE m \in Modes : TRUE)
    /\ PipeInit /\ TailInit

RunsLock == machine = "lock" /\ Next /\ UNCHANGED <<machine, pipeVars, tailVars>>
RunsPipe == machine = "pipe" /\ PipeNext /\ UNCHANGED <<machine, vars, tailVars>>
RunsLog  == machine = "log" /\ TailNext /\ UNCHANGED <<machine, vars, pipeVars>>

HostNext == RunsLock \/ RunsPipe \/ RunsLog

\* The fairness of each machine, for the one that runs.
HostFairness ==
    /\ \A p \in Procs :
          /\ WF_vars(machine = "lock" /\ Own(p))
          /\ WF_vars(machine = "lock" /\ (Publish(p) \/ BootFails(p)))
    /\ WF_pipeVars(machine = "pipe" /\ PipeOwn)
    /\ WF_pipeVars(machine = "pipe" /\ TimesOut)
    /\ WF_pipeVars(machine = "pipe" /\ GateTimesOut)

HostSpec == HostInit /\ [][HostNext]_hostVars /\ HostFairness
=============================================================================
