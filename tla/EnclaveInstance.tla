-------------------------- MODULE EnclaveInstance ---------------------------
(***************************************************************************)
(* An EC2 instance: the watcher on its host (EnclaveWatcher) and the TCA   *)
(* process in the enclave that the watcher starts (ServerLifecycle).  The  *)
(* watcher sees only whether the enclave runs; the process is the command  *)
(* of the enclave's image, which ends when the process ends, and takes it  *)
(* along when it is terminated or lost.                                    *)
(***************************************************************************)
EXTENDS EnclaveWatcher

CONSTANTS MaxServerFaults \* bound on failing iterations of one process

VARIABLES main, server, status, monitor, step, okay, event, reporter, gauge,
          package, hook, jvm, serverFaults

Process == INSTANCE ServerLifecycle
             WITH faults <- serverFaults, MaxFaults <- MaxServerFaults

process == <<main, server, status, monitor, step, okay, event, reporter,
             gauge, package, hook, jvm, serverFaults>>
allVars == <<vars, process>>

(* A process that begins, or of which nothing is left.                      *)
Fresh ==
  /\ main' = "init" /\ server' = "new" /\ status' = "UNKNOWN"
  /\ monitor' = "new" /\ step' = "none" /\ okay' = FALSE /\ event' = "none"
  /\ reporter' = "new" /\ gauge' = FALSE /\ package' = FALSE
  /\ hook' = "none" /\ jvm' = "up" /\ serverFaults' = 0

-----------------------------------------------------------------------------
InstanceInit == Init /\ Process!Init

(* What the host does to the enclave it does to the process.                *)
Follows == IF enclave' = enclave THEN UNCHANGED process ELSE Fresh

HostRuns == Script /\ Follows
HostFails == (CommandFails \/ StartTimesOut \/ WatchdogKills \/ World) /\ Follows

ProcessRuns == enclave /\ Process!Runs /\ UNCHANGED vars

(* The process is asked to end.                                             *)
ProcessStopped ==
  /\ enclave /\ changes < MaxChanges /\ changes' = changes + 1
  /\ Process!Terminate
  /\ UNCHANGED <<pc, burst, count, enclave, yaml, reserved, machine, unhealthy,
                 failures, faults>>

EnclaveEnds ==
  /\ enclave /\ jvm = "halted"
  /\ enclave' = FALSE /\ Fresh
  /\ UNCHANGED <<pc, burst, count, yaml, reserved, machine, unhealthy, failures,
                 faults, changes>>

InstanceNext ==
  HostRuns \/ HostFails \/ ProcessRuns \/ ProcessStopped \/ EnclaveEnds

InstanceSpec == InstanceInit /\ [][InstanceNext]_allVars

(* systemd restarts the script and its commands return; the threads of the  *)
(* process run; the schedulers run their services again and again.          *)
FairInstanceSpec ==
  /\ InstanceSpec
  /\ WF_allVars(HostRuns) /\ WF_allVars(EnclaveEnds)
  /\ WF_allVars(enclave /\ Process!MainThread /\ UNCHANGED vars)
  /\ WF_allVars(enclave /\ Process!ServerThreads /\ UNCHANGED vars)
  /\ WF_allVars(enclave /\ Process!Hook /\ UNCHANGED vars)
  /\ WF_allVars(enclave /\ Process!MonitorSteps /\ UNCHANGED vars)
  /\ WF_allVars(enclave /\ Process!Report /\ UNCHANGED vars)

-----------------------------------------------------------------------------
(* A load balancer that sees a healthy answer may send requests: the        *)
(* enclave runs, its server accepts them, has roots to sign with and is not *)
(* being stopped.                                                           *)
HealthyMeansReady == Process!IsHealthy => enclave /\ server = "up" /\ package

(* Host and process are in states of their types, and health means service. *)
InstanceInvariant == TypeOK /\ Process!TypeOK /\ HealthyMeansReady

(* Once stop() has announced the end, the process is never healthy again.   *)
NeverHealthyAgain ==
  [][status = "NOT_SERVING" => status' # "SERVING"]_allVars

(* An instance does not stay without service unnoticed: in the end its      *)
(* process is healthy and watched, or the instance is marked for            *)
(* replacement, however often the configuration, the generation or the      *)
(* reload fail before they succeed and whatever ends the script or the      *)
(* process in between.  There are these exceptions, and no other:           *)
(* - main has ended with an exception, the threads of the services keep the *)
(*   process alive, and the watcher does not ask for its health;            *)
(* - main ends the process again and again: the enclave has started every   *)
(*   time, so nothing is counted;                                           *)
(* - the instance stays without its role or its tags, which the script      *)
(*   checks without counting;                                               *)
(* - such quick ends have met systemd's start limit: nothing brings the     *)
(*   unit back, also when what they came from has been repaired.            *)
HealthyOrReplaced ==
  \/ <>[](Process!IsHealthy /\ pc = "watch")
  \/ <>[]unhealthy
  \/ <>[](enclave /\ main = "ended")
  \/ []<>(main = "ended" /\ jvm = "halted")
  \/ <>[]~permitted
  \/ <>[](pc = "failed")
=============================================================================
