--------------------------- MODULE EnclaveWatcher ---------------------------
(***************************************************************************)
(* The script that starts and watches the enclave of an EC2 instance       *)
(* (enclave_watcher.sh) under the unit that restarts it (enclave.service). *)
(* Failed starts are counted in a file that outlives the script; the fifth *)
(* has the instance replaced.  Errors of AWS calls end the script (set -e) *)
(* without being counted.  The unit sets no start limit of its own, so     *)
(* that systemd's default holds: it gives a unit up that is started too    *)
(* often in too short a time.  Time is left out: a script that sleeps or   *)
(* waits before it ends has used up the interval, another may have.        *)
(***************************************************************************)
EXTENDS Naturals

CONSTANTS
  Limit,      \* failed starts before the instance is given up: 5
  StartLimit, \* starts that systemd allows in its interval: 5
  Sizes,      \* sizes of the enclave, as tags can give them
  Default,    \* the size when the tag cannot be read or is no number
  NoNumber,   \* a tag that is missing or no number
  MaxFaults,  \* bound on failing commands
  MaxChanges  \* bound on changes of the tag, losses and repairs of the enclave

ASSUME WatcherAssumption ==
  /\ {Limit, StartLimit} \subseteq Nat \ {0}
  /\ Sizes \subseteq Nat /\ Default \in Sizes /\ NoNumber \notin Sizes
  /\ MaxFaults \in Nat /\ MaxChanges \in Nat

VARIABLES
  pc,        \* where the script is; "off" between its end and its restart,
             \* "failed" once systemd has given up
  burst,     \* starts in the current interval
  count,     \* the failure count file
  enclave,   \* an enclave runs
  tag,       \* the enclave_memory_mib tag
  yaml,      \* the size in allocator.yaml
  reserved,  \* the size nitro-enclaves-allocator has reserved
  startable, \* the image can start
  permitted, \* the instance has its role and its tags
  unhealthy, \* the instance is marked Unhealthy
  failures,  \* history: starts that failed since the last one that succeeded
  faults, changes

machine == <<tag, startable, permitted>>
vars == <<pc, burst, count, enclave, yaml, reserved, machine, unhealthy, failures,
          faults, changes>>

-----------------------------------------------------------------------------
(* The unit requires the allocator: it has reserved what the image's        *)
(* allocator.yaml says before the script runs.                              *)
Init ==
  /\ pc = "off" /\ count = 0 /\ enclave = FALSE
  /\ tag \in Sizes \cup {NoNumber} /\ yaml = Default /\ reserved = Default
  /\ startable \in BOOLEAN /\ permitted \in BOOLEAN /\ burst = 0
  /\ unhealthy = FALSE /\ failures = 0 /\ faults = 0 /\ changes = 0

(* The script ends at once, or after it has slept or waited.                *)
EndsQuickly == pc' = "off" /\ burst' \in {0, burst}
EndsSlowly == pc' = "off" /\ burst' = 0

(* Restart=always, within the limit.                                        *)
Restart ==
  /\ pc = "off"
  /\ IF burst < StartLimit THEN pc' = "permissions" /\ burst' = burst + 1
                           ELSE pc' = "failed" /\ UNCHANGED burst
  /\ UNCHANGED <<count, enclave, yaml, reserved, machine, unhealthy, failures,
                 faults, changes>>

(* A command fails and ends the script; ExecStop then terminates an enclave *)
(* that was announced as ready.                                             *)
CommandFails ==
  /\ pc \in {"permissions", "allocator", "mark", "watch"} /\ faults < MaxFaults
  /\ EndsQuickly /\ faults' = faults + 1
  /\ enclave' = (enclave /\ pc # "watch")
  /\ UNCHANGED <<count, yaml, reserved, machine, unhealthy, failures, changes>>

CheckPermissions ==
  /\ pc = "permissions"
  /\ IF permitted THEN pc' = "allocator" /\ UNCHANGED burst ELSE EndsQuickly
  /\ UNCHANGED <<count, enclave, yaml, reserved, machine, unhealthy, failures,
                 faults, changes>>

(* fetch_tag_value, and its default.                                        *)
TagValue == IF tag \in Sizes THEN tag ELSE Default

(* The file is edited; the allocator is enabled and started, which does     *)
(* nothing to a unit that is active.                                        *)
UpdateAllocatorConfig ==
  /\ pc = "allocator" /\ pc' = "run"
  /\ \/ yaml' = TagValue /\ UNCHANGED faults
     \/ faults < MaxFaults /\ yaml' = Default /\ faults' = faults + 1
  /\ UNCHANGED <<burst, count, enclave, reserved, machine, unhealthy, failures,
                 changes>>

(* Mutant: a start that succeeds does not reset the count.                  *)
ResetKeeps == count

Reset == 0

(* run-enclave succeeds: the count is reset and systemd told.               *)
EnclaveStarts ==
  /\ pc = "run" /\ startable /\ ~enclave /\ yaml <= reserved
  /\ enclave' = TRUE /\ count' = Reset /\ failures' = 0
  /\ pc' = "watch"
  /\ UNCHANGED <<burst, yaml, reserved, machine, unhealthy, faults, changes>>

(* The count that the file holds, plus one.                                 *)
Counted == count + 1

(* run-enclave fails, for a lasting reason or once: the failure is counted, *)
(* and the fifth goes on to mark the instance.                              *)
EnclaveFails ==
  /\ pc = "run"
  /\ \/ ~ (startable /\ ~enclave /\ yaml <= reserved) /\ UNCHANGED faults
     \/ faults < MaxFaults /\ faults' = faults + 1
  /\ count' = IF Counted < Limit THEN Counted ELSE Limit
  /\ failures' = IF failures < Limit THEN failures + 1 ELSE Limit
  /\ IF Counted >= Limit THEN pc' = "mark" /\ UNCHANGED burst ELSE EndsSlowly
  /\ UNCHANGED <<enclave, yaml, reserved, machine, unhealthy, changes>>

(* set-instance-health, then waiting for the replacement.                   *)
MarkUnhealthy ==
  /\ pc = "mark" /\ pc' = "replace"
  /\ unhealthy' = TRUE
  /\ UNCHANGED <<burst, count, enclave, yaml, reserved, machine, failures, faults,
                 changes>>

(* The script has not told systemd that it is ready: waiting for the        *)
(* replacement ends when the start of the unit times out.                   *)
StartTimesOut ==
  /\ pc = "replace" /\ faults < MaxFaults
  /\ EndsSlowly /\ faults' = faults + 1
  /\ UNCHANGED <<count, enclave, yaml, reserved, machine, unhealthy, failures,
                 changes>>

(* watch_enclave: the script ends when the enclave does not run.            *)
WatchEnclave ==
  /\ pc = "watch" /\ ~enclave /\ EndsQuickly
  /\ UNCHANGED <<count, enclave, yaml, reserved, machine, unhealthy, failures,
                 faults, changes>>

(* The watchdog kills the script when describe-enclaves hangs; ExecStop is  *)
(* not run, and the enclave runs on.                                        *)
WatchdogKills ==
  /\ pc = "watch" /\ faults < MaxFaults
  /\ EndsSlowly /\ faults' = faults + 1
  /\ UNCHANGED <<count, enclave, yaml, reserved, machine, unhealthy, failures,
                 changes>>

(* The enclave ends, its image breaks or is repaired, the role or a tag of  *)
(* the instance changes.                                                    *)
World ==
  /\ changes < MaxChanges /\ changes' = changes + 1
  /\ \/ enclave /\ enclave' = FALSE /\ UNCHANGED machine
     \/ startable' = ~startable /\ UNCHANGED <<enclave, tag, permitted>>
     \/ permitted' = ~permitted /\ UNCHANGED <<enclave, tag, startable>>
     \/ /\ tag' \in (Sizes \cup {NoNumber}) \ {tag}
        /\ UNCHANGED <<enclave, startable, permitted>>
  /\ UNCHANGED <<pc, burst, count, yaml, reserved, unhealthy, failures, faults>>

Script ==
  \/ Restart \/ CheckPermissions \/ UpdateAllocatorConfig
  \/ EnclaveStarts \/ EnclaveFails \/ MarkUnhealthy \/ WatchEnclave

Next == Script \/ CommandFails \/ StartTimesOut \/ WatchdogKills \/ World

-----------------------------------------------------------------------------
(* Every variable has its type.                                             *)
TypeOK ==
  /\ pc \in {"off", "failed", "permissions", "allocator", "run", "watch", "mark",
             "replace"}
  /\ burst \in 0 .. StartLimit
  /\ count \in 0 .. Limit /\ failures \in 0 .. Limit
  /\ {yaml, reserved} \subseteq Sizes
  /\ {enclave, startable, permitted, unhealthy} \subseteq BOOLEAN

(* An instance is given up only after five starts in a row that failed,     *)
(* whatever ended the script in between ("If the enclave startup failure    *)
(* count is greater or equal to 5").                                        *)
GivenUpAfterLimit == [][~unhealthy /\ unhealthy' => failures = Limit]_vars
=============================================================================
