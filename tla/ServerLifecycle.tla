-------------------------- MODULE ServerLifecycle ---------------------------
(***************************************************************************)
(* The life of one TCA process: the main thread (ServerMain.java), the     *)
(* Armeria server and its health (TcaServer.java), the certificate monitor *)
(* (ScheduledCertificateMonitor.java), the validity reporter and the       *)
(* shutdown hook.                                                          *)
(***************************************************************************)
EXTENDS Naturals

CONSTANTS MaxFaults \* bound on failing iterations of the monitor

VARIABLES
  main,      \* where the main thread is
  server,    \* state of the Armeria server
  status,    \* HealthManager.currentStatus
  monitor,   \* state of the certificate monitor
  step,      \* step of its iteration
  okay,      \* generationSucceeded of its iteration
  event,     \* the last MbsEvent
  reporter,  \* state of the validity reporter
  gauge,     \* the validity metric has been set
  package,   \* a trust package is active
  hook,      \* state of the shutdown hook
  jvm,       \* "up", "exiting" or "halted"
  faults

services == <<monitor, step, okay, event, reporter, gauge, package>>

-----------------------------------------------------------------------------
Init ==
  /\ main = "init" /\ server = "new" /\ status = "UNKNOWN"
  /\ monitor = "new" /\ step = "none" /\ okay = FALSE /\ event = "none"
  /\ reporter = "new" /\ gauge = FALSE /\ package = FALSE
  /\ hook = "none" /\ jvm = "up" /\ faults = 0

Alive == jvm # "halted"

(* The reporter and the monitor are started, then the server.               *)
MainStarts ==
  /\ Alive /\ main = "init" /\ main' = "joining"
  /\ reporter' = "running" /\ monitor' = "running"
  /\ server' = "starting"
  /\ UNCHANGED <<status, step, okay, event, gauge, package, hook, jvm, faults>>

(* main throws before that, by its arguments or in the injection of a       *)
(* component: with no service started the process ends, else their threads  *)
(* keep it alive.                                                           *)
MainFails ==
  /\ Alive /\ main = "init" /\ main' = "ended"
  /\ \/ jvm' = "halted" /\ UNCHANGED <<reporter, monitor>>
     \/ /\ reporter' = "running" /\ monitor' \in {"new", "running"}
        /\ UNCHANGED jvm
  /\ UNCHANGED <<server, status, step, okay, event, gauge, package, hook, faults>>

(* Armeria opens its port, or cannot.                                       *)
ServerStarts ==
  /\ Alive /\ server = "starting" /\ server' = "started"
  /\ UNCHANGED <<main, status, services, hook, jvm, faults>>

ServerStartFails ==
  /\ Alive /\ server = "starting" /\ server' = "failed"
  /\ UNCHANGED <<main, status, services, hook, jvm, faults>>

(* thenRun, on a thread of the server.                                      *)
SetServing ==
  /\ Alive /\ server \in {"started", "stopping"} /\ main = "joining"
  /\ status' = "SERVING" /\ main' = "joined"
  /\ server' = IF server = "started" THEN "up" ELSE server
  /\ UNCHANGED <<services, hook, jvm, faults>>

(* join() throws when the start has failed: the main thread ends, and the   *)
(* threads of the two services keep the process alive.                      *)
MainThrows ==
  /\ Alive /\ main = "joining" /\ server = "failed" /\ main' = "ended"
  /\ UNCHANGED <<server, status, services, hook, jvm, faults>>

(* Mutant: the hook is registered before the server has started.            *)
RegistersFromEarly == {"joining", "joined"}

(* start().join() comes before addShutdownHook.                             *)
RegistersFrom == {"joined"}

(* addShutdownHook throws once the JVM is exiting.                          *)
MainRegistersHook ==
  /\ Alive /\ main \in RegistersFrom /\ hook = "none"
  /\ hook' = IF jvm = "up" THEN "registered" ELSE "refused"
  /\ UNCHANGED <<main, server, status, services, jvm, faults>>

(* SIGTERM: the JVM starts the hook it has, or halts.                       *)
Terminate ==
  /\ jvm = "up"
  /\ IF hook = "registered" THEN jvm' = "exiting" /\ hook' = "started"
                            ELSE jvm' = "halted" /\ UNCHANGED hook
  /\ UNCHANGED <<main, server, status, services, faults>>

(* Mutant: the status is left alone.                                        *)
StatusOnStopSame == status

StatusOnStop == "NOT_SERVING"

(* The hook: stop() sets the status, then stops the server; it waits for it *)
(* and stops the services, which does not wait for an iteration.            *)
HookStatus ==
  /\ Alive /\ hook = "started" /\ hook' = "status"
  /\ status' = StatusOnStop
  /\ UNCHANGED <<main, server, services, jvm, faults>>

HookStopsServer ==
  /\ Alive /\ hook = "status" /\ hook' = "waiting"
  /\ server' = "stopping"
  /\ UNCHANGED <<main, status, services, jvm, faults>>

ServerStops ==
  /\ Alive /\ server = "stopping" /\ server' = "down"
  /\ UNCHANGED <<main, status, services, hook, jvm, faults>>

HookEnds ==
  /\ Alive /\ hook = "waiting" /\ server = "down"
  /\ hook' = "done" /\ jvm' = "halted"
  /\ monitor' = "stopped" /\ reporter' = "stopped"
  /\ UNCHANGED <<main, server, status, step, okay, event, gauge, package, faults>>

-----------------------------------------------------------------------------
(* Mutant: an exception leaves runOneIteration and ends the service.        *)
AfterReloadEscapes(ok) == IF ok THEN "running" ELSE "ended"

(* Every exception is caught: the service goes on.                          *)
AfterReload(ok) == "running"

(* One iteration: the configuration, the generation and, whatever came of   *)
(* it, the reload.                                                          *)
Fetch(ok) ==
  /\ Alive /\ monitor = "running" /\ step = "none"
  /\ IF ok THEN step' = "generate" /\ UNCHANGED event
           ELSE UNCHANGED step /\ event' = "FAILURE"
  /\ UNCHANGED <<okay, monitor, package>>

Generate(ok) ==
  /\ Alive /\ monitor = "running" /\ step = "generate"
  /\ okay' = ok /\ step' = "reload"
  /\ UNCHANGED <<monitor, event, package>>

Reload(ok) ==
  /\ Alive /\ monitor = "running" /\ step = "reload" /\ step' = "none"
  /\ package' = (package \/ ok)
  /\ event' = IF okay /\ ok THEN "SUCCESS" ELSE "FAILURE"
  /\ okay' = FALSE /\ monitor' = AfterReload(ok)

MonitorSteps ==
  /\ Fetch(TRUE) \/ Generate(TRUE) \/ Reload(TRUE)
  /\ UNCHANGED <<main, server, status, reporter, gauge, hook, jvm, faults>>

MonitorFails ==
  /\ faults < MaxFaults /\ faults' = faults + 1
  /\ Fetch(FALSE) \/ Generate(FALSE) \/ Reload(FALSE)
  /\ UNCHANGED <<main, server, status, reporter, gauge, hook, jvm>>

(* The metric is set when there is a package; otherwise the exception is    *)
(* logged.                                                                  *)
Report ==
  /\ Alive /\ reporter = "running"
  /\ gauge' = (gauge \/ package)
  /\ UNCHANGED <<main, server, status, monitor, step, okay, event, reporter,
                 package, hook, jvm, faults>>

(* The threads of the process, and all they do.                             *)
MainThread == MainStarts \/ MainFails \/ MainThrows \/ MainRegistersHook
ServerThreads ==
  ServerStarts \/ ServerStartFails \/ SetServing \/ ServerStops
Hook == HookStatus \/ HookStopsServer \/ HookEnds
Runs ==
  MainThread \/ ServerThreads \/ Hook \/ MonitorSteps \/ MonitorFails \/ Report

-----------------------------------------------------------------------------
(* What /healthz answers: serving, and a package that is not empty.         *)
IsHealthy == Alive /\ status = "SERVING" /\ package

(* Every variable has its type.                                             *)
TypeOK ==
  /\ main \in {"init", "joining", "joined", "ended"}
  /\ server \in {"new", "starting", "started", "up", "failed", "stopping", "down"}
  /\ status \in {"UNKNOWN", "SERVING", "NOT_SERVING"}
  /\ monitor \in {"new", "running", "stopped"} /\ step \in {"none", "generate", "reload"}
  /\ event \in {"none", "SUCCESS", "FAILURE"}
  /\ {okay, gauge, package} \subseteq BOOLEAN
  /\ jvm \in {"up", "exiting", "halted"} /\ faults \in 0 .. MaxFaults
=============================================================================
