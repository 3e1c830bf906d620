---------------------------- MODULE DevkitImages ----------------------------
(***************************************************************************)
(* The development container of .devkit.  A command (build_and_run) lets   *)
(* build.py make its image and the images below it available under tags    *)
(* that hash the Dockerfiles, then docker_run.py runs the image, with a    *)
(* thread that removes old images and one that listens for the event which *)
(* the entrypoint sends.  Commands of several workspaces share one Docker  *)
(* daemon and one registry, both external.                                 *)
(*                                                                         *)
(* A tag stands for the SHA-256 of a Dockerfile and of the tags of its     *)
(* dependencies: it is the version of every Dockerfile that went into the  *)
(* hash.  An image is the version of every Dockerfile it was built from.   *)
(***************************************************************************)
EXTENDS Naturals, FiniteSets

CONSTANTS
  Commands, Workspaces,
  WorkspaceOf,  \* the workspace a command runs in
  Images,
  Base,         \* the dependency of an image (deps.json), or None
  Needs,        \* an image with all that it depends on
  Target,       \* the image a command asks for
  Allowed,      \* ALLOWED_IMAGE_NAMES
  LocalOnly,    \* images with "local" in deps.json
  Kinds,        \* what a command may be: build.py and docker_run.py ("run"),
                \* build.py alone ("build"), or with --no-cache ("rebuild")
  Versions,     \* versions of a Dockerfile
  First,        \* the version every workspace starts with
  None,
  MaxEdits,     \* bound on the edits of Dockerfiles
  MaxFaults     \* bound on the failing calls

ASSUME KindsAssumption ==
  \A c \in Commands : Kinds[c] \subseteq {"run", "build", "rebuild"}

ASSUME DevkitAssumption ==
  /\ WorkspaceOf \in [Commands -> Workspaces]
  /\ Base \in [Images -> Images \cup {None}]
  /\ Target \in [Commands -> Images]
  /\ First \in Versions
  /\ None \notin Images \cup Versions
  /\ Needs \in [Images -> SUBSET Images]
  /\ \A m \in Images :
       IF Base[m] = None THEN Needs[m] = {m}
       ELSE Needs[m] = {m} \cup Needs[Base[m]] /\ m \notin Needs[Base[m]]
  /\ \A m \in Images : \A n \in Needs[m] : Needs[n] \subseteq Needs[m]
  /\ MaxEdits \in Nat /\ MaxFaults \in Nat

VARIABLES
  files,    \* the Dockerfiles of each workspace
  repo,     \* whether devkit.json names a registry
  local,    \* the images of the Docker daemon
  remote,   \* the images of the registry
  edits, faults,
  \* of each command
  pc, kind,
  cur,      \* the image build.py is at
  read,     \* the versions hashed so far (generated_tags)
  context,  \* what docker build is building from
  listener, \* container_event_listener
  report,   \* the event of the entrypoint
  cleaner,  \* cleanup_images
  cands,    \* all_to_cleanup
  seen,     \* the versions that cleanup_images has hashed so far
  \* history
  torn,     \* tags built from another Dockerfile than the hashed one
  stale     \* commands whose candidates do not reflect their workspace

source == <<files, repo, edits>>
build == <<kind, cur, read, context>>
threads == <<listener, report, cleaner, cands, seen, stale>>
vars == <<source, local, remote, faults, pc, build, threads, torn>>

Recipes(m) == [Needs[m] -> Versions]
Tags == UNION {[image : {m}, files : Recipes(m)] : m \in Images}
Recipe == UNION {Recipes(m) : m \in Images}

(* Mutant: the tags of the dependencies are not hashed.                     *)
TagWithoutDeps(m, f) ==
  [image |-> m,
   files |-> [n \in Needs[m] |-> IF n = m THEN f[n] ELSE First]]

(* calculate_tag_for_image: a hash of the Dockerfile and of the tags below. *)
Tag(m, f) == [image |-> m, files |-> [n \in Needs[m] |-> f[n]]]

(* The tag of image n that went into tag t.                                 *)
Below(t, n) == Tag(n, t.files)

CurrentTag(c) == Tag(cur[c], read[c])
TargetTag(c) == Tag(Target[c], read[c])
Shared(c) == repo /\ cur[c] \notin LocalOnly
NoneRead == [m \in Images |-> None]
Cancelled(c) == pc[c] \in {"Join", "Done"}
Running(t) == \E c \in Commands : pc[c] = "Container" /\ TargetTag(c) = t

Init ==
  /\ files = [w \in Workspaces |-> [m \in Images |-> First]]
  /\ repo \in BOOLEAN
  /\ local = [t \in Tags |-> None]
  /\ remote = [t \in Tags |-> None]
  /\ edits = 0 /\ faults = 0
  /\ pc = [c \in Commands |-> "Idle"]
  /\ kind = [c \in Commands |-> "run"]
  /\ cur = [c \in Commands |-> Target[c]]
  /\ read = [c \in Commands |-> NoneRead]
  /\ context = [c \in Commands |-> None]
  /\ listener = [c \in Commands |-> "off"]
  /\ report = [c \in Commands |-> "none"]
  /\ cleaner = [c \in Commands |-> "off"]
  /\ cands = [c \in Commands |-> {}]
  /\ seen = [c \in Commands |-> NoneRead]
  /\ torn = {}
  /\ stale = {}

Fault == faults < MaxFaults /\ faults' = faults + 1
Goto(c, p) == pc' = [pc EXCEPT ![c] = p]

-----------------------------------------------------------------------------
(* build.py.                                                                *)

Start(c) ==
  /\ pc[c] = "Idle"
  /\ \E k \in Kinds[c] : kind' = [kind EXCEPT ![c] = k]
  /\ Goto(c, "Resolve")
  /\ UNCHANGED <<source, local, remote, faults, cur, read, context, threads,
                 torn>>

(* The next image in topological order: its Dockerfile is read and hashed.  *)
Resolve(c) ==
  /\ pc[c] = "Resolve"
  /\ \E m \in Needs[Target[c]] :
       /\ read[c][m] = None
       /\ Base[m] # None => read[c][Base[m]] # None
       /\ cur' = [cur EXCEPT ![c] = m]
       /\ read' = [read EXCEPT ![c][m] = files[WorkspaceOf[c]][m]]
  /\ Goto(c, "Inspect")
  /\ UNCHANGED <<source, local, remote, faults, kind, context, threads, torn>>

(* What follows manage_docker_image: the next image, or the tag is printed. *)
AfterImage(c) ==
  IF cur[c] # Target[c] THEN "Resolve"
  ELSE IF kind[c] = "run" THEN "Launch" ELSE "Done"

(* check_if_image_exists_locally; an inspection that fails is a no.         *)
Inspect(c) ==
  /\ pc[c] = "Inspect"
  /\ \/ /\ kind[c] # "rebuild" /\ local[CurrentTag(c)] # None
        /\ Goto(c, AfterImage(c))
        /\ UNCHANGED faults
     \/ /\ \/ /\ kind[c] = "rebuild" \/ local[CurrentTag(c)] = None
              /\ UNCHANGED faults
           \/ Fault
        /\ Goto(c, IF Shared(c) /\ kind[c] # "rebuild" THEN "Manifest"
                   ELSE "Build")
  /\ UNCHANGED <<source, local, remote, build, threads, torn>>

(* check_if_image_exists_in_remote_registry; a failure is a no again.       *)
Manifest(c) ==
  /\ pc[c] = "Manifest"
  /\ \/ /\ Goto(c, IF remote[CurrentTag(c)] # None THEN "Pull" ELSE "Build")
        /\ UNCHANGED faults
     \/ Fault /\ Goto(c, "Build")
  /\ UNCHANGED <<source, local, remote, build, threads, torn>>

Pull(c) ==
  /\ pc[c] = "Pull"
  /\ \/ /\ local' = [local EXCEPT ![CurrentTag(c)] = remote[CurrentTag(c)]]
        /\ Goto(c, AfterImage(c))
        /\ UNCHANGED faults
     \/ Fault /\ Goto(c, "Done") /\ UNCHANGED local
  /\ UNCHANGED <<source, remote, build, threads, torn>>

(* The image that docker build finds under the tag it is given as BASE.     *)
BaseImage(c) ==
  LET t == Tag(Base[cur[c]], read[c])
  IN IF local[t] # None THEN local[t]
     ELSE IF repo THEN remote[t] ELSE None

(* docker buildx build reads the Dockerfile as it is now and looks its base *)
(* image up; without one it fails.                                          *)
BuildStart(c) ==
  /\ pc[c] = "Build"
  /\ LET m == cur[c]
         v == files[WorkspaceOf[c]][m]
     IN \/ /\ Base[m] = None
           /\ context' = [context EXCEPT ![c] = [n \in {m} |-> v]]
           /\ Goto(c, "Building")
        \/ /\ Base[m] # None
           /\ BaseImage(c) # None
           /\ context' = [context EXCEPT ![c] =
                [n \in Needs[m] |-> IF n = m THEN v ELSE BaseImage(c)[n]]]
           /\ Goto(c, "Building")
        \/ /\ Base[m] # None
           /\ BaseImage(c) = None
           /\ Goto(c, "Done")
           /\ UNCHANGED context
  /\ UNCHANGED <<source, local, remote, faults, kind, cur, read, threads,
                 torn>>

BuildEnd(c) ==
  /\ pc[c] = "Building"
  /\ \/ /\ local' = [local EXCEPT ![CurrentTag(c)] = context[c]]
        /\ torn' = IF context[c][cur[c]] = read[c][cur[c]] THEN torn
                   ELSE torn \cup {CurrentTag(c)}
        /\ Goto(c, IF Shared(c) THEN "Push" ELSE AfterImage(c))
        /\ UNCHANGED faults
     \/ Fault /\ Goto(c, "Done") /\ UNCHANGED <<local, torn>>
  /\ context' = [context EXCEPT ![c] = None]
  /\ UNCHANGED <<source, remote, kind, cur, read, threads>>

(* A push that fails, because the image is gone for instance, is let pass.  *)
Push(c) ==
  /\ pc[c] = "Push"
  /\ \/ /\ local[CurrentTag(c)] # None
        /\ remote' = [remote EXCEPT ![CurrentTag(c)] = local[CurrentTag(c)]]
        /\ UNCHANGED faults
     \/ local[CurrentTag(c)] = None /\ UNCHANGED <<remote, faults>>
     \/ Fault /\ UNCHANGED remote
  /\ Goto(c, AfterImage(c))
  /\ UNCHANGED <<source, local, build, threads, torn>>

-----------------------------------------------------------------------------
(* docker_run.py.                                                           *)

(* Binds the event socket and starts both threads; or dies on the way.      *)
Launch(c) ==
  /\ pc[c] = "Launch"
  /\ \/ /\ listener' = [listener EXCEPT ![c] = "bound"]
        /\ cleaner' = [cleaner EXCEPT ![c] = "delay"]
        /\ Goto(c, "Run")
        /\ UNCHANGED faults
     \/ Fault /\ Goto(c, "Done") /\ UNCHANGED <<listener, cleaner>>
  /\ UNCHANGED <<source, local, remote, build, report, cands, seen, stale,
                 torn>>

(* docker run pulls an image it does not have; without one it fails.  From  *)
(* "Join" on both threads are told to stop.                                 *)
Run(c) ==
  /\ pc[c] = "Run"
  /\ \/ local[TargetTag(c)] # None /\ Goto(c, "Container") /\ UNCHANGED local
     \/ /\ local[TargetTag(c)] = None
        /\ repo /\ remote[TargetTag(c)] # None
        /\ local' = [local EXCEPT ![TargetTag(c)] = remote[TargetTag(c)]]
        /\ Goto(c, "Container")
     \/ /\ local[TargetTag(c)] = None
        /\ ~repo \/ remote[TargetTag(c)] = None
        /\ Goto(c, "Join")
        /\ UNCHANGED local
  /\ UNCHANGED <<source, remote, faults, build, threads, torn>>

(* The container ends, or the user interrupts docker run.                   *)
ContainerEnds(c) ==
  /\ pc[c] = "Container"
  /\ Goto(c, "Join")
  /\ UNCHANGED <<source, local, remote, faults, build, threads, torn>>

(* Mutant: the threads are joined without a timeout.                        *)
JoinTimeoutNever == FALSE

(* join(timeout=1.0) comes back when the thread has ended, or a second on.  *)
JoinTimeout == TRUE
Joined(c) == JoinTimeout \/ (cleaner[c] = "off" /\ listener[c] = "closed")

(* Both are daemon threads: the process takes them with it, but not the     *)
(* docker rmi that one of them may have started.                            *)
ThreadsDie(c) ==
  /\ listener' = [listener EXCEPT ![c] = "closed"]
  /\ \/ /\ cleaner' = [cleaner EXCEPT ![c] = "off"]
        /\ cands' = [cands EXCEPT ![c] = {}]
     \/ /\ cleaner[c] = "remove"
        /\ \E t \in cands[c] : cands' = [cands EXCEPT ![c] = {t}]
        /\ cleaner' = [cleaner EXCEPT ![c] = "orphan"]
     \/ cleaner[c] = "orphan" /\ UNCHANGED <<cleaner, cands>>

Exit(c) ==
  /\ pc[c] = "Join"
  /\ Joined(c)
  /\ ThreadsDie(c)
  /\ Goto(c, "Done")
  /\ UNCHANGED <<source, local, remote, faults, build, report, seen, stale, torn>>

(* A signal that is caught around docker run only (ContainerEnds).          *)
Interrupt(c) ==
  /\ pc[c] \notin {"Idle", "Container", "Done"}
  /\ Fault
  /\ ThreadsDie(c)
  /\ Goto(c, "Done")
  /\ UNCHANGED <<source, local, remote, build, report, seen, stale, torn>>

-----------------------------------------------------------------------------
(* container_event_handler.py and the entrypoint.                           *)

Listen(c) ==
  /\ listener[c] = "bound"
  /\ listener' = [listener EXCEPT ![c] =
                    IF Cancelled(c) THEN "closed" ELSE "accept"]
  /\ UNCHANGED <<source, local, remote, faults, pc, build, report, cleaner,
                 cands, seen, stale, torn>>

(* An error, or the shutdown of the socket, ends an accept that waits.      *)
Accept(c) ==
  /\ listener[c] = "accept"
  /\ \/ listener' = [listener EXCEPT ![c] = "closed"]
     \/ /\ ~Cancelled(c)
        /\ report[c] \in {"connected", "sent"}
        /\ listener' = [listener EXCEPT ![c] = "recv"]
  /\ UNCHANGED <<source, local, remote, faults, pc, build, report, cleaner,
                 cands, seen, stale, torn>>

(* The event, the end of the stream of an entrypoint that is gone, or an    *)
(* error, which ends the thread.                                            *)
Recv(c) ==
  /\ listener[c] = "recv"
  /\ \/ /\ \/ report[c] = "sent" /\ report' = [report EXCEPT ![c] = "heard"]
           \/ /\ report[c] = "connected" /\ Cancelled(c)
              /\ report' = [report EXCEPT ![c] = "lost"]
        /\ listener' = [listener EXCEPT ![c] =
                          IF Cancelled(c) THEN "closed" ELSE "accept"]
     \/ /\ report' = [report EXCEPT ![c] = "lost"]
        /\ listener' = [listener EXCEPT ![c] = "closed"]
  /\ UNCHANGED <<source, local, remote, faults, pc, build, cleaner, cands,
                 seen, stale, torn>>

(* echo > /dev/tcp/...: a refused connection ends the entrypoint (errexit). *)
Connect(c) ==
  /\ pc[c] = "Container" /\ report[c] = "none"
  /\ \/ /\ listener[c] \in {"accept", "recv"}
        /\ report' = [report EXCEPT ![c] = "connected"]
        /\ UNCHANGED pc
     \/ /\ listener[c] \in {"bound", "closed"}
        /\ report' = [report EXCEPT ![c] = "lost"]
        /\ Goto(c, "Join")
  /\ UNCHANGED <<source, local, remote, faults, build, listener, cleaner,
                 cands, seen, stale, torn>>

Send(c) ==
  /\ pc[c] = "Container" /\ report[c] = "connected"
  /\ report' = [report EXCEPT ![c] = "sent"]
  /\ UNCHANGED <<source, local, remote, faults, pc, build, listener, cleaner,
                 cands, seen, stale, torn>>

-----------------------------------------------------------------------------
(* docker_cleanup.py.                                                       *)

(* get_images after the initial delay: images with the prefix of the        *)
(* project, older than a week, whose name is on the list.                   *)
ListImages(c) ==
  /\ cleaner[c] = "delay"
  /\ \/ /\ Cancelled(c)
        /\ cleaner' = [cleaner EXCEPT ![c] = "off"]
        /\ UNCHANGED <<cands, faults>>
     \/ /\ ~Cancelled(c)
        /\ \E old \in SUBSET {t \in Tags : local[t] # None} :
             LET found == {t \in old : t.image \in Allowed}
             IN /\ cands' = [cands EXCEPT ![c] = found]
                /\ cleaner' = [cleaner EXCEPT ![c] =
                                 IF found = {} THEN "off" ELSE "ignore"]
        /\ UNCHANGED faults
     \/ /\ ~Cancelled(c) /\ Fault
        /\ cleaner' = [cleaner EXCEPT ![c] = "off"]
        /\ UNCHANGED cands
  /\ seen' = [seen EXCEPT ![c] = NoneRead]
  /\ UNCHANGED <<source, local, remote, pc, build, listener, report, stale,
                 torn>>

(* calculate_tags reads the Dockerfiles of the workspace one by one.        *)
CalculateTag(c) ==
  /\ cleaner[c] = "ignore"
  /\ \E m \in Images :
       /\ seen[c][m] = None
       /\ Base[m] # None => seen[c][Base[m]] # None
       /\ seen' = [seen EXCEPT ![c][m] = files[WorkspaceOf[c]][m]]
  /\ UNCHANGED <<source, local, remote, faults, pc, build, listener, report,
                 cleaner, cands, stale, torn>>

(* Mutant: only the image of the command is left out.                       *)
IgnoredTagsOfTarget(c) == {Tag(Target[c], seen[c])}

(* get_all_docker_image_tags of the workspace.                              *)
IgnoredTags(c) == {Tag(m, seen[c]) : m \in Images}

(* An exception leaves nothing to ignore; sys.exit ends the thread.         *)
Ignore(c) ==
  /\ cleaner[c] = "ignore"
  /\ \/ LET left == cands[c] \ IgnoredTags(c)
        IN /\ \A m \in Images : seen[c][m] # None
           /\ cands' = [cands EXCEPT ![c] = left]
           /\ cleaner' = [cleaner EXCEPT ![c] =
                            IF left = {} THEN "off" ELSE "remove"]
           /\ UNCHANGED <<faults, stale>>
     \/ /\ Fault
        /\ cleaner' = [cleaner EXCEPT ![c] = "remove"]
        /\ stale' = stale \cup {c}
        /\ UNCHANGED cands
     \/ /\ Fault
        /\ cleaner' = [cleaner EXCEPT ![c] = "off"]
        /\ cands' = [cands EXCEPT ![c] = {}]
        /\ UNCHANGED stale
  /\ seen' = [seen EXCEPT ![c] = NoneRead]
  /\ UNCHANGED <<source, local, remote, pc, build, listener, report, torn>>

(* docker rmi refuses an image that a container uses.                       *)
Removes(t) == local' = [local EXCEPT ![t] = IF Running(t) THEN @ ELSE None]

(* cleanup_images_batch: one docker rmi at a time, until told to stop.  A   *)
(* docker rmi that is terminated may still have reached the daemon.         *)
RemoveImage(c) ==
  /\ cleaner[c] = "remove"
  /\ \/ /\ ~Cancelled(c)
        /\ \E t \in cands[c] :
             /\ Removes(t)
             /\ cands' = [cands EXCEPT ![c] = @ \ {t}]
             /\ cleaner' = [cleaner EXCEPT ![c] =
                              IF cands[c] = {t} THEN "off" ELSE "remove"]
     \/ /\ Cancelled(c)
        /\ cands' = [cands EXCEPT ![c] = {}]
        /\ cleaner' = [cleaner EXCEPT ![c] = "off"]
        /\ UNCHANGED local
     \/ /\ Cancelled(c)
        /\ \E t \in cands[c] : cands' = [cands EXCEPT ![c] = {t}]
        /\ cleaner' = [cleaner EXCEPT ![c] = "orphan"]
        /\ UNCHANGED local
  /\ UNCHANGED <<source, remote, faults, pc, build, listener, report, seen,
                 stale, torn>>

(* The daemon carries out the request of a docker rmi that is gone.         *)
LateRemoval(c) ==
  /\ cleaner[c] = "orphan"
  /\ \E t \in cands[c] : Removes(t)
  /\ cands' = [cands EXCEPT ![c] = {}]
  /\ cleaner' = [cleaner EXCEPT ![c] = "off"]
  /\ UNCHANGED <<source, remote, faults, pc, build, listener, report, seen,
                 stale, torn>>

(* A Dockerfile of workspace w changes: an edit, or another branch.         *)
Edit(w) ==
  /\ edits < MaxEdits
  /\ edits' = edits + 1
  /\ \E m \in Images, v \in Versions :
       /\ v # files[w][m]
       /\ files' = [files EXCEPT ![w][m] = v]
       /\ stale' = stale \cup {c \in Commands :
                                 /\ WorkspaceOf[c] = w
                                 /\ \/ cleaner[c] \in {"remove", "orphan"}
                                    \/ cleaner[c] = "ignore" /\ seen[c][m] # None}
  /\ UNCHANGED <<repo, local, remote, faults, pc, build, listener, report,
                 cleaner, cands, seen, torn>>

-----------------------------------------------------------------------------
Builder(c) == Resolve(c) \/ Inspect(c) \/ Manifest(c) \/ Pull(c)
                \/ BuildStart(c) \/ BuildEnd(c) \/ Push(c)
Runner(c) == Launch(c) \/ Run(c) \/ Exit(c)
Listener(c) == Listen(c) \/ Accept(c) \/ Recv(c)
Cleaner(c) ==
  ListImages(c) \/ CalculateTag(c) \/ Ignore(c) \/ RemoveImage(c)

Next ==
  \/ \E c \in Commands : \/ Start(c) \/ Builder(c) \/ Runner(c)
                         \/ ContainerEnds(c) \/ Interrupt(c)
                         \/ Listener(c) \/ Connect(c) \/ Send(c)
                         \/ Cleaner(c) \/ LateRemoval(c)
  \/ \E w \in Workspaces : Edit(w)

(* The main thread of a command and the docker commands it waits for go on; *)
(* its other threads, a container, an entrypoint and a user need not.       *)
Fairness == \A c \in Commands : WF_vars(Builder(c)) /\ WF_vars(Runner(c))

Spec == Init /\ [][Next]_vars
FairSpec == Spec /\ Fairness

-----------------------------------------------------------------------------
PCs == {"Idle", "Resolve", "Inspect", "Manifest", "Pull", "Build", "Building",
        "Push", "Launch", "Run", "Container", "Join", "Done"}
ListenerStates == {"off", "bound", "accept", "recv", "closed"}
ReportStates == {"none", "connected", "sent", "heard", "lost"}
CleanerStates == {"off", "delay", "ignore", "remove", "orphan"}

TypeOK ==
  /\ files \in [Workspaces -> [Images -> Versions]]
  /\ repo \in BOOLEAN
  /\ local \in [Tags -> Recipe \cup {None}]
  /\ remote \in [Tags -> Recipe \cup {None}]
  /\ \A t \in Tags : {local[t], remote[t]} \subseteq
                       Recipes(t.image) \cup {None}
  /\ edits \in Nat /\ faults \in Nat
  /\ pc \in [Commands -> PCs]
  /\ kind \in [Commands -> {"run", "build", "rebuild"}]
  /\ cur \in [Commands -> Images]
  /\ read \in [Commands -> [Images -> Versions \cup {None}]]
  /\ context \in [Commands -> Recipe \cup {None}]
  /\ listener \in [Commands -> ListenerStates]
  /\ report \in [Commands -> ReportStates]
  /\ cleaner \in [Commands -> CleanerStates]
  /\ cands \in [Commands -> SUBSET Tags]
  /\ seen \in [Commands -> [Images -> Versions \cup {None}]]
  /\ torn \subseteq Tags
  /\ stale \subseteq Commands

(* The images that the Dockerfiles of workspace w stand for.                *)
WorkspaceTags(w) == {t \in Tags : \A n \in Needs[t.image] :
                                    t.files[n] = files[w][n]}

(* An image is what its tag says, in the daemon and in the registry, unless *)
(* a Dockerfile it was made from, its own or one below it, changed between  *)
(* its hashing and its build (calculate_tag_for_image, build_image): what   *)
(* other commands build, pull, push, rebuild and remove meanwhile does not  *)
(* put another image under a tag.                                           *)
ContentAddressed ==
  \A t \in Tags :
    (\A n \in Needs[t.image] : Below(t, n) \notin torn)
      => local[t] \in {None, t.files} /\ remote[t] \in {None, t.files}

(* A cleaner removes no image of its own workspace, as long as it could     *)
(* work out which those are and no Dockerfile has changed since it read it  *)
(* (get_images_to_cleanup); a docker rmi that outlives it does not either.  *)
OwnImagesStay ==
  [][\A c \in Commands, t \in Tags :
       (/\ local[t] # None /\ local'[t] = None
        /\ RemoveImage(c) \/ LateRemoval(c))
       => t \notin WorkspaceTags(WorkspaceOf[c]) \/ c \in stale]_vars

(* A command comes to its container or to its end, and behind its container *)
(* to its end, whatever its two threads are waiting for (the timeouts of    *)
(* docker_run.py's joins).                                                  *)
CommandEnds ==
  \A c \in Commands :
    pc[c] \notin {"Idle", "Container"} ~> pc[c] \in {"Container", "Done"}
=============================================================================
