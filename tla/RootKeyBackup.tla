--------------------------- MODULE RootKeyBackup ----------------------------
(***************************************************************************)
(* Instances that share one pair of S3 buckets.  Each runs the iterations  *)
(* of ScheduledCertificateMonitor: fetch the configuration, generate the   *)
(* root keys whose backup is missing (DefaultCertificateGenerator, under   *)
(* the S3 generation lock), then reload the active trust package           *)
(* (TrustPackageService).  One action is one remote call together with the *)
(* local computation that follows it.                                      *)
(*                                                                         *)
(* A call may fail before or after it took effect, a put may be reported   *)
(* as a failed precondition by the SDK's own retry of a put that took      *)
(* effect, a request the client gave up on may still land later, and so    *)
(* may the first of two that the SDK sent for a call it reports as done.   *)
(* (A repeated put of an artifact that lands then finds the object there.) *)
(* An instance may crash between any two calls, and an operator may remove *)
(* the lock, clean up a half-written backup and deploy a configuration.    *)
(* MaxFaults bounds the failures and crashes, MaxDeploys the deployments;  *)
(* Bundles bounds the keys ever generated.                                 *)
(***************************************************************************)
EXTENDS BackupLayout, FiniteSets

CONSTANTS
  Instances,       \* the processes that share the buckets
  Epochs,          \* the epoch ids, natural numbers
  Bundles,         \* the keys (with certificate, seal, document) generated
  Configs,         \* the configurations that may be deployed
  OperatorCareful, \* the operator investigates before removing the lock
  MaxFaults,       \* bound on failures and crashes
  MaxDeploys,      \* bound on deployments of a configuration
  None             \* no object, no holder, no key, no file

(* The configuration DefaultingCertificatesConfigProvider falls back on.    *)
DefaultConfig == [defined |-> {0}, active |-> {0}]

ASSUME ConstantsAssumption ==
  /\ Epochs \subseteq Nat
  /\ 0 \in Epochs
  /\ None \notin Bundles
  /\ None \notin Instances
  /\ None \notin Configs
  /\ Configs \subseteq [defined : SUBSET Epochs, active : SUBSET Epochs]
  /\ \A c \in Configs : c.active # {} /\ c.active \subseteq c.defined
  /\ OperatorCareful \in BOOLEAN
  /\ MaxFaults \in Nat
  /\ MaxDeploys \in Nat

VARIABLES
  store,      \* epoch -> artifact -> the bundle whose artifact is stored
  lock,       \* the instance id in the lock object
  latePuts,   \* artifact puts the client gave up on that may still land
  lateLocks,  \* instances whose put of the lock may still land
  lateUnlock, \* a delete of the lock may still land
  strayed,    \* such a delete has removed a lock that was in use
  used,       \* the bundles generated so far
  deployed,   \* the configuration file in S3
  deploys,    \* how often it was deployed
  faults,     \* failures and crashes so far
  pc,         \* per instance: the next remote call of the monitor thread
  conf,       \* per instance: the configuration of the iteration
  listed,     \* per instance: the artifacts the listings have shown
  missing,    \* per instance: the epochs it still has to write
  bundle,     \* per instance: the bundle it is writing
  written,    \* per instance: how many artifacts of it are written
  attempt,    \* per instance: 1, or 2 in the retry after the back-off
  event,      \* per instance: the result of the iteration so far
  active      \* per instance: activeTrustState, epoch -> bundle (null is
              \* the state in which every epoch maps to None)

remote == <<store, lock, latePuts, lateLocks, lateUnlock, strayed>>
operator == <<deployed, deploys>>
local == <<conf, listed, missing, bundle, written, attempt, event>>
vars == <<store, lock, latePuts, lateLocks, lateUnlock, strayed, used,
          deployed, deploys, faults, pc, conf, listed, missing, bundle, written,
          attempt, event, active>>

-----------------------------------------------------------------------------
(* Storage.                                                                 *)

Present(e) == {a \in Elements : store[e][a] # None}
Partial(e) == HandleState(Present(e)) = "PartiallyWritten"

(* AeadSelfSignedBundleBackupSealer.unseal opens a backup only when its     *)
(* four artifacts were sealed together.                                     *)
Unseals(e) == \A a \in Elements : store[e][a] = store[e]["CERT"]

(* Mutant: a plain put.                                                     *)
PlainPut(old) == TRUE

(* putIfAbsent, of an artifact or of the lock, is sent with If-None-Match:  *)
(* S3 answers 412 when there is an object, which keeps the content it has.  *)
IfNoneMatch(old) == old = None
IfAbsent(old, new) == IF IfNoneMatch(old) THEN new ELSE old

NothingListed == [e \in Epochs |-> {}]
NoPackage == [e \in Epochs |-> None]

(* The two listings of getSnapshot, the second one taken now.               *)
Snapshot(i) ==
  [e \in Epochs |-> listed[i][e] \cup (Present(e) \cap PrivateElements)]

(* Mutant: a half-written epoch is missing, an empty one is not.            *)
FindMissingPartial(c, snapshot) ==
  {e \in c.defined : HandleState(snapshot[e]) = "PartiallyWritten"}

(* findMissingSelfSignedBundleBackups: only an empty epoch is missing.      *)
FindMissing(c, snapshot) ==
  {e \in c.defined : HandleState(snapshot[e]) = "Empty"}

IsFirst(e, S) == e \in S /\ \A f \in S : e <= f

Critical == {"LockedPublic", "LockedPrivate", "Generate", "Write",
             "ReleaseLock"}
Listing == {"CheckPublic", "LockedPublic", "LoadPublic"}
ListingPrivate == {"CheckPrivate", "LockedPrivate", "LoadPrivate"}
PCs == {"Idle", "AcquireLock", "Load"} \cup Critical \cup Listing
         \cup ListingPrivate

Fault == faults < MaxFaults /\ faults' = faults + 1

-----------------------------------------------------------------------------
Init ==
  /\ store = [e \in Epochs |-> [a \in Elements |-> None]]
  /\ lock = None
  /\ latePuts = {} /\ lateLocks = {} /\ lateUnlock = FALSE
  /\ strayed = FALSE
  /\ used = {}
  /\ deployed \in Configs \cup {None}
  /\ deploys = 0
  /\ faults = 0
  /\ pc = [i \in Instances |-> "Idle"]
  /\ conf = [i \in Instances |-> DefaultConfig]
  /\ listed = [i \in Instances |-> NothingListed]
  /\ missing = [i \in Instances |-> {}]
  /\ bundle = [i \in Instances |-> None]
  /\ written = [i \in Instances |-> 0]
  /\ attempt = [i \in Instances |-> 1]
  /\ event = [i \in Instances |-> "FAILURE"]
  /\ active = [i \in Instances |-> NoPackage]

-----------------------------------------------------------------------------
(* Where a call leaves the monitor thread.                                  *)

(* generateCertificates returns or throws; the reload follows either way.   *)
GenerationEnds(i, result) ==
  /\ pc' = [pc EXCEPT ![i] = "LoadPublic"]
  /\ listed' = [listed EXCEPT ![i] = NothingListed]
  /\ missing' = [missing EXCEPT ![i] = {}]
  /\ bundle' = [bundle EXCEPT ![i] = None]
  /\ written' = [written EXCEPT ![i] = 0]
  /\ attempt' = [attempt EXCEPT ![i] = 1]
  /\ event' = [event EXCEPT ![i] = result]
  /\ UNCHANGED conf

(* Mutant: the lock is released in a finally block.                         *)
FailureReleases(i) == GenerationEnds(i, "FAILURE") /\ lock' = None

(* "Intentionally no try/finally": a failure under the lock leaves it.      *)
FailureUnderLock(i) == GenerationEnds(i, "FAILURE") /\ UNCHANGED lock

(* A BackupStorageAlreadyLockedException is retried once.                   *)
AlreadyLocked(i) ==
  IF attempt[i] = 1
  THEN /\ pc' = [pc EXCEPT ![i] = "CheckPublic"]
       /\ attempt' = [attempt EXCEPT ![i] = 2]
       /\ UNCHANGED <<conf, listed, missing, bundle, written, event>>
  ELSE GenerationEnds(i, "FAILURE")

IterationEnds(i, result) ==
  /\ pc' = [pc EXCEPT ![i] = "Idle"]
  /\ listed' = [listed EXCEPT ![i] = NothingListed]
  /\ attempt' = [attempt EXCEPT ![i] = 1]
  /\ event' = [event EXCEPT ![i] = result]
  /\ UNCHANGED <<conf, missing, bundle, written>>

(* Mutant: a failed reload does not fail the iteration.                     *)
ReloadFailsSilently(i, state) ==
  IF state = "PartiallyWritten" /\ attempt[i] = 1
  THEN /\ pc' = [pc EXCEPT ![i] = "LoadPublic"]
       /\ listed' = [listed EXCEPT ![i] = NothingListed]
       /\ attempt' = [attempt EXCEPT ![i] = 2]
       /\ UNCHANGED <<conf, missing, bundle, written, event>>
  ELSE IterationEnds(i, event[i])

(* A BackupPartiallyWrittenException of the reload is retried once.         *)
ReloadFails(i, state) ==
  IF state = "PartiallyWritten" /\ attempt[i] = 1
  THEN /\ pc' = [pc EXCEPT ![i] = "LoadPublic"]
       /\ listed' = [listed EXCEPT ![i] = NothingListed]
       /\ attempt' = [attempt EXCEPT ![i] = 2]
       /\ UNCHANGED <<conf, missing, bundle, written, event>>
  ELSE IterationEnds(i, "FAILURE")

-----------------------------------------------------------------------------
(* The monitor iteration.                                                   *)

(* A missing or invalid file gives the hardcoded epoch-0 configuration.     *)
ConfigInForce == IF deployed = None THEN DefaultConfig ELSE deployed

(* DefaultingCertificatesConfigProvider answers any failure by the default. *)
FetchConfig(i) ==
  /\ pc[i] = "Idle"
  /\ \/ /\ conf' = [conf EXCEPT ![i] = ConfigInForce]
        /\ UNCHANGED faults
     \/ /\ Fault
        /\ conf' = [conf EXCEPT ![i] = DefaultConfig]
  /\ pc' = [pc EXCEPT ![i] = "CheckPublic"]
  /\ attempt' = [attempt EXCEPT ![i] = 1]
  /\ event' = [event EXCEPT ![i] = "SUCCESS"]
  /\ UNCHANGED <<remote, used, operator, listed, missing, bundle, written,
                 active>>

AfterPublic == [CheckPublic |-> "CheckPrivate",
                LockedPublic |-> "LockedPrivate",
                LoadPublic |-> "LoadPrivate"]

(* getSnapshot lists the public bucket first.                               *)
ListPublic(i) ==
  /\ pc[i] \in Listing
  /\ listed' = [listed EXCEPT ![i] =
                  [e \in Epochs |-> Present(e) \cap PublicElements]]
  /\ pc' = [pc EXCEPT ![i] = AfterPublic[pc[i]]]
  /\ UNCHANGED <<remote, used, operator, faults, conf, missing, bundle,
                 written, attempt, event, active>>

(* BackupAccessFailedException out of either listing.                       *)
ListFails(i) ==
  /\ Fault
  /\ \/ /\ pc[i] \in {"CheckPublic", "CheckPrivate"}
        /\ GenerationEnds(i, "FAILURE")
        /\ UNCHANGED lock
     \/ /\ pc[i] \in {"LockedPublic", "LockedPrivate"}
        /\ FailureUnderLock(i)
     \/ /\ pc[i] \in {"LoadPublic", "LoadPrivate"}
        /\ ReloadFails(i, "Unknown")
        /\ UNCHANGED lock
  /\ UNCHANGED <<store, latePuts, lateLocks, lateUnlock, strayed, used,
                 operator, active>>

(* The snapshot before the lock: nothing missing, nothing to do.            *)
CheckMissing(i) ==
  /\ pc[i] = "CheckPrivate"
  /\ IF FindMissing(conf[i], Snapshot(i)) = {}
     THEN GenerationEnds(i, event[i])
     ELSE /\ pc' = [pc EXCEPT ![i] = "AcquireLock"]
          /\ listed' = [listed EXCEPT ![i] = NothingListed]
          /\ UNCHANGED <<conf, missing, bundle, written, attempt, event>>
  /\ UNCHANGED <<remote, used, operator, faults, active>>

AcquireLock(i) ==
  /\ pc[i] = "AcquireLock"
  /\ \/ /\ IfNoneMatch(lock)
        /\ lock' = i
        /\ pc' = [pc EXCEPT ![i] = "LockedPublic"]
        /\ UNCHANGED <<faults, lateLocks, local>>
     \/ /\ Fault      \* the SDK repeats a put that takes effect later
        /\ IfNoneMatch(lock)
        /\ lock' = i
        /\ lateLocks' = lateLocks \cup {i}
        /\ pc' = [pc EXCEPT ![i] = "LockedPublic"]
        /\ UNCHANGED local
     \/ /\ ~IfNoneMatch(lock)
        /\ AlreadyLocked(i)
        /\ UNCHANGED <<faults, lock, lateLocks>>
     \/ /\ Fault      \* the SDK repeats a put that took effect
        /\ IfNoneMatch(lock)
        /\ lock' = i
        /\ AlreadyLocked(i)
        /\ UNCHANGED lateLocks
     \/ /\ Fault
        /\ lock' \in {lock, IfAbsent(lock, i)}
        /\ GenerationEnds(i, "FAILURE")
        /\ UNCHANGED lateLocks
     \/ /\ Fault
        /\ lateLocks' = lateLocks \cup {i}
        /\ GenerationEnds(i, "FAILURE")
        /\ UNCHANGED lock
  /\ UNCHANGED <<store, latePuts, lateUnlock, strayed, used, operator, active>>

(* The snapshot under the lock decides what is generated.                   *)
FindMissingUnderLock(i) ==
  /\ pc[i] = "LockedPrivate"
  /\ LET found == FindMissing(conf[i], Snapshot(i))
     IN /\ missing' = [missing EXCEPT ![i] = found]
        /\ pc' = [pc EXCEPT ![i] =
                    IF found = {} THEN "ReleaseLock" ELSE "Generate"]
  /\ listed' = [listed EXCEPT ![i] = NothingListed]
  /\ UNCHANGED <<remote, used, operator, faults, conf, bundle, written,
                 attempt, event, active>>

(* SelfSignedBundleBackupGenerator.generate: key pair, attestation, seal.   *)
Generate(i) ==
  /\ pc[i] = "Generate"
  /\ \/ \E b \in Bundles \ used :
          /\ used' = used \cup {b}
          /\ bundle' = [bundle EXCEPT ![i] = b]
          /\ pc' = [pc EXCEPT ![i] = "Write"]
          /\ UNCHANGED <<lock, faults, conf, listed, missing, written,
                         attempt, event>>
     \/ /\ Fault
        /\ FailureUnderLock(i)
        /\ UNCHANGED used
  /\ UNCHANGED <<store, latePuts, lateLocks, lateUnlock, strayed, operator,
                 active>>

(* The artifact the writer puts next, and the store once it is put.         *)
NextElement(i) == WriteOrder[written[i] + 1]
StoreWith(e, a, b) == [store EXCEPT ![e][a] = IfAbsent(store[e][a], b)]

(* Mutant: one bundle for every missing epoch.                              *)
WrittenKeepsBundle(i, e) ==
  IF written[i] + 1 < Len(WriteOrder)
  THEN /\ written' = [written EXCEPT ![i] = written[i] + 1]
       /\ UNCHANGED <<pc, missing, bundle>>
  ELSE /\ written' = [written EXCEPT ![i] = 0]
       /\ missing' = [missing EXCEPT ![i] = missing[i] \ {e}]
       /\ pc' = [pc EXCEPT ![i] = IF missing[i] = {e} THEN "ReleaseLock"
                                  ELSE "Write"]
       /\ UNCHANGED bundle

(* After an artifact: the next one, the next epoch, or the end of the loop. *)
MoreElements(i) == written[i] + 1 < Len(WriteOrder)
Written(i, e) ==
  IF MoreElements(i)
  THEN /\ written' = [written EXCEPT ![i] = written[i] + 1]
       /\ UNCHANGED <<pc, missing, bundle>>
  ELSE /\ written' = [written EXCEPT ![i] = 0]
       /\ missing' = [missing EXCEPT ![i] = missing[i] \ {e}]
       /\ bundle' = [bundle EXCEPT ![i] = None]
       /\ pc' = [pc EXCEPT ![i] = IF missing[i] = {e} THEN "ReleaseLock"
                                  ELSE "Generate"]

(* writeSelfSignedBundleBackup, one putIfAbsent: a failed precondition is a *)
(* BackupAlreadyExistsException, which is not retried.                      *)
PutArtifact(i) ==
  /\ pc[i] = "Write"
  /\ \E e \in missing[i] :
       /\ IsFirst(e, missing[i])
       /\ LET a == NextElement(i)
          IN \/ /\ IfNoneMatch(store[e][a])
                /\ store' = StoreWith(e, a, bundle[i])
                /\ Written(i, e)
                /\ UNCHANGED <<lock, faults, latePuts, conf, listed, attempt,
                               event>>
             \/ /\ ~IfNoneMatch(store[e][a])
                /\ FailureUnderLock(i)
                /\ UNCHANGED <<faults, store, latePuts>>
             \/ /\ Fault  \* an error, or the SDK repeats a put it had done
                /\ store' \in {store, StoreWith(e, a, bundle[i])}
                /\ FailureUnderLock(i)
                /\ UNCHANGED latePuts
             \/ /\ Fault
                /\ latePuts' = latePuts \cup {<<e, a, bundle[i]>>}
                /\ FailureUnderLock(i)
                /\ UNCHANGED store
  /\ UNCHANGED <<lateLocks, lateUnlock, strayed, used, operator, active>>

(* releaseLock deletes the object whoever's id it holds.                    *)
ReleaseLock(i) ==
  /\ pc[i] = "ReleaseLock"
  /\ \/ /\ lock' = None
        /\ GenerationEnds(i, event[i])
        /\ UNCHANGED <<faults, lateUnlock>>
     \/ /\ Fault      \* the SDK repeats a delete that takes effect later
        /\ lock' = None
        /\ lateUnlock' = TRUE
        /\ GenerationEnds(i, event[i])
     \/ /\ Fault
        /\ lock' \in {lock, None}
        /\ lateUnlock' \in {lateUnlock, TRUE}
        /\ GenerationEnds(i, "FAILURE")
  /\ UNCHANGED <<store, latePuts, lateLocks, strayed, used, operator, active>>

(* getSnapshot of the reload is complete.                                   *)
ListForLoad(i) ==
  /\ pc[i] = "LoadPrivate"
  /\ listed' = [listed EXCEPT ![i] = Snapshot(i)]
  /\ pc' = [pc EXCEPT ![i] = "Load"]
  /\ UNCHANGED <<remote, used, operator, faults, conf, missing, bundle,
                 written, attempt, event, active>>

(* What expect(Complete).read() meets: the listed state, or, when that is   *)
(* Complete, the state the reader's GETs find.                              *)
Observed(i, e) ==
  IF HandleState(listed[i][e]) = "Complete" THEN HandleState(Present(e))
  ELSE HandleState(listed[i][e])

(* loadActiveTrustState: read and unseal every active epoch in ascending    *)
(* order, then set the whole package at once.  The first epoch that does    *)
(* not load ends the attempt, and the previous package stays.               *)
Load(i) ==
  /\ pc[i] = "Load"
  /\ LET bad == {e \in conf[i].active :
                   Observed(i, e) # "Complete" \/ ~Unseals(e)}
     IN \/ /\ bad = {}
           /\ active' = [active EXCEPT ![i] =
                [e \in Epochs |-> IF e \in conf[i].active
                                  THEN store[e]["CERT"] ELSE None]]
           /\ IterationEnds(i, event[i])
           /\ UNCHANGED faults
        \/ \E e \in bad :
             /\ IsFirst(e, bad)
             /\ ReloadFails(i, Observed(i, e))
             /\ UNCHANGED <<faults, active>>
        \/ /\ Fault
           /\ ReloadFails(i, "Unknown")
           /\ UNCHANGED active
  /\ UNCHANGED <<remote, used, operator>>

-----------------------------------------------------------------------------
(* The environment.                                                         *)

(* The process is restarted; what it holds in memory is gone.               *)
Crash(i) ==
  /\ Fault
  /\ pc' = [pc EXCEPT ![i] = "Idle"]
  /\ conf' = [conf EXCEPT ![i] = DefaultConfig]
  /\ listed' = [listed EXCEPT ![i] = NothingListed]
  /\ missing' = [missing EXCEPT ![i] = {}]
  /\ bundle' = [bundle EXCEPT ![i] = None]
  /\ written' = [written EXCEPT ![i] = 0]
  /\ attempt' = [attempt EXCEPT ![i] = 1]
  /\ event' = [event EXCEPT ![i] = "FAILURE"]
  /\ active' = [active EXCEPT ![i] = NoPackage]
  /\ UNCHANGED <<remote, used, operator>>

(* A request the client no longer waits for lands, or is lost.              *)
LatePut(r) ==
  /\ r \in latePuts
  /\ latePuts' = latePuts \ {r}
  /\ store' \in {store, StoreWith(r[1], r[2], r[3])}
  /\ UNCHANGED <<lock, lateLocks, lateUnlock, strayed, used, operator, faults,
                 pc, local, active>>

LateLock(i) ==
  /\ i \in lateLocks
  /\ lateLocks' = lateLocks \ {i}
  /\ lock' \in {lock, IfAbsent(lock, i)}
  /\ UNCHANGED <<store, latePuts, lateUnlock, strayed, used, operator, faults,
                 pc, local, active>>

(* An instance relies on the lock, or a failure has left it as a warning.   *)
LockInUse ==
  \/ \E i \in Instances : pc[i] \in Critical
  \/ latePuts # {}
  \/ \E e \in Epochs : Partial(e)

LateUnlock ==
  /\ lateUnlock
  /\ lateUnlock' = FALSE
  /\ \/ UNCHANGED <<lock, strayed>>
     \/ /\ lock # None
        /\ lock' = None
        /\ strayed' = (strayed \/ LockInUse)
  /\ UNCHANGED <<store, latePuts, lateLocks, used, operator, faults, pc,
                 local, active>>

(* No instance runs under the lock and no request is on its way.            *)
Quiet ==
  /\ \A i \in Instances : pc[i] \notin Critical
  /\ latePuts = {} /\ lateLocks = {} /\ ~lateUnlock

(* "until an operator has investigated and removed it by hand"              *)
RemoveLock ==
  /\ lock # None
  /\ OperatorCareful => Quiet /\ \A e \in Epochs : ~Partial(e)
  /\ lock' = None
  /\ UNCHANGED <<store, latePuts, lateLocks, lateUnlock, strayed, used,
                 operator, faults, pc, local, active>>

(* A backup that was never completed is never repaired by the code.         *)
CleanUp(e) ==
  /\ Partial(e)
  /\ Quiet
  /\ store' = [store EXCEPT ![e] = [a \in Elements |-> None]]
  /\ UNCHANGED <<lock, latePuts, lateLocks, lateUnlock, strayed, used,
                 operator, faults, pc, local, active>>

Deploy(c) ==
  /\ deploys < MaxDeploys
  /\ deploys' = deploys + 1
  /\ deployed' = c
  /\ UNCHANGED <<remote, used, faults, pc, local, active>>

Step(i) ==
  \/ FetchConfig(i)
  \/ ListPublic(i)
  \/ ListFails(i)
  \/ CheckMissing(i)
  \/ AcquireLock(i)
  \/ FindMissingUnderLock(i)
  \/ Generate(i)
  \/ PutArtifact(i)
  \/ ReleaseLock(i)
  \/ ListForLoad(i)
  \/ Load(i)

Next ==
  \/ \E i \in Instances : Step(i) \/ Crash(i) \/ LateLock(i)
  \/ \E r \in latePuts : LatePut(r)
  \/ LateUnlock
  \/ RemoveLock
  \/ \E e \in Epochs : CleanUp(e)
  \/ \E c \in Configs : Deploy(c)

Spec == Init /\ [][Next]_vars

(* The scheduler runs the monitor every two minutes and each remote call    *)
(* returns or throws.                                                       *)
InstanceFairness == \A i \in Instances : WF_vars(Step(i))

(* Requests do not travel for ever, and the operator answers the alerts.    *)
OperatorFairness ==
  /\ WF_vars(\E i \in Instances : LateLock(i))
  /\ WF_vars(\E r \in latePuts : LatePut(r))
  /\ WF_vars(LateUnlock)
  /\ WF_vars(RemoveLock)
  /\ WF_vars(\E e \in Epochs : CleanUp(e))

AttendedSpec == Spec /\ InstanceFairness /\ OperatorFairness

-----------------------------------------------------------------------------
(* Properties.                                                              *)

(* Every variable has its type: in particular the writer never counts past  *)
(* the artifacts of a bundle, and retries at most once.                     *)
TypeOK ==
  /\ store \in [Epochs -> [Elements -> Bundles \cup {None}]]
  /\ lock \in Instances \cup {None}
  /\ latePuts \subseteq Epochs \X Elements \X Bundles
  /\ lateLocks \subseteq Instances
  /\ lateUnlock \in BOOLEAN /\ strayed \in BOOLEAN
  /\ used \subseteq Bundles
  /\ deployed \in Configs \cup {None}
  /\ deploys \in Nat
  /\ faults \in Nat
  /\ pc \in [Instances -> PCs]
  /\ conf \in [Instances -> [defined : SUBSET Epochs, active : SUBSET Epochs]]
  /\ listed \in [Instances -> [Epochs -> SUBSET Elements]]
  /\ missing \in [Instances -> SUBSET Epochs]
  /\ bundle \in [Instances -> Bundles \cup {None}]
  /\ written \in [Instances -> 0 .. 3]
  /\ attempt \in [Instances -> {1, 2}]
  /\ event \in [Instances -> {"SUCCESS", "FAILURE"}]
  /\ active \in [Instances -> [Epochs -> Bundles \cup {None}]]

(* The artifacts stored for an epoch all come from one generation: the      *)
(* first putIfAbsent (the private key) decides, whoever holds the lock.     *)
NoMixedBackup ==
  \A e \in Epochs : \A a, b \in Present(e) : store[e][a] = store[e][b]

(* The certificate is a completion sentinel: no getSnapshot, whatever is    *)
(* written between its two listings, shows a certificate without the rest,  *)
(* so an Incomplete handle always means that artifacts were lost.           *)
NeverIncomplete ==
  \A i \in Instances : pc[i] \in ListingPrivate =>
    \A e \in Epochs : HandleState(Snapshot(i)[e]) # "Incomplete"

(* At most one instance generates at a time, and the lock object names it,  *)
(* as long as the operator only removes an abandoned lock.  The one         *)
(* exception is a delete that the SDK has repeated: the first request may   *)
(* land once another instance holds the lock, which it removes without      *)
(* looking at the holder.                                                   *)
LockExclusion ==
  OperatorCareful /\ ~strayed =>
    \A i \in Instances : pc[i] \in Critical =>
      lock = i /\ \A j \in Instances \ {i} : pc[j] \notin Critical

(* "a failure under the lock leaves the backup in an unknown state, so the  *)
(* lock stays behind": while a backup is half-written the lock object is    *)
(* there, so nobody generates until the operator has dealt with it; a       *)
(* stray delete is the exception again.                                     *)
HalfWrittenKeepsLock ==
  OperatorCareful /\ ~strayed => \A e \in Epochs : Partial(e) => lock # None

(* What holds between any two steps of the instances: one of them at most   *)
(* is under the lock, a half-written backup has the lock beside it, and the *)
(* state is of its type.                                                    *)
BackupInvariant == TypeOK /\ LockExclusion /\ HalfWrittenKeepsLock

(* Every key of a trust package is the complete backup of its epoch, so any *)
(* two instances that serve an epoch serve the same root key, also while    *)
(* others generate, fail and restart.                                       *)
ActiveKeysAreBackedUp ==
  \A i \in Instances : \A e \in Epochs : active[i][e] # None =>
    \A a \in Elements : store[e][a] = active[i][e]

(* An iteration that reports SUCCESS left exactly the keys of its           *)
(* configuration's active epochs in use.                                    *)
SuccessMeansServing ==
  \A i \in Instances : pc[i] = "Idle" /\ event[i] = "SUCCESS" =>
    conf[i].active = {e \in Epochs : active[i][e] # None}

(* A backup whose certificate is written is final: no later step of any     *)
(* instance, late request or clean-up changes its artifacts.                *)
CompletedIsFinal ==
  [][\A e \in Epochs : "CERT" \in Present(e) => store'[e] = store[e]]_vars

(* A failed reload keeps the previous trust package: an instance that has   *)
(* keys has keys after every step but its own restart.                      *)
ServingIsKept ==
  [][\A i \in Instances :
       active[i] # NoPackage /\ active'[i] = NoPackage => Crash(i)]_vars

(* The implementation of KeyRegistry: an epoch has a key once its           *)
(* certificate is stored, and an instance holds its active trust package.   *)
Registry == INSTANCE KeyRegistry
              WITH key <- [e \in Epochs |-> store[e]["CERT"]], held <- active

(* Every behaviour of the instances, of S3 and of the operator is one that  *)
(* the registry allows: an epoch's root key never changes, epochs never     *)
(* share a key, and reload installs only registered keys, in one step.      *)
ImplementsKeyRegistry == Registry!Spec

(* Once failures and deployments stop, every instance comes to serve, and   *)
(* goes on serving, exactly the active epochs of the deployed               *)
(* configuration: of all racing generators one completes each backup, and   *)
(* the others find it.                                                      *)
EventuallyServing ==
  \A i \in Instances :
    <>[]({e \in Epochs : active[i][e] # None} =
           ConfigInForce.active)
=============================================================================
