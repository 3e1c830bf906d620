---------------------------- MODULE TrustReload -----------------------------
(***************************************************************************)
(* One instance's reload of its trust package while an operator restores,  *)
(* replaces or loses objects in the buckets: the configuration, the two    *)
(* listings, the handles kept from one snapshot to the next as long as the *)
(* ETags match, the lazy and memoized reads, one GET per artifact, and the *)
(* publication of the new package (TrustPackageService, S3BackupStorage,   *)
(* S3BackupReader and the handles).  Unlike RootKeyBackup, which proves    *)
(* that the program itself never alters a completed backup, this module    *)
(* lets every object change at any moment.                                 *)
(*                                                                         *)
(* The content of an object is the version it was made in: the artifacts   *)
(* of an epoch that were sealed together have one version, and an object's *)
(* ETag is its version.  The operator may upload any version made so far,  *)
(* an earlier one too: the object then has its earlier ETag again.         *)
(***************************************************************************)
EXTENDS BackupLayout, CertificatesConfig, FiniteSets

CONSTANTS
  Epochs,      \* the epoch ids
  CrossIds,    \* the pairs of epochs with a cross-signed certificate
  Files,       \* the configuration files that may be deployed
  Legacy,      \* versions sealed without associated data
  Undecodable, \* versions of a cross-signed certificate that do not decode
  MaxVersion,  \* bound on the versions of an object
  MaxChanges,  \* bound on the operator's changes
  MaxFaults,   \* bound on failed calls
  None         \* no object, nothing read yet, no package

ASSUME ConstantsAssumption ==
  /\ 0 \in Epochs /\ Epochs \subseteq Nat
  /\ CrossIds \subseteq Epochs \X Epochs
  /\ {MaxVersion, MaxChanges, MaxFaults} \subseteq Nat /\ MaxVersion > 0

VARIABLES
  store,    \* epoch -> artifact -> version, or None
  cross,    \* cross-signed id -> version, or None
  release,  \* epoch -> the latest version the operator has
  releaseX, \* cross-signed id -> the latest version the operator has
  file,     \* the configuration file in S3
  changes,  \* changes by the operator so far
  faults,   \* failed calls so far
  pc,       \* where the reloading thread is
  conf,     \* the configuration of this iteration
  attempt,  \* 1, or 2 in the retry after the back-off
  listed,   \* epoch -> artifact -> the ETag the listings show
  listedX,  \* cross-signed id -> the ETag the listing shows
  handles,  \* cachedSnapshot: epoch -> ETags and memoized backup
  handlesX, \* cachedSnapshot: id -> ETag and memoized certificate
  todo,     \* active epochs still to load
  todoX,    \* active cross-signed ids still to load
  got,      \* the artifacts the GETs of the current epoch have returned
  next,     \* nextLoaded: epoch -> backup
  nextX,    \* crossSignedCertificates: id -> version
  active,   \* activeTrustState
  event,    \* the LoadEvent last recorded
  quiet     \* no change and no failure since the last public listing began

operator == <<store, cross, release, releaseX, file, changes>>
reads == <<listed, listedX, handles, handlesX>>
loads == <<todo, todoX, got, next, nextX>>
vars == <<operator, faults, pc, conf, attempt, reads, loads, active, event,
          quiet>>

Versions == 1 .. MaxVersion
Nothing == [a \in Elements |-> None]
NoHandle == [tags |-> Nothing, memo |-> Nothing]
NoHandleX == [tag |-> None, memo |-> None]
NoPackage == [bundles |-> [e \in Epochs |-> Nothing],
              cross |-> [x \in CrossIds |-> None], conf |-> NoConfig]
Found(tags) == {a \in Elements : tags[a] # None}

(* DefaultingCertificatesConfigProvider.DEFAULT_CONFIG.                     *)
DefaultConfig ==
  [defined |-> {0}, cross |-> {}, active |-> {0}, activeCross |-> {}]

LoadEvents == {"SUCCESS", "BACKUP_NOT_FOUND", "S3_OPERATION_FAILED",
               "KMS_OPERATION_FAILED", "STORED_BACKUP_CORRUPTED"}

Init ==
  /\ store = [e \in Epochs |-> [a \in Elements |-> 1]]
  /\ cross = [x \in CrossIds |-> 1]
  /\ release = [e \in Epochs |-> 1] /\ releaseX = [x \in CrossIds |-> 1]
  /\ file \in Files
  /\ changes = 0 /\ faults = 0
  /\ pc = "Idle" /\ conf = DefaultConfig /\ attempt = 1
  /\ listed = [e \in Epochs |-> Nothing]
  /\ listedX = [x \in CrossIds |-> None]
  /\ handles = [e \in Epochs |-> NoHandle]
  /\ handlesX = [x \in CrossIds |-> NoHandleX]
  /\ todo = {} /\ todoX = {} /\ got = <<>>
  /\ next = NoPackage.bundles /\ nextX = NoPackage.cross
  /\ active = NoPackage /\ event = "SUCCESS" /\ quiet = TRUE

-----------------------------------------------------------------------------
(* What a load does with what it has read.                                  *)

Fault == faults < MaxFaults /\ faults' = faults + 1 /\ quiet' = FALSE

(* The parts of a load that end with it, successful or not.                 *)
ForgetLoad ==
  /\ listed' = [e \in Epochs |-> Nothing]
  /\ listedX' = [x \in CrossIds |-> None]
  /\ todo' = {} /\ todoX' = {} /\ got' = <<>>
  /\ next' = NoPackage.bundles /\ nextX' = NoPackage.cross

(* mapFailureToEvent, by the exception: its handle state or its cause.      *)
MapFailureToEvent ==
  [Empty |-> "BACKUP_NOT_FOUND",
   Incomplete |-> "STORED_BACKUP_CORRUPTED",
   PartiallyWritten |-> "STORED_BACKUP_CORRUPTED",
   Corrupted |-> "STORED_BACKUP_CORRUPTED",
   Kms |-> "KMS_OPERATION_FAILED",
   S3 |-> "S3_OPERATION_FAILED"]

(* reload keeps the package it has; only BackupPartiallyWrittenException is *)
(* retried, once.                                                           *)
LoadFails(failure) ==
  /\ ForgetLoad
  /\ UNCHANGED active
  /\ IF failure = "PartiallyWritten" /\ attempt = 1
     THEN pc' = "ListPublic" /\ attempt' = 2 /\ UNCHANGED event
     ELSE pc' = "Idle" /\ attempt' = 1 /\ event' = MapFailureToEvent[failure]

(* Mutant: only the data key is tried.                                      *)
UnsealsByKey(b) == b["KMS_DATA_KEY"] = b["PRIVATE_KEY"]

(* AeadSelfSignedBundleBackupSealer.unseal: the data key opens the private  *)
(* key, with the certificate and the document as associated data unless it  *)
(* is a legacy backup, and the key must match the certificate.              *)
Unseals(b) ==
  /\ b["KMS_DATA_KEY"] = b["PRIVATE_KEY"]
  /\ b["CERT"] = b["PRIVATE_KEY"]
  /\ b["ATTESTATION_DOC"] = b["PRIVATE_KEY"] \/ b["PRIVATE_KEY"] \in Legacy

(* useLoadedOrLoadSelfSignedBundle for epoch e: a backup equal to the one   *)
(* in use is not unsealed again, another one is, with a call to KMS.        *)
UseOrUnseal(e, b) ==
  \/ /\ active.bundles[e] = b \/ Unseals(b)
     /\ next' = [next EXCEPT ![e] = b]
     /\ todo' = todo \ {e} /\ got' = <<>>
     /\ UNCHANGED <<pc, attempt, listed, listedX, todoX, nextX, active,
                    event, faults, quiet>>
  \/ /\ active.bundles[e] # b /\ ~Unseals(b)
     /\ LoadFails("Corrupted")
     /\ UNCHANGED <<faults, quiet>>
  \/ /\ active.bundles[e] # b
     /\ Fault
     /\ LoadFails("Kms")

-----------------------------------------------------------------------------
(* The reloading thread.                                                    *)

(* The monitor fetches the configuration and calls reload with it; a file   *)
(* that is invalid or cannot be fetched gives the default.                  *)
StartReload ==
  /\ pc = "Idle"
  /\ \/ /\ conf' = IF ToDomain(file) = NoConfig THEN DefaultConfig
                   ELSE ToDomain(file)
        /\ UNCHANGED <<faults, quiet>>
     \/ Fault /\ conf' = DefaultConfig
  /\ pc' = "ListPublic"
  /\ UNCHANGED <<operator, attempt, reads, loads, active, event>>

(* getSnapshot lists the public bucket ...                                  *)
ListPublic ==
  /\ pc = "ListPublic"
  /\ \/ /\ listed' = [e \in Epochs |-> [a \in Elements |->
                        IF a \in PublicElements THEN store[e][a] ELSE None]]
        /\ listedX' = cross
        /\ pc' = "ListPrivate" /\ quiet' = TRUE
        /\ UNCHANGED <<faults, attempt, loads, active, event>>
     \/ Fault /\ LoadFails("S3")
  /\ UNCHANGED <<operator, conf, handles, handlesX>>

(* Mutant: a cached complete handle is kept whatever the ETags.             *)
ReusesAny(handle, tags) == Found(handle.tags) = Elements

(* reuseCachedSelfSignedBundleBackupHandleOrCreateNew.                      *)
Reuses(handle, tags) == Found(handle.tags) = Elements /\ handle.tags = tags
ReuseOrCreate(handle, tags) ==
  IF Reuses(handle, tags) THEN handle ELSE [tags |-> tags, memo |-> Nothing]

(* Mutant: a cached cross-signed handle is kept whatever the ETag.          *)
ReuseAnyX(handle, tag) ==
  IF handle.tag # None THEN handle ELSE [tag |-> tag, memo |-> None]

(* reuseCachedCrossSignedCertificateBackupHandleOrCreateNew.                *)
ReuseOrCreateX(handle, tag) ==
  IF handle.tag = tag THEN handle ELSE [tag |-> tag, memo |-> None]

(* ... then the private one, and replaces the cached snapshot.              *)
ListPrivate ==
  /\ pc = "ListPrivate"
  /\ \/ LET tags == [e \in Epochs |-> [a \in Elements |->
                       IF a \in PrivateElements THEN store[e][a]
                       ELSE listed[e][a]]]
        IN /\ handles' = [e \in Epochs |-> ReuseOrCreate(handles[e], tags[e])]
           /\ handlesX' = [x \in CrossIds |->
                             ReuseOrCreateX(handlesX[x], listedX[x])]
           /\ listed' = [e \in Epochs |-> Nothing]
           /\ listedX' = [x \in CrossIds |-> None]
           /\ todo' = conf.active /\ todoX' = conf.activeCross
           /\ pc' = "Load"
           /\ UNCHANGED <<faults, quiet, attempt, got, next, nextX, active,
                          event>>
     \/ Fault /\ LoadFails("S3") /\ UNCHANGED <<handles, handlesX>>
  /\ UNCHANGED <<operator, conf>>

(* activeSelfSignedCertificates is in ascending order of epoch.             *)
Current(e) == pc = "Load" /\ e \in todo /\ \A f \in todo : e <= f

(* expect(Complete.class) on a handle that is not complete.                 *)
ExpectFails(e) ==
  /\ Current(e)
  /\ Found(handles[e].tags) # Elements
  /\ LoadFails(HandleState(Found(handles[e].tags)))
  /\ UNCHANGED <<operator, faults, quiet, conf, handles, handlesX>>

(* read() of a handle that has memoized its backup.                         *)
ReadMemoized(e) ==
  /\ Current(e)
  /\ handles[e].memo # Nothing
  /\ UseOrUnseal(e, handles[e].memo)
  /\ UNCHANGED <<operator, conf, handles, handlesX>>

(* The order of the reader's GETs.                                          *)
ReadOrder == <<"CERT", "KMS_DATA_KEY", "PRIVATE_KEY", "ATTESTATION_DOC">>

Fetched(values) ==
  [a \in Elements |-> values[CHOOSE i \in 1 .. 4 : ReadOrder[i] = a]]

(* read() keeps what the reader returned; an exception leaves no memo.      *)
Memoized(handle, b) ==
  IF Found(b) = Elements THEN [handle EXCEPT !.memo = b] ELSE handle

(* One GET of readSelfSignedBundleBackup; the fourth one classifies what    *)
(* was found, memoizes a complete backup and goes on to unseal it.          *)
GetArtifact(e) ==
  /\ Current(e)
  /\ Found(handles[e].tags) = Elements /\ handles[e].memo = Nothing
  /\ LET values == Append(got, store[e][ReadOrder[Len(got) + 1]])
         b == Fetched(values)
     IN \/ /\ Len(values) < 4
           /\ got' = values
           /\ UNCHANGED <<faults, quiet, pc, attempt, listed, listedX, handles,
                          todo, todoX, next, nextX, active, event>>
        \/ /\ Len(values) = 4
           /\ handles' = [handles EXCEPT ![e] = Memoized(@, b)]
           /\ \/ Found(b) = Elements /\ UseOrUnseal(e, b)
              \/ /\ Found(b) # Elements
                 /\ LoadFails(HandleState(Found(b)))
                 /\ UNCHANGED <<faults, quiet>>
        \/ Fault /\ LoadFails("S3") /\ UNCHANGED handles
  /\ UNCHANGED <<operator, conf, handlesX>>

(* activeCrossSignedCertificates is in ascending order of the pair.         *)
Before(x, y) == x[1] < y[1] \/ (x[1] = y[1] /\ x[2] <= y[2])

(* loadActiveCrossSignedCertificates, one certificate.                      *)
LoadCross(x) ==
  /\ pc = "Load" /\ todo = {}
  /\ x \in todoX /\ \A y \in todoX : Before(x, y)
  /\ LET h == handlesX[x]
         v == IF h.memo # None THEN h.memo ELSE cross[x]
     IN \/ /\ h.tag = None \/ v = None
           /\ LoadFails("Empty")
           /\ UNCHANGED <<faults, quiet, handlesX>>
        \/ /\ h.tag # None /\ v # None
           /\ handlesX' = [handlesX EXCEPT ![x].memo = v]
           /\ \/ /\ v \notin Undecodable
                 /\ nextX' = [nextX EXCEPT ![x] = v]
                 /\ todoX' = todoX \ {x}
                 /\ UNCHANGED <<pc, attempt, listed, listedX, todo, got, next,
                                active, event>>
              \/ v \in Undecodable /\ LoadFails("Corrupted")
           /\ UNCHANGED <<faults, quiet>>
        \/ /\ h.tag # None /\ h.memo = None
           /\ Fault /\ LoadFails("S3") /\ UNCHANGED handlesX
  /\ UNCHANGED <<operator, conf, handles>>

(* activeTrustState.set.                                                    *)
Publish ==
  /\ pc = "Load" /\ todo = {} /\ todoX = {}
  /\ active' = [bundles |-> next, cross |-> nextX, conf |-> conf]
  /\ event' = "SUCCESS"
  /\ pc' = "Idle" /\ attempt' = 1
  /\ ForgetLoad
  /\ UNCHANGED <<operator, faults, quiet, conf, handles, handlesX>>

-----------------------------------------------------------------------------
(* The operator.                                                            *)

Change == changes < MaxChanges /\ changes' = changes + 1 /\ quiet' = FALSE
thread == <<faults, pc, conf, attempt, reads, loads, active, event>>

(* Upload one artifact, of the latest version or of an earlier one, or lose *)
(* it.                                                                      *)
PutArtifact(e, a) ==
  /\ Change
  /\ \E v \in 1 .. release[e] :
       store[e][a] # v /\ store' = [store EXCEPT ![e][a] = v]
  /\ UNCHANGED <<cross, release, releaseX, file, thread>>
LoseArtifact(e, a) ==
  /\ Change
  /\ store[e][a] # None
  /\ store' = [store EXCEPT ![e][a] = None]
  /\ UNCHANGED <<cross, release, releaseX, file, thread>>

(* Prepare a new version of an object; nothing is stored yet.               *)
NewRelease(e) ==
  /\ changes < MaxChanges /\ changes' = changes + 1
  /\ release[e] < MaxVersion
  /\ release' = [release EXCEPT ![e] = @ + 1]
  /\ UNCHANGED <<store, cross, releaseX, file, quiet, thread>>
NewReleaseX(x) ==
  /\ changes < MaxChanges /\ changes' = changes + 1
  /\ releaseX[x] < MaxVersion
  /\ releaseX' = [releaseX EXCEPT ![x] = @ + 1]
  /\ UNCHANGED <<store, cross, release, file, quiet, thread>>

(* Upload or remove a cross-signed certificate.                             *)
PutCross(x) ==
  /\ Change
  /\ \E v \in 1 .. releaseX[x] :
       cross[x] # v /\ cross' = [cross EXCEPT ![x] = v]
  /\ UNCHANGED <<store, release, releaseX, file, thread>>
RemoveCross(x) ==
  /\ Change
  /\ cross[x] # None
  /\ cross' = [cross EXCEPT ![x] = None]
  /\ UNCHANGED <<store, release, releaseX, file, thread>>

(* Deploy another configuration file.                                       *)
Deploy(f) ==
  /\ Change
  /\ file # f /\ file' = f
  /\ UNCHANGED <<store, cross, release, releaseX, thread>>

-----------------------------------------------------------------------------
Reload ==
  \/ StartReload \/ ListPublic \/ ListPrivate \/ Publish
  \/ \E e \in Epochs : ExpectFails(e) \/ ReadMemoized(e) \/ GetArtifact(e)
  \/ \E x \in CrossIds : LoadCross(x)

Operate ==
  \/ \E e \in Epochs : NewRelease(e)
  \/ \E e \in Epochs, a \in Elements : PutArtifact(e, a) \/ LoseArtifact(e, a)
  \/ \E x \in CrossIds : NewReleaseX(x) \/ PutCross(x) \/ RemoveCross(x)
  \/ \E f \in Files : Deploy(f)

Next == Reload \/ Operate

Spec == Init /\ [][Next]_vars

(* The monitor's scheduler runs its iteration every two minutes.            *)
FairSpec == Spec /\ WF_vars(Reload)

-----------------------------------------------------------------------------
Backups == [Elements -> Versions \cup {None}]

(* Every variable has its type; the epochs and pairs a configuration makes  *)
(* active are in its inventory, so that CertificatesConfig's lookups of     *)
(* them (activeSelfSignedCertificates and the references of a cross-signed  *)
(* certificate) never give null.                                            *)
TypeOK ==
  /\ store \in [Epochs -> Backups] /\ cross \in [CrossIds -> Versions \cup {None}]
  /\ release \in [Epochs -> Versions] /\ releaseX \in [CrossIds -> Versions]
  /\ file \in Files
  /\ changes \in 0 .. MaxChanges /\ faults \in 0 .. MaxFaults
  /\ pc \in {"Idle", "ListPublic", "ListPrivate", "Load"}
  /\ attempt \in {1, 2}
  /\ listed \in [Epochs -> Backups]
  /\ listedX \in [CrossIds -> Versions \cup {None}]
  /\ handles \in [Epochs -> [tags : Backups, memo : Backups]]
  /\ todo \subseteq Epochs /\ todoX \subseteq CrossIds /\ Len(got) < 4
  /\ next \in [Epochs -> Backups]
  /\ active.bundles \in [Epochs -> Backups]
  /\ event \in LoadEvents /\ quiet \in BOOLEAN
  /\ conf.active # {} /\ conf.active \subseteq conf.defined
  /\ conf.activeCross \subseteq conf.cross
  /\ \A x \in conf.cross : {x[1], x[2]} \subseteq conf.defined

(* Every package in use is whole: it holds exactly the active epochs and    *)
(* pairs of one configuration, and no bundle in it joins a certificate, a   *)
(* private key and a data key of different versions, although the operator  *)
(* may replace artifacts between any two of the listings and GETs that      *)
(* loadActiveTrustState makes.                                              *)
PackageIsWhole ==
  active # NoPackage =>
    /\ \A e \in Epochs : active.bundles[e] # Nothing <=> e \in active.conf.active
    /\ \A x \in CrossIds : active.cross[x] # None <=> x \in active.conf.activeCross
    /\ \A e \in active.conf.active :
         /\ active.bundles[e]["CERT"] \in Versions
         /\ active.bundles[e]["CERT"] = active.bundles[e]["PRIVATE_KEY"]
         /\ active.bundles[e]["CERT"] = active.bundles[e]["KMS_DATA_KEY"]

(* A handle is torn when its read raced with uploads: it memoized other     *)
(* bytes than those whose ETags its listing shows.  Its memo is used for as *)
(* long as the listings show these ETags, and so also once the operator     *)
(* puts back, byte for byte, what was listed.                               *)
Torn(handle) == handle.memo \notin {Nothing, handle.tags}
TornX(handle) == handle.memo \notin {None, handle.tag}

(* What a reload finds: what the buckets hold, except where they hold what  *)
(* a torn handle was made for.                                              *)
Kept(e) ==
  IF Torn(handles[e]) /\ handles[e].tags = store[e] THEN handles[e].memo
  ELSE store[e]
KeptX(x) ==
  IF TornX(handlesX[x]) /\ handlesX[x].tag = cross[x] THEN handlesX[x].memo
  ELSE cross[x]

(* The package for a configuration.                                         *)
Stored(c) ==
  [bundles |-> [e \in Epochs |-> IF e \in c.active THEN Kept(e) ELSE Nothing],
   cross |-> [x \in CrossIds |-> IF x \in c.activeCross THEN KeptX(x) ELSE None],
   conf |-> c]
Loadable(c) ==
  /\ \A e \in c.active : Found(Kept(e)) = Elements /\ Unseals(Kept(e))
  /\ \A x \in c.activeCross : KeptX(x) # None /\ KeptX(x) \notin Undecodable

(* Only a read that raced with an upload leaves a torn memo.  A reload that *)
(* nothing disturbed from its listings to its end publishes what the        *)
(* buckets hold, or fails because they hold something it must not use:      *)
(* handles and backups memoized by earlier reloads give it nothing else.    *)
(* The one exception is a torn handle whose listed bytes have been put      *)
(* back: the ETags match again, and the reload uses its memo as if it had   *)
(* been read now.                                                           *)
QuietReloadIsExact ==
  [][/\ \A e \in Epochs : Torn(handles[e])' => Torn(handles[e]) \/ ~quiet
     /\ \A x \in CrossIds : TornX(handlesX[x])' => TornX(handlesX[x]) \/ ~quiet
     /\ pc = "Load" /\ pc' = "Idle" /\ quiet'
          => IF Loadable(conf) THEN event' = "SUCCESS" /\ active' = Stored(conf)
             ELSE event' # "SUCCESS" /\ active' = active]_vars

(* A repair takes effect: once the operator leaves loadable objects and a   *)
(* configuration in the buckets and calls stop failing, the package comes   *)
(* to be, for good, what the buckets hold (test                             *)
(* reload_updatesTrustPackageWhenStorageChanges, over every interleaving).  *)
(* A repair that puts back the bytes of a torn handle's listing is the      *)
(* exception: the torn memo, if it can be unsealed, is what comes to stay.  *)
InForce == IF ToDomain(file) = NoConfig THEN DefaultConfig ELSE ToDomain(file)
RepairTakesEffect ==
  <>[]Loadable(InForce) => <>[](active = Stored(InForce))

(* What readers of the active trust package may rely on at any moment.      *)
PackageInvariant == TypeOK /\ PackageIsWhole
=============================================================================
